-------------------------- MODULE DeskLists_proofs ---------------------------
(***************************************************************************)
(* The lists that outlive a message: what TLC checks of Credentials,       *)
(* BridgeRules, BatchQueue, History and ConsoleFeed on small instances,    *)
(* proved for any number of profiles, rules, references, files, transfers, *)
(* loads, orders, traces, messages, batches, events under way and clicks,  *)
(* and for any sizes of the feed's buffers.                                *)
(***************************************************************************)
EXTENDS DeskLists, DeskCards_proofs, FiniteSetTheorems, SequenceTheorems, TLAPS

\* NoValue and 0 are neither configs, references nor ids, a profile is no connection, and what an
\* older build left has no references.
SettingsGiven ==
    /\ NoValue \notin Settings!Cfg /\ NoValue \notin Ref
    /\ 0 \notin Id \cup Link /\ Id \cap Link = {}
    /\ \A c \in Left : c \in Settings!Cfg /\ c.ref = NoValue

Form == [open : BOOLEAN, form : Settings!Cfg, draft : BOOLEAN, editing : Id \cup {NoValue}, error : BOOLEAN]
Saving == [to : {"profile", "connect"}, target : Id \cup {NoValue}, next : Settings!Cfg]
Migration == [key : 0 .. 3, todo : SUBSET Settings!Slot, snapshot : Settings!Configs]

Migrating ==
    /\ moving \in Migration
    /\ \A s \in moving.todo : moving.snapshot[s] # NoValue
    /\ moving.key = 1 => moving.snapshot[0] # NoValue

SettingsTypes ==
    /\ Host # {}
    /\ disk \in Settings!Configs /\ saved \in Settings!Configs /\ disk[0] # NoValue /\ saved[0] # NoValue
    /\ moving # NoValue => Migrating
    /\ dialog \in Form
    /\ commit # NoValue => commit \in Saving
    /\ connecting # NoValue => connecting \in [slot : Settings!Slot, config : Settings!Cfg]

\* Where a reference leads.
Leads(r) == r # NoValue => r \in minted /\ r \in store \cup disowned
Tied(c) == c # NoValue => Leads(c.ref)

Led ==
    /\ \A s \in Settings!Slot : Tied(saved[s]) /\ Tied(disk[s])
    /\ Leads(dialog.form.ref)
    /\ connecting # NoValue => Leads(connecting.config.ref)
    /\ moving # NoValue => \A s \in Settings!Slot : Tied(moving.snapshot[s])
    /\ commit # NoValue => commit.next.ref \in minted

\* Nobody has the reference any more.
Off(c, r) == c # NoValue => c.ref # r
Free(r) ==
    /\ \A s \in Settings!Slot : Off(saved[s], r) /\ Off(disk[s], r)
    /\ dialog.form.ref # r
    /\ connecting # NoValue => connecting.config.ref # r
    /\ moving # NoValue => \A s \in Settings!Slot : Off(moving.snapshot[s], r)
    /\ commit # NoValue => commit.next.ref # r

\* What deleteProfile deletes, nobody has, or it is disowned.
Dropping ==
    /\ drops \subseteq minted /\ NoValue \notin drops
    /\ \A r \in drops \ disowned : Free(r)
    /\ forget # NoValue => forget \in disowned

SettingsInv == SettingsTypes /\ Led /\ Dropping

-----------------------------------------------------------------------------
LEMMA NothingOpen ==
    ASSUME SettingsInv
    PROVE  Settings!NoDangling
<1> SUFFICES ASSUME NEW s \in Settings!Slot, NEW r \in Settings!RefsOf({disk[s], saved[s]})
             PROVE  r \in store \cup disowned
  BY DEF Settings!NoDangling
<1>1. PICK c \in {disk[s], saved[s]} : c # NoValue /\ r = c.ref /\ r # NoValue
  BY DEF Settings!RefsOf
<1> QED
  BY <1>1 DEF SettingsInv, Led, Tied, Leads

LEMMA SettingsInit ==
    ASSUME SettingsGiven, Settings!Init
    PROVE  SettingsInv
<1>1. /\ disk \in [Settings!Slot -> Left \cup {NoValue}] /\ saved = disk /\ disk[0] # NoValue
      /\ moving = Settings!Asked
  BY DEF Settings!Init
<1>2. disk \in Settings!Configs /\ \A s \in Settings!Slot : disk[s] # NoValue => disk[s].ref = NoValue
  BY <1>1 DEF SettingsGiven, Settings!Configs
<1>3. disk[0] \in Settings!Cfg
  BY <1>1, <1>2 DEF Settings!Configs, Settings!Slot
<1>4. Host # {}
  BY <1>3 DEF Settings!Cfg
<1>5. dialog \in Form /\ dialog.form.ref = NoValue
  BY <1>4 DEF Settings!Init, Settings!Closed, Form, Settings!Cfg
<1>6. moving \in Migration /\ moving.key = 0 /\ moving.todo = {} /\ \A s \in Settings!Slot : moving.snapshot[s] = NoValue
  BY <1>1 DEF Settings!Asked, Migration, Settings!Configs
<1>7. SettingsTypes
  BY <1>1, <1>2, <1>4, <1>5, <1>6 DEF Settings!Init, SettingsTypes, Migrating
<1>8. Led /\ Dropping
  BY <1>1, <1>2, <1>5, <1>6 DEF Settings!Init, Led, Dropping, Tied, Leads
<1> QED
  BY <1>7, <1>8 DEF SettingsInv

\* The copy on disk.
LEMMA Copy ==
    ASSUME SettingsGiven, NEW c \in Settings!Cfg \cup {NoValue}
    PROVE  /\ Settings!withoutStoredSecrets(c) \in Settings!Cfg \cup {NoValue}
           /\ Settings!withoutStoredSecrets(c) = NoValue <=> c = NoValue
           /\ c # NoValue => Settings!withoutStoredSecrets(c).ref = c.ref
BY DEF SettingsGiven, Settings!withoutStoredSecrets, Settings!Cfg

\* What the invariant is about is left alone.
LEMMA SecretsStill ==
    ASSUME SettingsInv,
           UNCHANGED <<disk, saved, store, minted, moving, dialog, commit, forget, drops, connecting, disowned>>
    PROVE  SettingsInv'
BY DEF SettingsInv, SettingsTypes, Migrating, Led, Tied, Leads, Dropping, Free, Off

-----------------------------------------------------------------------------
(* Startup *)

\* What the migration takes up next is as it is on disk.
LEMMA Following ==
    ASSUME SettingsGiven, NEW k \in 0 .. 3, NEW d \in Settings!Configs, d[0] # NoValue,
           NEW m, m = Settings!From(k, d), m # NoValue
    PROVE  /\ m \in Migration
           /\ \A s \in m.todo : m.snapshot[s] # NoValue
           /\ m.key = 1 => m.snapshot[0] # NoValue
           /\ \A s \in Settings!Slot : m.snapshot[s] \in {NoValue, d[s]}
<1> DEFINE due == {j \in (k + 1) .. 3 : \E s \in Settings!Key[j] : Settings!Exposed(d[s])}
           j == CHOOSE i \in due : \A x \in due : i <= x
<1>1. /\ due # {} /\ m.key = j /\ m.todo = {s \in Settings!Key[j] : Settings!Exposed(d[s])}
      /\ m = [key |-> j, todo |-> m.todo, snapshot |-> m.snapshot]
      /\ m.snapshot = [s \in Settings!Slot |-> IF s \in Settings!Key[j] THEN d[s] ELSE NoValue]
  BY DEF Settings!From
<1>2. due \subseteq 1 .. 3
  OBVIOUS
<1>3. \E i \in due : \A x \in due : i <= x
  <2>1. CASE 1 \in due
    BY <1>2, <2>1
  <2>2. CASE 1 \notin due /\ 2 \in due
    BY <1>2, <2>2
  <2>3. CASE 1 \notin due /\ 2 \notin due
    BY <1>1, <1>2, <2>3
  <2> QED
    BY <2>1, <2>2, <2>3
<1>4. j \in due
  BY <1>3
<1> HIDE DEF due, j
<1>5. j \in 1 .. 3 /\ Settings!Key[j] \subseteq Settings!Slot /\ (j = 1 => 0 \in Settings!Key[j])
  BY <1>2, <1>4 DEF Settings!Key, Settings!Slot
<1>6. \A s \in Settings!Slot : /\ m.snapshot[s] = IF s \in Settings!Key[j] THEN d[s] ELSE NoValue
                               /\ m.snapshot[s] \in Settings!Cfg \cup {NoValue}
  BY <1>1 DEF Settings!Configs
<1>7. m.snapshot \in Settings!Configs
  BY <1>1, <1>6 DEF Settings!Configs
<1>8. m.todo \subseteq Settings!Slot
  BY <1>1, <1>5
<1>9. m \in Migration
  BY <1>1, <1>5, <1>7, <1>8 DEF Migration
<1>10. \A s \in m.todo : m.snapshot[s] # NoValue
  BY <1>1, <1>5, <1>6 DEF Settings!Exposed
<1>11. m.key = 1 => m.snapshot[0] # NoValue
  BY <1>1, <1>5, <1>6 DEF Settings!Slot
<1> QED
  BY <1>6, <1>9, <1>10, <1>11

LEMMA ReadKeeps ==
    ASSUME SettingsGiven, SettingsInv, Settings!ReadStored
    PROVE  SettingsInv'
<1>1. /\ moving' = NoValue \/ moving' = Settings!From(0, disk)
      /\ UNCHANGED <<disk, saved, store, minted, dialog, commit, forget, drops, connecting, disowned>>
  BY DEF Settings!ReadStored, Settings!window
<1>2. ASSUME moving' # NoValue
      PROVE  /\ Migrating'
             /\ \A s \in Settings!Slot : moving'.snapshot[s] \in {NoValue, disk[s]}
  <2>1. moving' = Settings!From(0, disk)
    BY <1>1, <1>2
  <2> QED
    BY <1>2, <2>1, Following DEF SettingsInv, SettingsTypes, Migrating
<1>3. SettingsTypes'
  BY <1>1, <1>2 DEF SettingsInv, SettingsTypes
<1>4. Led'
  BY <1>1, <1>2 DEF SettingsInv, Led, Tied, Leads
<1>5. Dropping'
  BY <1>1, <1>2 DEF SettingsInv, Dropping, Free, Off
<1> QED
  BY <1>3, <1>4, <1>5 DEF SettingsInv

LEMMA SecretMoves ==
    ASSUME SettingsGiven, SettingsInv, NEW s \in Settings!Slot, Settings!Move(s)
    PROVE  SettingsInv'
<1> DEFINE r == Settings!NewRef
<1>1. /\ moving # NoValue /\ s \in moving.todo /\ minted' = minted \cup {r} /\ Settings!Fresh # {}
      /\ UNCHANGED <<disk, saved, dialog, commit, forget, drops, connecting, disowned>>
  BY DEF Settings!Move, Settings!window
<1>2. r \in Settings!Fresh
  BY <1>1 DEF Settings!NewRef
<1>3. r \in Ref /\ r \notin minted /\ r # NoValue
  BY <1>2 DEF Settings!Fresh, SettingsGiven
<1>4. \/ /\ store' = store \cup {r}
         /\ moving' = [moving EXCEPT !.todo = @ \ {s}, !.snapshot[s].ref = r]
      \/ /\ store' = store
         /\ moving' = [moving EXCEPT !.todo = @ \ {s}]
  BY DEF Settings!Move
<1> HIDE DEF r
<1>5. moving \in Migration /\ moving.snapshot[s] \in Settings!Cfg /\ Migrating
  BY <1>1 DEF SettingsInv, SettingsTypes, Migrating, Migration, Settings!Configs
<1>6. /\ Migrating' /\ (\A x \in Settings!Slot : Tied(moving.snapshot[x]))'
      /\ \A x \in Settings!Slot \ {s} : moving'.snapshot[x] = moving.snapshot[x]
      /\ moving'.snapshot[s].ref \in {r, moving.snapshot[s].ref}
  <2>1. CASE /\ store' = store \cup {r}
             /\ moving' = [moving EXCEPT !.todo = @ \ {s}, !.snapshot[s].ref = r]
    <3>1. /\ moving'.todo = moving.todo \ {s} /\ moving'.key = moving.key
          /\ moving'.snapshot = [moving.snapshot EXCEPT ![s] = [moving.snapshot[s] EXCEPT !.ref = r]]
          /\ moving' \in Migration
      BY <1>3, <1>5, <2>1 DEF Migration, Settings!Configs, Settings!Cfg
    <3>2. /\ moving'.snapshot[s] \in Settings!Cfg /\ moving'.snapshot[s].ref = r
          /\ \A x \in Settings!Slot \ {s} : moving'.snapshot[x] = moving.snapshot[x]
      BY <1>3, <1>5, <3>1 DEF Migration, Settings!Configs, Settings!Cfg
    <3>3. Migrating'
      BY <1>5, <3>1, <3>2 DEF SettingsGiven, Migrating, Migration, Settings!Slot
    <3>4. (\A x \in Settings!Slot : Tied(moving.snapshot[x]))'
      BY <1>1, <2>1, <3>2 DEF SettingsInv, Led, Tied, Leads
    <3> QED
      BY <3>2, <3>3, <3>4
  <2>2. CASE store' = store /\ moving' = [moving EXCEPT !.todo = @ \ {s}]
    <3>1. /\ moving'.todo = moving.todo \ {s} /\ moving'.snapshot = moving.snapshot /\ moving'.key = moving.key
          /\ moving' \in Migration
      BY <1>5, <2>2 DEF Migration
    <3>2. Migrating'
      BY <1>5, <3>1 DEF Migrating
    <3>3. (\A x \in Settings!Slot : Tied(moving.snapshot[x]))'
      BY <1>1, <2>2, <3>1 DEF SettingsInv, Led, Tied, Leads
    <3> QED
      BY <3>1, <3>2, <3>3
  <2> QED
    BY <1>4, <2>1, <2>2
<1>7. SettingsTypes'
  BY <1>1, <1>6 DEF SettingsInv, SettingsTypes
<1>8. Led'
  <2>1. \A x : Leads(x) => Leads(x)'
    BY <1>1, <1>4 DEF Leads
  <2> QED
    BY <1>1, <1>6, <2>1 DEF SettingsInv, Led, Tied
<1>9. Dropping'
  <2>1. \A x \in drops \ disowned : Free(x) /\ x # r
    BY <1>3 DEF SettingsInv, Dropping
  <2>2. \A x \in drops \ disowned : \A y \in Settings!Slot : Off(moving'.snapshot[y], x)
    BY <1>1, <1>5, <1>6, <2>1, SettingsGiven DEF SettingsGiven, Free, Off
  <2>3. \A x \in drops \ disowned : Free(x)'
    BY <1>1, <2>1, <2>2 DEF Free, Off
  <2> QED
    BY <1>1, <2>3 DEF SettingsInv, Dropping
<1> QED
  BY <1>7, <1>8, <1>9 DEF SettingsInv

LEMMA WriteKeeps ==
    ASSUME SettingsGiven, SettingsInv, Settings!WriteMoved
    PROVE  SettingsInv'
<1>1. /\ moving # NoValue /\ moving.key # 0
      /\ UNCHANGED <<saved, store, minted, dialog, commit, forget, drops, connecting, disowned>>
      /\ moving' = Settings!From(moving.key, disk')
      /\ \/ disk' = disk
         \/ disk' = [s \in Settings!Slot |-> IF s \in Settings!Key[moving.key]
                                            THEN Settings!withoutStoredSecrets(moving.snapshot[s]) ELSE disk[s]]
  BY DEF Settings!WriteMoved, Settings!window
<1>2. moving \in Migration /\ moving.key \in 1 .. 3 /\ Migrating
  BY <1>1 DEF SettingsInv, SettingsTypes, Migrating, Migration
<1>3. \A s \in Settings!Slot :
          LET c == Settings!withoutStoredSecrets(moving.snapshot[s]) IN
          c \in Settings!Cfg \cup {NoValue} /\ (c = NoValue <=> moving.snapshot[s] = NoValue)
          /\ (c # NoValue => c.ref = moving.snapshot[s].ref)
  BY <1>2, Copy DEF Migration, Settings!Configs
<1>4. 0 \in Settings!Key[moving.key] => moving.key = 1
  BY <1>2 DEF SettingsGiven, Settings!Key
<1>5. /\ disk' \in Settings!Configs /\ disk'[0] # NoValue
      /\ \A s \in Settings!Slot : disk'[s] # NoValue =>
             \/ disk'[s] = disk[s]
             \/ moving.snapshot[s] # NoValue /\ disk'[s].ref = moving.snapshot[s].ref
  <2>1. CASE disk' = disk
    BY <2>1 DEF SettingsInv, SettingsTypes
  <2>2. CASE disk' = [s \in Settings!Slot |-> IF s \in Settings!Key[moving.key]
                                            THEN Settings!withoutStoredSecrets(moving.snapshot[s]) ELSE disk[s]]
    <3>1. disk' \in Settings!Configs
      BY <1>3, <2>2 DEF SettingsInv, SettingsTypes, Settings!Configs
    <3>2. disk'[0] # NoValue
      BY <1>2, <1>3, <1>4, <2>2 DEF SettingsInv, SettingsTypes, Settings!Slot, Migrating
    <3> QED
      BY <1>3, <2>2, <3>1, <3>2
  <2> QED
    BY <1>1, <2>1, <2>2
<1>6. ASSUME moving' # NoValue
      PROVE  /\ Migrating'
             /\ \A s \in Settings!Slot : moving'.snapshot[s] \in {NoValue, disk'[s]}
  <2>1. moving.key \in 0 .. 3
    BY <1>2
  <2> QED
    BY <1>1, <1>5, <1>6, <2>1, Following DEF Migrating
<1>7. SettingsTypes'
  BY <1>1, <1>5, <1>6 DEF SettingsInv, SettingsTypes
<1>8. \A s \in Settings!Slot : Tied(disk'[s])
  BY <1>1, <1>5 DEF SettingsInv, Led, Tied
<1>9. Led'
  BY <1>1, <1>6, <1>8 DEF SettingsInv, Led, Tied, Leads
<1>10. \A r \in drops \ disowned : \A s \in Settings!Slot : Off(disk'[s], r)
  BY <1>1, <1>5 DEF SettingsInv, Dropping, Free, Off
<1>11. Dropping'
  BY <1>1, <1>6, <1>10 DEF SettingsInv, Dropping, Free, Off
<1> QED
  BY <1>7, <1>9, <1>11 DEF SettingsInv

LEMMA StartupKeeps ==
    ASSUME SettingsGiven, SettingsInv, Settings!Startup
    PROVE  SettingsInv'
<1>1. CASE Settings!Mount
  <2>1. /\ saved' = disk
        /\ UNCHANGED <<disk, store, minted, moving, dialog, commit, forget, drops, connecting, disowned>>
    BY <1>1 DEF Settings!Mount, Settings!window
  <2>2. SettingsTypes'
    BY <2>1 DEF SettingsInv, SettingsTypes, Migrating
  <2>3. Led'
    BY <2>1 DEF SettingsInv, Led, Tied, Leads
  <2>4. Dropping'
    BY <2>1 DEF SettingsInv, Dropping, Free, Off
  <2> QED
    BY <2>2, <2>3, <2>4 DEF SettingsInv
<1> QED
  BY <1>1, ReadKeeps, SecretMoves, WriteKeeps DEF Settings!Startup

-----------------------------------------------------------------------------
(* The form *)

\* The form may hold what it held, nothing, or what a saved config has.
LEMMA FormKeeps ==
    ASSUME SettingsInv, dialog' \in Form,
           UNCHANGED <<disk, saved, store, minted, moving, commit, forget, drops, connecting, disowned>>,
           dialog'.form.ref \in {NoValue, dialog.form.ref} \cup {saved[s].ref : s \in {x \in Settings!Slot : saved[x] # NoValue}}
    PROVE  SettingsInv'
<1>1. SettingsTypes'
  BY DEF SettingsInv, SettingsTypes, Migrating
<1>2. Led'
  BY DEF SettingsInv, Led, Tied, Leads
<1>3. Dropping'
  BY DEF SettingsInv, Dropping, Free, Off
<1> QED
  BY <1>1, <1>2, <1>3 DEF SettingsInv

LEMMA EditKeeps ==
    ASSUME SettingsGiven, SettingsInv, Settings!EditForm
    PROVE  SettingsInv'
<1>0. /\ dialog \in Form
      /\ UNCHANGED <<disk, saved, store, minted, moving, commit, forget, drops, connecting, disowned>>
  <2>1. dialog \in Form
    BY DEF SettingsInv, SettingsTypes
  <2>2. UNCHANGED <<disk, saved, store, minted, moving, commit, forget, drops, connecting, disowned>>
    <3>1. CASE Settings!openSettings
      BY <3>1 DEF Settings!openSettings
    <3>2. CASE Settings!onClose
      BY <3>2 DEF Settings!onClose
    <3>3. CASE Settings!typePassword
      BY <3>3 DEF Settings!typePassword
    <3>4. CASE Settings!saveAsNew
      BY <3>4 DEF Settings!saveAsNew
    <3>5. CASE Settings!checkStoredSecret
      BY <3>5 DEF Settings!checkStoredSecret
    <3>6. CASE Settings!inspectTls
      BY <3>6 DEF Settings!inspectTls
    <3>7. CASE \E h \in Host : Settings!handleApplyPreset(h)
      BY <3>7 DEF Settings!handleApplyPreset
    <3>8. CASE \E h \in Host : Settings!editField(h)
      BY <3>8 DEF Settings!editField
    <3>9. CASE \E p \in Id : Settings!handleApplyProfile(p)
      BY <3>9 DEF Settings!handleApplyProfile
    <3> QED
      BY <3>1, <3>2, <3>3, <3>4, <3>5, <3>6, <3>7, <3>8, <3>9 DEF Settings!EditForm
  <2> QED
    BY <2>1, <2>2
<1>1. CASE Settings!openSettings
  <2>1. dialog' = Settings!Reset(saved[0]) /\ saved[0] \in Settings!Cfg /\ 0 \in Settings!Slot
    BY <1>1 DEF Settings!openSettings, SettingsInv, SettingsTypes, Settings!Configs, Settings!Slot
  <2>2. dialog' \in Form /\ dialog'.form = saved[0] /\ saved[0] # NoValue
    BY <2>1 DEF Settings!Reset, Form, SettingsInv, SettingsTypes
  <2> QED
    BY <1>0, <2>1, <2>2, FormKeeps
<1>2. CASE Settings!onClose \/ Settings!typePassword \/ Settings!saveAsNew
  <2>1. dialog' \in Form /\ dialog'.form = dialog.form
    BY <1>0, <1>2 DEF Settings!onClose, Settings!typePassword, Settings!saveAsNew, Form
  <2> QED
    BY <1>0, <2>1, FormKeeps
<1>3. CASE Settings!checkStoredSecret \/ Settings!inspectTls
  BY <1>0, <1>3, SecretsStill DEF Settings!checkStoredSecret, Settings!inspectTls
<1>4. ASSUME NEW h \in Host, Settings!handleApplyPreset(h) \/ Settings!editField(h)
      PROVE  SettingsInv'
  <2>1. dialog' \in Form /\ dialog'.form.ref = dialog.form.ref
    BY <1>0, <1>4 DEF Settings!handleApplyPreset, Settings!editField, Form, Settings!Cfg
  <2> QED
    BY <1>0, <2>1, FormKeeps
<1>5. ASSUME NEW p \in Id, Settings!handleApplyProfile(p)
      PROVE  SettingsInv'
  <2>1. p \in Settings!Slot /\ saved[p] # NoValue /\ saved[p] \in Settings!Cfg
    BY <1>5 DEF Settings!handleApplyProfile, SettingsInv, SettingsTypes, Settings!Configs, Settings!Slot
  <2>2. dialog' \in Form /\ dialog'.form = saved[p]
    BY <1>0, <1>5, <2>1 DEF Settings!handleApplyProfile, Form
  <2> QED
    BY <1>0, <2>1, <2>2, FormKeeps
<1> QED
  BY <1>1, <1>2, <1>3, <1>4, <1>5 DEF Settings!EditForm

-----------------------------------------------------------------------------
(* Saving *)

\* A config takes its place among the saved ones, and what is written to disk points where they do.
LEMMA KeepKeeps ==
    ASSUME SettingsGiven, SettingsInv, NEW s \in Settings!Slot, NEW c \in Settings!Cfg \cup {NoValue}, s = 0 => c # NoValue, Settings!Keep(s, c)
    PROVE  /\ saved' \in Settings!Configs /\ disk' \in Settings!Configs /\ saved'[0] # NoValue /\ disk'[0] # NoValue
           /\ saved'[s] = c /\ \A x \in Settings!Slot \ {s} : saved'[x] = saved[x]
           /\ \A x \in Settings!Slot :
                 \/ disk'[x] = disk[x] /\ (s \in Id => x \notin Id)
                 \/ disk'[x] # NoValue => saved'[x] # NoValue /\ disk'[x].ref = saved'[x].ref
<1>1. saved \in Settings!Configs /\ saved[0] # NoValue /\ 0 \in Settings!Slot /\ disk \in Settings!Configs /\ disk[0] # NoValue
  BY DEF SettingsInv, SettingsTypes, Settings!Slot
<1>2. /\ saved' = [saved EXCEPT ![s] = c]
      /\ disk' = [x \in Settings!Slot |-> IF \E k \in 1 .. 3 : {s, x} \subseteq Settings!Key[k]
                                         THEN Settings!withoutStoredSecrets(saved'[x]) ELSE disk[x]]
  BY DEF Settings!Keep
<1>3. saved' \in Settings!Configs /\ saved'[s] = c /\ \A x \in Settings!Slot \ {s} : saved'[x] = saved[x]
  BY <1>1, <1>2 DEF Settings!Configs
<1>4. \A x \in Settings!Slot :
          LET w == Settings!withoutStoredSecrets(saved'[x]) IN
          w \in Settings!Cfg \cup {NoValue} /\ (w = NoValue <=> saved'[x] = NoValue)
          /\ (w # NoValue => w.ref = saved'[x].ref)
  BY <1>3, Copy DEF Settings!Configs
<1>5. \A x \in Settings!Slot : s \in Id /\ x \in Id => \E k \in 1 .. 3 : {s, x} \subseteq Settings!Key[k]
  <2>1. Settings!Key[2] = Id
    BY DEF Settings!Key
  <2> QED
    BY <2>1
<1>6. \A x \in Settings!Slot :
          \/ disk'[x] = disk[x] /\ (s \in Id => x \notin Id)
          \/ disk'[x] = Settings!withoutStoredSecrets(saved'[x])
  BY <1>2, <1>5
<1>7. disk' \in Settings!Configs
  BY <1>1, <1>2, <1>4 DEF Settings!Configs
<1>8. saved'[0] # NoValue
  BY <1>1, <1>3
<1>9. disk'[0] # NoValue
  BY <1>1, <1>4, <1>6, <1>8
<1> QED
  BY <1>3, <1>4, <1>6, <1>7, <1>8, <1>9

\* A config whose reference leads somewhere, and that nobody is deleting, may be saved, or be on
\* its way to a broker.
Fit(c) ==
    /\ c \in Settings!Cfg
    /\ c.ref # NoValue => c.ref \in minted' /\ c.ref \in store' \cup disowned'
    /\ c.ref \notin drops \ disowned

Under(c) == [slot : Settings!Slot, config : {c}]

LEMMA ApplyKeeps ==
    ASSUME SettingsGiven, SettingsInv, NEW to, NEW target \in Id \cup {NoValue}, NEW c, Fit(c),
           \/ Settings!Apply(to, c, target)
           \/ connecting' = NoValue /\ \E s \in Settings!Slot : Settings!Keep(s, c),
           dialog' \in Form, dialog'.form.ref \in {NoValue, dialog.form.ref, c.ref},
           commit' \in {NoValue, commit}, UNCHANGED <<minted, moving, forget, drops, disowned>>,
           store \subseteq store'
    PROVE  SettingsInv'
<1>1. \/ UNCHANGED <<saved, disk>> /\ connecting' \in Under(c) \cup {connecting}
      \/ connecting' \in {NoValue, connecting} /\ \E s \in Settings!Slot : Settings!Keep(s, c)
  <2>1. [slot |-> 0, config |-> c] \in Under(c)
    BY DEF Under, Settings!Slot
  <2> QED
    BY <2>1 DEF Settings!Apply, Settings!Slot
<1>2. /\ saved' \in Settings!Configs /\ disk' \in Settings!Configs /\ saved'[0] # NoValue /\ disk'[0] # NoValue
      /\ connecting' \in {NoValue, connecting} \cup Under(c)
      /\ \A x \in Settings!Slot : saved'[x] \in {saved[x], c}
      /\ \A x \in Settings!Slot : \/ disk'[x] = disk[x]
                                  \/ disk'[x] # NoValue => saved'[x] # NoValue /\ disk'[x].ref = saved'[x].ref
  <2>1. CASE UNCHANGED <<saved, disk>> /\ connecting' \in Under(c) \cup {connecting}
    BY <2>1 DEF SettingsInv, SettingsTypes
  <2>2. CASE connecting' \in {NoValue, connecting} /\ \E s \in Settings!Slot : Settings!Keep(s, c)
    <3>1. PICK s \in Settings!Slot : Settings!Keep(s, c)
      BY <2>2
    <3>2. c \in Settings!Cfg /\ c # NoValue
      BY DEF Fit, SettingsGiven
    <3>3. /\ saved' \in Settings!Configs /\ disk' \in Settings!Configs /\ saved'[0] # NoValue /\ disk'[0] # NoValue
          /\ saved'[s] = c /\ \A x \in Settings!Slot \ {s} : saved'[x] = saved[x]
          /\ \A x \in Settings!Slot :
                \/ disk'[x] = disk[x] /\ (s \in Id => x \notin Id)
                \/ disk'[x] # NoValue => saved'[x] # NoValue /\ disk'[x].ref = saved'[x].ref
      BY <3>1, <3>2, KeepKeeps
    <3> QED
      BY <2>2, <3>3
  <2> QED
    BY <1>1, <2>1, <2>2
<1>3. connecting' # NoValue => \/ connecting' = connecting
                               \/ connecting' \in [slot : Settings!Slot, config : Settings!Cfg] /\ connecting'.config = c
  BY <1>2 DEF Under, Fit
<1>4. SettingsTypes'
  BY <1>2, <1>3 DEF SettingsInv, SettingsTypes, Migrating
<1>5. Led'
  <2>1. \A r : Leads(r) => Leads(r)'
    BY DEF Leads
  <2>2. c.ref # NoValue => c.ref \in minted' /\ c.ref \in store' \cup disowned'
    BY DEF Fit
  <2>3. Leads(dialog.form.ref)'
    BY <2>1, <2>2 DEF SettingsInv, Led, Leads
  <2>4. \A x \in Settings!Slot : Tied(saved[x])'
    BY <1>2, <2>1, <2>2 DEF SettingsInv, Led, Tied, Leads
  <2>5. \A x \in Settings!Slot : Tied(disk[x])'
    BY <1>2, <2>1, <2>4 DEF SettingsInv, Led, Tied
  <2>6. (connecting # NoValue => Leads(connecting.config.ref))'
    BY <1>3, <2>1, <2>2 DEF SettingsInv, Led, Leads
  <2>7. (moving # NoValue => \A x \in Settings!Slot : Tied(moving.snapshot[x]))'
    BY <2>1 DEF SettingsInv, Led, Tied
  <2>8. (commit # NoValue => commit.next.ref \in minted)'
    BY DEF SettingsInv, Led
  <2> QED
    BY <2>3, <2>4, <2>5, <2>6, <2>7, <2>8 DEF Led
<1>6. Dropping'
  <2>1. ASSUME NEW r \in drops \ disowned
        PROVE  Free(r)'
    <3>1. Free(r) /\ c.ref # r /\ r # NoValue
      BY <2>1 DEF SettingsInv, Dropping, Fit
    <3>2. \A x \in Settings!Slot : Off(saved'[x], r)
      BY <1>2, <3>1 DEF Free, Off
    <3>3. \A x \in Settings!Slot : Off(disk'[x], r)
      BY <1>2, <3>1, <3>2 DEF Free, Off
    <3>4. connecting' # NoValue => connecting'.config.ref # r
      BY <1>3, <3>1 DEF Free
    <3> QED
      BY <3>1, <3>2, <3>3, <3>4 DEF Free, Off
  <2> QED
    BY <2>1 DEF SettingsInv, Dropping
<1> QED
  BY <1>4, <1>5, <1>6 DEF SettingsInv

LEMMA SaveKeeps ==
    ASSUME SettingsGiven, SettingsInv,
           Settings!ConnectDone \/ Settings!Stored \/ \E to \in {"profile", "connect"} : Settings!SaveAtOnce(to)
    PROVE  SettingsInv'
<1>1. CASE Settings!ConnectDone
  <2> DEFINE c == connecting.config
  <2>1. connecting # NoValue /\ c \in Settings!Cfg /\ connecting.slot \in Settings!Slot /\ connecting' = NoValue
        /\ Settings!Keep(connecting.slot, c)
        /\ UNCHANGED <<store, minted, moving, commit, forget, drops, disowned>>
    BY <1>1 DEF Settings!ConnectDone, SettingsInv, SettingsTypes
  <2>2. Fit(c)
    BY <2>1 DEF SettingsInv, Led, Tied, Leads, Dropping, Free, Fit
  <2>3. dialog' \in Form /\ dialog'.form.ref \in {dialog.form.ref, c.ref}
    <3>1. dialog' \in {dialog, Settings!Reset(c)} /\ dialog \in Form
      BY <1>1 DEF Settings!ConnectDone, SettingsInv, SettingsTypes
    <3>2. Settings!Reset(c) \in Form /\ Settings!Reset(c).form = c
      BY <2>1 DEF Settings!Reset, Form
    <3> QED
      BY <3>1, <3>2
  <2> HIDE DEF c
  <2> QED
    BY <2>1, <2>2, <2>3, ApplyKeeps
<1>2. CASE Settings!Stored
  <2>1. commit # NoValue /\ commit \in Saving /\ commit' = NoValue /\ store' = store \cup {commit.next.ref}
        /\ Settings!Apply(commit.to, commit.next, commit.target)
        /\ UNCHANGED <<minted, moving, forget, drops, disowned>>
    BY <1>2 DEF Settings!Stored, SettingsInv, SettingsTypes
  <2>2. Fit(commit.next) /\ commit.target \in Id \cup {NoValue}
    BY <2>1 DEF SettingsInv, SettingsTypes, Led, Leads, Dropping, Free, Fit, Saving
  <2>3. dialog' \in Form /\ dialog'.form.ref = dialog.form.ref
    BY <1>2, <2>1 DEF Settings!Stored, SettingsInv, SettingsTypes, Form
  <2> QED
    BY <2>1, <2>2, <2>3, ApplyKeeps
<1>3. ASSUME NEW to \in {"profile", "connect"}, Settings!SaveAtOnce(to)
      PROVE  SettingsInv'
  <2> DEFINE c == IF Settings!Candidate THEN [dialog.form EXCEPT !.plain = TRUE, !.ref = NoValue] ELSE dialog.form
  <2>1. Settings!Apply(to, c, Settings!editingProfile)
        /\ UNCHANGED <<store, minted, moving, commit, forget, drops, disowned>>
    BY <1>3 DEF Settings!SaveAtOnce
  <2>2. c \in Settings!Cfg /\ c.ref \in {NoValue, dialog.form.ref}
    BY DEF SettingsInv, SettingsTypes, Form, Settings!Cfg
  <2>3. Fit(c)
    BY <2>1, <2>2 DEF SettingsInv, Led, Leads, Dropping, Free, Fit
  <2>4. dialog' \in Form /\ dialog'.form = dialog.form
    BY <1>3 DEF Settings!SaveAtOnce, SettingsInv, SettingsTypes, Form
  <2>5. Settings!editingProfile \in Id \cup {NoValue}
    BY DEF Settings!editingProfile, SettingsInv, SettingsTypes, Form
  <2> HIDE DEF c
  <2> QED
    BY <2>1, <2>3, <2>4, <2>5, ApplyKeeps
<1> QED
  BY <1>1, <1>2, <1>3

-----------------------------------------------------------------------------
(* The store *)

LEMMA SaveSecretKeeps ==
    ASSUME SettingsGiven, SettingsInv, NEW to \in {"profile", "connect"}, Settings!SaveSecret(to)
    PROVE  SettingsInv'
<1> DEFINE r == Settings!FormRef
           next == [dialog.form EXCEPT !.ref = r, !.plain = FALSE]
<1>1. /\ minted' = minted \cup {r} /\ commit = NoValue
      /\ commit' = [to |-> to, target |-> Settings!editingProfile, next |-> next]
      /\ dialog.form.ref # NoValue \/ Settings!Fresh # {}
      /\ UNCHANGED <<disk, saved, store, moving, dialog, forget, drops, connecting, disowned>>
  BY DEF Settings!SaveSecret
<1>2. IF dialog.form.ref # NoValue THEN r = dialog.form.ref ELSE r \in Settings!Fresh
  BY <1>1 DEF Settings!FormRef, Settings!NewRef
<1>3. r \in Ref /\ r # NoValue
  BY <1>2 DEF Settings!Fresh, SettingsInv, SettingsTypes, Form, Settings!Cfg, SettingsGiven
<1> HIDE DEF r
<1>4. next \in Settings!Cfg /\ next.ref = r /\ Settings!editingProfile \in Id \cup {NoValue}
  BY <1>3 DEF SettingsInv, SettingsTypes, Form, Settings!Cfg, Settings!editingProfile
<1> HIDE DEF next
<1>5. r \notin drops \ disowned
  BY <1>2 DEF SettingsInv, Dropping, Free, Settings!Fresh
<1>6. SettingsTypes'
  BY <1>1, <1>4 DEF SettingsInv, SettingsTypes, Migrating, Saving
<1>7. Led'
  BY <1>1, <1>4 DEF SettingsInv, Led, Tied, Leads
<1>8. Dropping'
  BY <1>1, <1>4, <1>5 DEF SettingsInv, Dropping, Free, Off
<1> QED
  BY <1>6, <1>7, <1>8 DEF SettingsInv

LEMMA ForgetKeeps ==
    ASSUME SettingsGiven, SettingsInv, Settings!handleClearStoredPassword \/ Settings!Forgotten \/ Settings!NotStored \/ Settings!ConnectFails
    PROVE  SettingsInv'
<1>1. CASE Settings!handleClearStoredPassword
  <2>1. /\ forget' = dialog.form.ref /\ disowned' = disowned \cup {dialog.form.ref}
        /\ UNCHANGED <<disk, saved, store, minted, moving, dialog, commit, drops, connecting>>
    BY <1>1 DEF Settings!handleClearStoredPassword
  <2>2. SettingsTypes'
    BY <2>1 DEF SettingsInv, SettingsTypes, Migrating
  <2>3. \A r : Leads(r) => Leads(r)'
    BY <2>1 DEF Leads
  <2>4. Led'
    BY <2>1, <2>3 DEF SettingsInv, Led, Tied
  <2>5. Dropping'
    BY <2>1 DEF SettingsInv, Dropping, Free, Off
  <2> QED
    BY <2>2, <2>4, <2>5 DEF SettingsInv
<1>2. CASE Settings!Forgotten
  <2>1. /\ forget \in disowned /\ forget' = NoValue
        /\ store \ {forget} \subseteq store'
        /\ UNCHANGED <<disk, saved, minted, moving, commit, drops, connecting, disowned>>
    BY <1>2 DEF Settings!Forgotten, SettingsInv, Dropping
  <2>2. dialog' \in Form /\ dialog'.form.ref \in {NoValue, dialog.form.ref}
    <3>1. dialog \in Form
      BY DEF SettingsInv, SettingsTypes
    <3>2. CASE dialog' = [dialog EXCEPT !.form.ref = NoValue, !.form.plain = FALSE, !.draft = FALSE, !.error = FALSE]
      BY <3>1, <3>2 DEF Form, Settings!Cfg
    <3>3. CASE dialog' = [dialog EXCEPT !.error = TRUE]
      BY <3>1, <3>3 DEF Form
    <3> QED
      BY <1>2, <3>2, <3>3 DEF Settings!Forgotten
  <2>3. \A r : Leads(r) => Leads(r)'
    BY <2>1 DEF Leads
  <2>4. SettingsTypes'
    BY <2>1, <2>2 DEF SettingsInv, SettingsTypes, Migrating
  <2>5. Leads(dialog.form.ref)'
    BY <2>2, <2>3 DEF SettingsInv, Led, Leads
  <2>6. Led'
    BY <2>1, <2>3, <2>5 DEF SettingsInv, Led, Tied
  <2>7. Dropping'
    BY <2>1, <2>2 DEF SettingsInv, Dropping, Free, Off
  <2> QED
    BY <2>4, <2>6, <2>7 DEF SettingsInv
<1>3. CASE Settings!NotStored \/ Settings!ConnectFails
  <2>1. /\ commit' \in {NoValue, commit} /\ connecting' \in {NoValue, connecting}
        /\ dialog' \in Form /\ dialog'.form = dialog.form
        /\ UNCHANGED <<disk, saved, store, minted, moving, forget, drops, disowned>>
    BY <1>3 DEF Settings!NotStored, Settings!ConnectFails, SettingsInv, SettingsTypes, Form
  <2>2. SettingsTypes'
    BY <2>1 DEF SettingsInv, SettingsTypes, Migrating
  <2>3. Led'
    BY <2>1 DEF SettingsInv, Led, Tied, Leads
  <2>4. Dropping'
    BY <2>1 DEF SettingsInv, Dropping, Free, Off
  <2> QED
    BY <2>2, <2>3, <2>4 DEF SettingsInv
<1> QED
  BY <1>1, <1>2, <1>3

\* The bridge remembers what it is given, and forgets it.
LEMMA BridgeKeeps ==
    ASSUME SettingsGiven, SettingsInv, NEW l \in Link,
           Settings!bridgeForget(l) \/ \E c \in Settings!Cfg : Settings!bridgeConnect(l, c)
    PROVE  SettingsInv'
<1>1. l \in Settings!Slot /\ l # 0
  BY DEF Settings!Slot, SettingsGiven
<1>2. CASE Settings!bridgeForget(l)
  <2>1. /\ Settings!Keep(l, NoValue)
        /\ UNCHANGED <<store, minted, moving, dialog, commit, forget, drops, connecting, disowned>>
    BY <1>2 DEF Settings!bridgeForget
  <2>2. /\ saved' \in Settings!Configs /\ disk' \in Settings!Configs /\ saved'[0] # NoValue /\ disk'[0] # NoValue
        /\ saved'[l] = NoValue /\ \A x \in Settings!Slot \ {l} : saved'[x] = saved[x]
        /\ \A x \in Settings!Slot :
              \/ disk'[x] = disk[x] /\ (l \in Id => x \notin Id)
              \/ disk'[x] # NoValue => saved'[x] # NoValue /\ disk'[x].ref = saved'[x].ref
    BY <1>1, <2>1, KeepKeeps
  <2>3. SettingsTypes'
    BY <2>1, <2>2 DEF SettingsInv, SettingsTypes, Migrating
  <2>4. \A x \in Settings!Slot : Tied(saved'[x])
    BY <2>1, <2>2 DEF SettingsInv, Led, Tied
  <2>5. \A x \in Settings!Slot : Tied(disk'[x])
    BY <2>1, <2>2, <2>4 DEF SettingsInv, Led, Tied
  <2>6. Led'
    BY <2>1, <2>4, <2>5 DEF SettingsInv, Led, Tied, Leads
  <2>7. \A r \in drops \ disowned : \A x \in Settings!Slot : Off(saved'[x], r) /\ Off(disk'[x], r)
    BY <2>1, <2>2 DEF SettingsInv, Dropping, Free, Off
  <2>8. Dropping'
    BY <2>1, <2>7 DEF SettingsInv, Dropping, Free, Off
  <2> QED
    BY <2>3, <2>6, <2>8 DEF SettingsInv
<1>3. ASSUME NEW c \in Settings!Cfg, Settings!bridgeConnect(l, c)
      PROVE  SettingsInv'
  <2>1. /\ connecting' = [slot |-> l, config |-> c]
        /\ c.ref = NoValue \/ \E s \in Settings!Slot : saved[s] = c
        /\ UNCHANGED <<disk, saved, store, minted, moving, dialog, commit, forget, drops, disowned>>
    BY <1>3 DEF Settings!bridgeConnect, Settings!Slot
  <2>2. Leads(c.ref) /\ c # NoValue
    BY <2>1 DEF SettingsGiven, SettingsInv, Led, Tied, Leads
  <2>3. SettingsTypes'
    BY <1>1, <2>1 DEF SettingsInv, SettingsTypes, Migrating
  <2>4. Led'
    BY <2>1, <2>2 DEF SettingsInv, Led, Tied, Leads
  <2>5. \A r \in drops \ disowned : c.ref # r
    BY <2>1, <2>2 DEF SettingsInv, Dropping, Free, Off
  <2>6. Dropping'
    BY <2>1, <2>5 DEF SettingsInv, Dropping, Free, Off
  <2> QED
    BY <2>3, <2>4, <2>6 DEF SettingsInv
<1> QED
  BY <1>2, <1>3

\* Whoever has a reference that is not disowned with a profile is no holder that was not asked.
LEMMA HoldersOf ==
    ASSUME SettingsGiven, SettingsInv, NEW r \in Ref, r \notin Settings!Held
    PROVE  /\ dialog.form.ref # r
           /\ \A s \in Link : Off(saved[s], r)
           /\ \A s \in Settings!Slot \ Id : Off(disk[s], r)
           /\ connecting # NoValue => connecting.config.ref # r
           /\ moving # NoValue => \A s \in Settings!Slot : Off(moving.snapshot[s], r)
           /\ commit # NoValue => commit.next.ref # r
<1> DEFINE all == {dialog.form} \cup {saved[l] : l \in Link} \cup {disk[s] : s \in Settings!Slot \ Id}
                  \cup (IF commit = NoValue THEN {} ELSE {commit.next})
                  \cup (IF connecting = NoValue THEN {} ELSE {connecting.config})
                  \cup (IF moving = NoValue THEN {} ELSE {moving.snapshot[s] : s \in Settings!Slot})
<1>1. \A c \in all : Off(c, r)
  <2>1. r # NoValue /\ r \notin Settings!RefsOf(all)
    BY DEF SettingsGiven, Settings!Held
  <2> HIDE DEF all
  <2> QED
    BY <2>1 DEF Settings!RefsOf, Off
<1>2. dialog.form # NoValue /\ (commit # NoValue => commit.next # NoValue) /\ (connecting # NoValue => connecting.config # NoValue)
  BY DEF SettingsGiven, SettingsInv, SettingsTypes, Form, Saving
<1>3. /\ dialog.form \in all
      /\ \A s \in Link : saved[s] \in all
      /\ \A s \in Settings!Slot \ Id : disk[s] \in all
      /\ connecting # NoValue => connecting.config \in all
      /\ moving # NoValue => \A s \in Settings!Slot : moving.snapshot[s] \in all
      /\ commit # NoValue => commit.next \in all
  OBVIOUS
<1> HIDE DEF all
<1> QED
  BY <1>1, <1>2, <1>3 DEF Off

\* A profile goes, and with it its password, unless the live config or another points there.
LEMMA DeleteKeeps ==
    ASSUME SettingsGiven, SettingsInv, NEW p \in Id, Settings!deleteProfile(p)
    PROVE  SettingsInv'
<1>0. PICK gone : gone = saved[p].ref
  OBVIOUS
<1> DEFINE others == {saved[s] : s \in ({0} \cup Id) \ {p}}
<1>1. /\ p \in Settings!Slot /\ p # 0 /\ saved[p] # NoValue /\ saved[p] \in Settings!Cfg /\ Settings!Keep(p, NoValue)
      /\ drops' = IF gone # NoValue /\ ~Settings!stillReferenced(p) THEN drops \cup {gone} ELSE drops
      /\ disowned' = disowned \cup (Settings!Held \cap (Settings!RefsOf({saved[p]}) \ Settings!RefsOf(others)))
      /\ UNCHANGED <<store, minted, moving, commit, forget, connecting>>
  BY <1>0 DEF Settings!deleteProfile, Settings!Slot, SettingsGiven, SettingsInv, SettingsTypes, Settings!Configs
<1>2. dialog' \in Form /\ dialog'.form = dialog.form
  BY DEF Settings!deleteProfile, SettingsInv, SettingsTypes, Form
<1>3. /\ saved' \in Settings!Configs /\ disk' \in Settings!Configs /\ saved'[0] # NoValue /\ disk'[0] # NoValue
      /\ saved'[p] = NoValue /\ \A x \in Settings!Slot \ {p} : saved'[x] = saved[x]
      /\ \A x \in Settings!Slot :
            \/ disk'[x] = disk[x] /\ x \notin Id
            \/ disk'[x] # NoValue => saved'[x] # NoValue /\ disk'[x].ref = saved'[x].ref
  BY <1>1, KeepKeeps
<1>4. SettingsTypes'
  BY <1>1, <1>2, <1>3 DEF SettingsInv, SettingsTypes, Migrating
<1>5. Led'
  <2>1. \A x \in Settings!Slot : Tied(saved[x])'
    BY <1>1, <1>3 DEF SettingsInv, Led, Tied, Leads
  <2>2. \A x \in Settings!Slot : Tied(disk[x])'
    BY <1>1, <1>3, <2>1 DEF SettingsInv, Led, Tied, Leads
  <2> QED
    BY <1>1, <1>2, <2>1, <2>2 DEF SettingsInv, Led, Tied, Leads
<1>6. disowned \subseteq disowned' /\ drops' \subseteq drops \cup {gone}
  BY <1>1
<1>7. ASSUME gone \in drops' \ disowned', gone \notin drops
      PROVE  Free(gone)'
  <2>1. gone # NoValue /\ ~Settings!stillReferenced(p) /\ gone \in Ref /\ gone \in minted
    BY <1>0, <1>1, <1>7 DEF Settings!Cfg, SettingsInv, Led, Tied, Leads
  <2>2. \A x \in ({0} \cup Id) \ {p} : Off(saved[x], gone)
    BY <1>0, <2>1 DEF Settings!stillReferenced, Off
  <2>3. gone \notin Settings!RefsOf(others)
    BY <2>2 DEF Settings!RefsOf, Off
  <2>4. gone \in Settings!RefsOf({saved[p]})
    BY <1>0, <1>1, <2>1 DEF Settings!RefsOf
  <2>5. gone \notin Settings!Held
    BY <1>1, <1>7, <2>3, <2>4
  <2> HIDE DEF others
  <2>6. /\ dialog.form.ref # gone
        /\ \A s \in Link : Off(saved[s], gone)
        /\ \A s \in Settings!Slot \ Id : Off(disk[s], gone)
        /\ connecting # NoValue => connecting.config.ref # gone
        /\ moving # NoValue => \A s \in Settings!Slot : Off(moving.snapshot[s], gone)
        /\ commit # NoValue => commit.next.ref # gone
    BY <2>1, <2>5, HoldersOf
  <2>7. \A x \in Settings!Slot : Off(saved'[x], gone)
    BY <1>3, <2>2, <2>6 DEF Settings!Slot, Off
  <2>8. \A x \in Settings!Slot : Off(disk'[x], gone)
    BY <1>3, <2>6, <2>7 DEF Off
  <2> QED
    BY <1>1, <1>2, <2>6, <2>7, <2>8 DEF Free
<1>8. ASSUME NEW r \in drops \ disowned'
      PROVE  Free(r)'
  <2>1. Free(r)
    BY <1>6, <1>8 DEF SettingsInv, Dropping
  <2>2. \A x \in Settings!Slot : Off(saved'[x], r) /\ Off(disk'[x], r)
    BY <1>3, <2>1 DEF Free, Off
  <2> QED
    BY <1>1, <1>2, <2>1, <2>2 DEF Free, Off
<1>9. gone \in drops' \ drops => gone # NoValue /\ gone \in minted
  BY <1>0, <1>1 DEF SettingsInv, Led, Tied, Leads
<1>10. Dropping'
  <2> HIDE DEF others
  <2>1. drops' \subseteq minted' /\ NoValue \notin drops'
    BY <1>1, <1>6, <1>9 DEF SettingsInv, Dropping
  <2>2. \A r \in drops' \ disowned' : Free(r)'
    BY <1>6, <1>7, <1>8
  <2>3. (forget # NoValue => forget \in disowned)'
    BY <1>1, <1>6 DEF SettingsInv, Dropping
  <2> QED
    BY <2>1, <2>2, <2>3 DEF Dropping
<1> QED
  BY <1>4, <1>5, <1>10 DEF SettingsInv

\* The deletion of a password that nobody points at, or that the user gave up.
LEMMA DroppedKeeps ==
    ASSUME SettingsGiven, SettingsInv, NEW r \in drops, Settings!Dropped(r)
    PROVE  SettingsInv'
<1>1. /\ drops' = drops \ {r} /\ store \ {r} \subseteq store'
      /\ UNCHANGED <<disk, saved, minted, moving, dialog, commit, forget, connecting, disowned>>
  BY DEF Settings!Dropped
<1>2. SettingsTypes'
  BY <1>1 DEF SettingsInv, SettingsTypes, Migrating
<1>3. Dropping'
  BY <1>1 DEF SettingsInv, Dropping, Free, Off
<1>4. \A x : Leads(x) /\ (x # r \/ r \in disowned) => Leads(x)'
  BY <1>1 DEF Leads
<1>5. r \in disowned \/ Free(r)
  BY DEF SettingsInv, Dropping
<1>6. \A x \in Settings!Slot : (Tied(saved[x]) /\ Tied(disk[x]))'
  BY <1>1, <1>4, <1>5 DEF SettingsInv, Led, Tied, Free, Off
<1>7. (moving # NoValue => \A x \in Settings!Slot : Tied(moving.snapshot[x]))'
  BY <1>1, <1>4, <1>5 DEF SettingsInv, Led, Tied, Free, Off
<1>8. Leads(dialog.form.ref)' /\ (connecting # NoValue => Leads(connecting.config.ref))'
  BY <1>1, <1>4, <1>5 DEF SettingsInv, Led, Free
<1>9. Led'
  BY <1>1, <1>6, <1>7, <1>8 DEF SettingsInv, Led
<1> QED
  BY <1>2, <1>3, <1>9 DEF SettingsInv

LEMMA RestartKeeps ==
    ASSUME SettingsGiven, SettingsInv, Settings!Restart
    PROVE  SettingsInv'
<1>1. /\ moving' = Settings!Asked /\ dialog' = Settings!Closed
      /\ commit' = NoValue /\ forget' = NoValue /\ drops' = {} /\ connecting' = NoValue
      /\ UNCHANGED <<disk, saved, store, minted, disowned>>
  BY DEF Settings!Restart
<1>2. dialog' \in Form /\ dialog'.form.ref = NoValue
  <2>1. Host # {}
    BY DEF SettingsInv, SettingsTypes
  <2> QED
    BY <1>1, <2>1 DEF Settings!Closed, Form, Settings!Cfg
<1>3. moving' \in Migration /\ moving'.key = 0 /\ moving'.todo = {} /\ \A s \in Settings!Slot : moving'.snapshot[s] = NoValue
  BY <1>1 DEF Settings!Asked, Migration, Settings!Configs
<1>4. SettingsTypes'
  BY <1>1, <1>2, <1>3 DEF SettingsInv, SettingsTypes, Migrating
<1>5. Led' /\ Dropping'
  BY <1>1, <1>2, <1>3 DEF SettingsInv, Led, Tied, Leads, Dropping
<1> QED
  BY <1>4, <1>5 DEF SettingsInv

-----------------------------------------------------------------------------
LEMMA SettingsStep ==
    ASSUME SettingsGiven, SettingsInv, [Settings!Next]_(Settings!vars)
    PROVE  SettingsInv'
<1>1. CASE Settings!Answers
  <2>1. CASE Settings!StatusAnswer
    BY <2>1, SecretsStill DEF Settings!StatusAnswer
  <2> QED
    BY <1>1, <2>1, SaveKeeps, ForgetKeeps, DroppedKeeps DEF Settings!Answers
<1>2. CASE Settings!Act
  <2>1. CASE \E l \in Link : Settings!bridgeForget(l) \/ \E c \in Settings!Cfg : Settings!bridgeConnect(l, c)
    BY <2>1, BridgeKeeps
  <2>2. CASE \E to \in {"profile", "connect"} : Settings!SaveAtOnce(to) \/ Settings!SaveSecret(to)
    BY <2>2, SaveKeeps, SaveSecretKeeps
  <2> QED
    BY <1>2, <2>1, <2>2, ForgetKeeps, DeleteKeeps, RestartKeeps DEF Settings!Act
<1>3. CASE UNCHANGED Settings!vars
  BY <1>3, SecretsStill DEF Settings!vars
<1> QED
  BY <1>1, <1>2, <1>3, StartupKeeps, EditKeeps DEF Settings!Next

\* A step of the desk is one of the part that is open, or changes nothing in it.
LEMMA SettingsMoves == [ListsStep]_<<part, clicks, listVars>> => part' = part /\ (part = "settings" => [Settings!Next]_(Settings!vars))
BY DEF ListsStep, ListsNext, ListsParts, listVars, settings, Settings!vars

\* Of these parts alone: see NothingDangles in Desk_proofs.
LEMMA NothingDanglesInLists ==
    ListsSpec => []NoDangling
<1> DEFINE Holds == part = "settings" => SettingsInv
<1>1. ListsInit => Holds
  BY SettingsInit, ListsAssumption DEF ListsInit, SettingsGiven
<1>2. Holds /\ [ListsStep]_<<part, clicks, listVars>> => Holds'
  BY SettingsStep, ListsAssumption, SettingsMoves DEF SettingsGiven
<1>3. Holds => NoDangling
  BY NothingOpen DEF NoDangling
<1> QED
  BY <1>1, <1>2, <1>3, PTL DEF ListsSpec

-----------------------------------------------------------------------------
(* Numbers and finite sets *)

\* A set of numbers that is not empty and has a bound has a greatest one.
LEMMA Greatest ==
    ASSUME NEW n \in Nat, NEW S, S \subseteq 1 .. n, S # {}
    PROVE  Bridge!Max(S) \in S
<1> DEFINE T == {x \in Nat : n - x \in S}
<1>1. T \subseteq Nat /\ T # {}
  <2>1. PICK y \in S : TRUE
    OBVIOUS
  <2>2. y \in 1 .. n
    OBVIOUS
  <2>3. n - y \in Nat /\ n - (n - y) = y
    BY <2>2
  <2> QED
    BY <2>1, <2>3
<1>2. PICK x \in T : \A y \in T : x <= y
  <2> HIDE DEF T
  <2> QED
    BY <1>1, LeastNat
<1>3. x \in Nat /\ n - x \in S
  OBVIOUS
<1>4. \A y \in S : n - x >= y
  <2> TAKE y \in S
  <2>1. y \in 1 .. n
    OBVIOUS
  <2>2. n - y \in Nat /\ n - (n - y) = y
    BY <2>1
  <2>3. n - y \in T
    BY <2>2
  <2>4. x <= n - y
    BY <1>2, <2>3
  <2> QED
    BY <1>3, <2>1, <2>4
<1> QED
  BY <1>3, <1>4 DEF Bridge!Max

LEMMA SameSize == \A S : Bridge!Cardinality(S) = Cardinality(S)
BY DEF Bridge!Cardinality, Cardinality

LEMMA SameFinite == \A S : Bridge!IsFiniteSet(S) <=> IsFiniteSet(S)
BY DEF Bridge!IsFiniteSet, IsFiniteSet

LEMMA SameInjective == \A f : Bridge!IsInjective(f) <=> IsInjective(f)
BY DEF Bridge!IsInjective, IsInjective

LEMMA Ascends ==
    ASSUME NEW n \in Nat, NEW S, S \subseteq 1 .. n
    PROVE  Bridge!Ascending(S) \in Seq(S)
<1>1. PICK s : Enumerates(s, S)
  BY CanAscend
<1>2. \E r \in [1 .. Cardinality(S) -> S] : \A i, j \in DOMAIN r : i < j => r[i] < r[j]
  BY <1>1 DEF Enumerates
<1>3. Bridge!Ascending(S) \in [1 .. Cardinality(S) -> S]
  BY <1>2, SameSize DEF Bridge!Ascending
<1>4. Cardinality(S) \in Nat
  BY BoundedIsFinite, FS_CardinalityType
<1> QED
  BY <1>3, <1>4

-----------------------------------------------------------------------------
(* Bridge rules: where the references of credential headers lead *)

RuleSet == [Id -> Bridge!Rule \cup {NoValue}]
Lines == Seq(Bridge!Row)
BridgeForm == [open : BOOLEAN, editing : Id \cup {NoValue}, error : BOOLEAN]
BridgeSave == [rule : Bridge!Rule, texts : Seq(Lines), editing : Id \cup {NoValue}, at : {"status", "writes"},
               todo : SUBSET Ref, done : SUBSET Ref]

\* The references of the rules in the window, of those on disk and in the migration's snapshot, of
\* the form, and of the save under way; those it has still to write, and those it has written.
Pointed == Bridge!headerReferences(bridgeRules)
Filed == Bridge!headerReferences(bridgeDisk)
         \cup (IF staged = NoValue THEN {} ELSE Bridge!headerReferences(staged.rules))
Drafted == Bridge!RefsOfSinks(draft.sinks)
Carried == IF bridgeSaving = NoValue THEN {} ELSE Bridge!RefsOfSinks(bridgeSaving.rule.sinks)
Todo == IF bridgeSaving = NoValue THEN {} ELSE bridgeSaving.todo
Done == IF bridgeSaving = NoValue THEN {} ELSE bridgeSaving.done

ListTypes ==
    /\ bridgeRules \in RuleSet /\ bridgeDisk \in RuleSet
    /\ staged # NoValue => staged \in [rules : RuleSet, moved : BOOLEAN]
    /\ bridgeConnections \subseteq Conn /\ bridgeBoot \in [asked : BOOLEAN, up : BOOLEAN]
VaultTypes == bridgeStore \subseteq Ref /\ bridgeMinted \subseteq Ref /\ bridgeDrops \subseteq Ref /\ bridgeDisowned \subseteq Ref
FormTypes ==
    /\ draft \in Bridge!Rule /\ bridgeForm \in BridgeForm
    /\ texts \in Seq(Lines) /\ Len(texts) = Len(draft.sinks)
SaveTypes ==
    bridgeSaving # NoValue =>
        /\ bridgeSaving \in BridgeSave
        /\ bridgeSaving.at = "status" =>
               Len(bridgeSaving.texts) = Len(bridgeSaving.rule.sinks) /\ bridgeSaving.todo = {} /\ bridgeSaving.done = {}
BridgeTypes == ListTypes /\ VaultTypes /\ FormTypes /\ SaveTypes

\* Where a reference leads, and who may still delete what it leads to.
Kept(r) ==
    /\ r \in Pointed \cup Filed => r \in bridgeStore \cup bridgeDisowned
    /\ r \in Drafted => r \in Pointed \cup bridgeDisowned
    /\ r \in Carried => r \in Pointed \cup bridgeDisowned \cup Todo \cup Done
    /\ r \in Done => r \in bridgeStore
    /\ r \in Todo \cup Done => r \notin Pointed \cup Filed \cup bridgeDrops
    /\ r \in bridgeDrops /\ r \in Pointed \cup Filed \cup Drafted \cup Carried => r \in bridgeDisowned
    /\ r \in Pointed \cup Filed \cup bridgeDrops \cup Todo \cup Done \cup bridgeDisowned => r \in bridgeMinted

\* Before the window is mounted, it has no rules, and nothing is under way in it.
Mounting == ~bridgeBoot.up => Pointed = {} /\ Drafted = {} /\ bridgeSaving = NoValue

BridgeInv == BridgeTypes /\ (\A r \in Ref : Kept(r)) /\ Mounting

-----------------------------------------------------------------------------
(* References of sinks and of rules *)

LEMMA InSinks ==
    ASSUME NEW r, NEW ss
    PROVE  r \in Bridge!RefsOfSinks(ss) <=> \E k \in DOMAIN ss : \E j \in DOMAIN ss[k].secrets : r = ss[k].secrets[j][2]
BY DEF Bridge!RefsOfSinks, Bridge!ToSet

LEMMA InRules ==
    ASSUME NEW r, NEW rs
    PROVE  r \in Bridge!headerReferences(rs) <=> \E i \in Id : rs[i] # NoValue /\ r \in Bridge!RefsOfSinks(rs[i].sinks)
BY DEF Bridge!headerReferences

LEMMA SinksTyped ==
    ASSUME NEW ss \in Seq(Bridge!Sink)
    PROVE  Bridge!RefsOfSinks(ss) \subseteq Ref
<1> SUFFICES ASSUME NEW r \in Bridge!RefsOfSinks(ss)
             PROVE  r \in Ref
  OBVIOUS
<1>0. PICK k \in DOMAIN ss : \E j \in DOMAIN ss[k].secrets : r = ss[k].secrets[j][2]
  BY InSinks
<1>1. PICK j \in DOMAIN ss[k].secrets : r = ss[k].secrets[j][2]
  BY <1>0
<1>2. ss[k] \in Bridge!Sink
  BY ElementOfSeq, LenProperties
<1>3. ss[k].secrets \in Seq(Name \X Ref)
  BY <1>2 DEF Bridge!Sink
<1>4. ss[k].secrets[j] \in Name \X Ref
  BY <1>3, ElementOfSeq, LenProperties
<1> QED
  BY <1>1, <1>4

LEMMA RulesTyped ==
    ASSUME NEW rs \in RuleSet
    PROVE  Bridge!headerReferences(rs) \subseteq Ref
<1> SUFFICES ASSUME NEW r \in Bridge!headerReferences(rs)
             PROVE  r \in Ref
  OBVIOUS
<1>1. PICK i \in Id : rs[i] # NoValue /\ r \in Bridge!RefsOfSinks(rs[i].sinks)
  BY InRules
<1>2. rs[i] \in Bridge!Rule
  BY <1>1 DEF RuleSet
<1>3. rs[i].sinks \in Seq(Bridge!Sink)
  BY <1>2 DEF Bridge!Rule
<1> QED
  BY <1>1, <1>3, SinksTyped

LEMMA BridgeTold == BridgeInv => Bridge!HeaderHasValue
<1> SUFFICES ASSUME BridgeInv, NEW r \in Pointed \cup Bridge!headerReferences(bridgeDisk)
             PROVE  r \in bridgeStore \cup bridgeDisowned
  BY DEF Bridge!HeaderHasValue, Pointed
<1>1. r \in Ref /\ r \in Pointed \cup Filed
  BY RulesTyped DEF BridgeInv, BridgeTypes, ListTypes, Pointed, Filed
<1> QED
  BY <1>1 DEF BridgeInv, Kept

\* A new rule.
LEMMA NewRule ==
    ASSUME NEW s \in Conn, NEW t \in Conn
    PROVE  /\ Bridge!newRuleDraft(s, t) \in Bridge!Rule
           /\ Bridge!RefsOfSinks(Bridge!newRuleDraft(s, t).sinks) = {}
           /\ << <<>> >> \in Seq(Lines) /\ Len(<< <<>> >>) = Len(Bridge!newRuleDraft(s, t).sinks)
<1> DEFINE new == Bridge!newRuleDraft(s, t)
           one == <<Bridge!newSink>>
<1>1. <<>> \in Seq(Name \X Ref) /\ <<>> \in Lines
  BY EmptySeq DEF Lines
<1>2. Bridge!newSink \in Bridge!Sink
  BY <1>1, SameFinite, FS_EmptySet DEF Bridge!newSink, Bridge!Sink
<1>3. one \in Seq(Bridge!Sink) /\ Len(one) = 1
  BY <1>2
<1>4. DOMAIN one = {1} /\ one[1] = Bridge!newSink
  BY <1>2
<1>5. new.sinks = one
  BY DEF Bridge!newRuleDraft
<1>6. new \in Bridge!Rule
  BY <1>3 DEF Bridge!newRuleDraft, Bridge!Rule
<1>7. Bridge!RefsOfSinks(one) = {}
  <2>1. DOMAIN Bridge!newSink.secrets = {}
    <3>1. Bridge!newSink.secrets = <<>>
      BY DEF Bridge!newSink
    <3>2. DOMAIN <<>> = {}
      OBVIOUS
    <3> QED
      BY <3>1, <3>2
  <2> HIDE DEF one
  <2>2. \A r : r \notin Bridge!RefsOfSinks(one)
    BY <1>4, <2>1, InSinks
  <2> QED
    BY <2>2
<1>8. << <<>> >> \in Seq(Lines) /\ Len(<< <<>> >>) = 1
  BY <1>1
<1> QED
  BY <1>3, <1>5, <1>6, <1>7, <1>8

-----------------------------------------------------------------------------
\* What only the form changes.
LEMMA RuleFormKeeps ==
    ASSUME BridgeInv, bridgeBoot.up, FormTypes', Drafted' \subseteq Drafted \cup Pointed,
           UNCHANGED <<bridgeRules, bridgeDisk, bridgeConnections, bridgeBoot, staged, bridgeStore, bridgeMinted, bridgeSaving, bridgeDrops,
                       bridgeDisowned>>
    PROVE  BridgeInv'
<1>1. UNCHANGED <<Pointed, Filed, Carried, Todo, Done>>
  BY DEF Pointed, Filed, Carried, Todo, Done
<1>2. BridgeTypes'
  BY DEF BridgeInv, BridgeTypes, ListTypes, VaultTypes, SaveTypes
<1>3. Mounting'
  BY DEF Mounting
<1>4. ASSUME NEW r \in Ref
      PROVE  Kept(r)'
  BY <1>1 DEF BridgeInv, Kept
<1> QED
  BY <1>2, <1>3, <1>4 DEF BridgeInv

\* The rules change, and with them what the store is to forget, while a form and a save go on.
LEMMA RulesKeep ==
    ASSUME BridgeInv, bridgeBoot.up, NEW rs \in RuleSet, Bridge!setRules(rs),
           Bridge!headerReferences(rs) \subseteq Pointed,
           UNCHANGED <<bridgeConnections, bridgeBoot, staged, bridgeStore, bridgeMinted, draft, texts, bridgeForm, bridgeSaving>>
    PROVE  BridgeInv'
<1> DEFINE Gone == Pointed \ Bridge!headerReferences(rs)
           Snapshot == IF staged = NoValue THEN {} ELSE Bridge!headerReferences(staged.rules)
<1>1. /\ bridgeRules' = rs /\ bridgeDisk' = rs /\ bridgeDrops' = bridgeDrops \cup Gone
      /\ bridgeDisowned' = bridgeDisowned \cup (Gone \cap (Drafted' \cup Carried' \cup Snapshot))
  BY DEF Bridge!setRules, Bridge!releasedReferences, Bridge!HeldBy, Pointed, Drafted, Carried
<1>2. UNCHANGED <<Drafted, Carried, Todo, Done>> /\ Pointed' = Bridge!headerReferences(rs)
      /\ Filed' = Pointed' \cup Snapshot /\ Snapshot \subseteq Filed
  BY <1>1 DEF Drafted, Carried, Todo, Done, Pointed, Filed
<1> HIDE DEF Snapshot
<1>3. Gone \subseteq Ref
  BY RulesTyped DEF BridgeInv, BridgeTypes, ListTypes, Pointed
<1>4. BridgeTypes'
  <2>1. ListTypes' /\ FormTypes' /\ SaveTypes'
    BY <1>1 DEF BridgeInv, BridgeTypes, ListTypes, FormTypes, SaveTypes
  <2>2. VaultTypes'
    BY <1>1, <1>3 DEF BridgeInv, BridgeTypes, VaultTypes
  <2> QED
    BY <2>1, <2>2 DEF BridgeTypes
<1>5. Mounting'
  BY DEF Mounting
<1>6. ASSUME NEW r \in Ref
      PROVE  Kept(r)'
  BY <1>1, <1>2 DEF BridgeInv, Kept
<1> QED
  BY <1>4, <1>5, <1>6 DEF BridgeInv

\* The last step of a save: whatever rule it puts where, of what the form or the save had.
LEMMA FinishKeeps ==
    ASSUME BridgeInv, bridgeBoot.up, NEW rule \in Bridge!Rule, NEW editing \in Id \cup {NoValue},
           Bridge!Finish(rule, editing), Todo = {},
           Bridge!RefsOfSinks(rule.sinks) \subseteq Pointed \cup Drafted \cup Carried,
           UNCHANGED <<bridgeConnections, bridgeBoot, staged, bridgeStore, bridgeMinted>>
    PROVE  BridgeInv'
<1>1. /\ draft' = Bridge!newRuleDraft(rule.source, rule.target) /\ texts' = << <<>> >>
      /\ bridgeForm' = Bridge!Closed /\ bridgeSaving' = NoValue
  BY DEF Bridge!Finish
<1>2. FormTypes' /\ Drafted' = {}
  <2>1. rule.source \in Conn /\ rule.target \in Conn
    BY DEF Bridge!Rule
  <2>2. bridgeForm' \in BridgeForm
    BY <1>1 DEF Bridge!Closed, BridgeForm
  <2> QED
    BY <1>1, <2>1, <2>2, NewRule DEF FormTypes, Drafted
<1>3. PICK rs : /\ Bridge!setRules(rs)
                /\ rs = bridgeRules \/ \E i \in Id : rs = [bridgeRules EXCEPT ![i] = rule]
  BY DEF Bridge!Finish
<1>4. bridgeRules \in RuleSet
  BY DEF BridgeInv, BridgeTypes, ListTypes
<1>5. rs \in RuleSet /\ Bridge!headerReferences(rs) \subseteq Pointed \cup Bridge!RefsOfSinks(rule.sinks)
  <2>1. CASE rs = bridgeRules
    BY <1>4, <2>1 DEF Pointed
  <2>2. ASSUME NEW i \in Id, rs = [bridgeRules EXCEPT ![i] = rule]
        PROVE  rs \in RuleSet /\ Bridge!headerReferences(rs) \subseteq Pointed \cup Bridge!RefsOfSinks(rule.sinks)
    <3>1. rs \in RuleSet /\ \A x \in Id : rs[x] = IF x = i THEN rule ELSE bridgeRules[x]
      BY <1>4, <2>2 DEF RuleSet
    <3>2. ASSUME NEW r \in Bridge!headerReferences(rs)
          PROVE  r \in Pointed \cup Bridge!RefsOfSinks(rule.sinks)
      <4>1. PICK x \in Id : rs[x] # NoValue /\ r \in Bridge!RefsOfSinks(rs[x].sinks)
        BY <3>2, InRules
      <4>2. CASE x = i
        BY <3>1, <4>1, <4>2
      <4>3. CASE x # i
        <5>1. bridgeRules[x] # NoValue /\ r \in Bridge!RefsOfSinks(bridgeRules[x].sinks)
          BY <3>1, <4>1, <4>3
        <5> QED
          BY <5>1, InRules DEF Pointed
      <4> QED
        BY <4>2, <4>3
    <3> QED
      BY <3>1, <3>2
  <2> QED
    BY <1>3, <2>1, <2>2
<1> DEFINE Gone == Pointed \ Bridge!headerReferences(rs)
           Snapshot == IF staged = NoValue THEN {} ELSE Bridge!headerReferences(staged.rules)
<1>6. Carried' = {} /\ Todo' = {} /\ Done' = {}
  BY <1>1 DEF Carried, Todo, Done
<1>7. /\ bridgeRules' = rs /\ bridgeDisk' = rs /\ bridgeDrops' = bridgeDrops \cup Gone
      /\ bridgeDisowned' = bridgeDisowned \cup (Gone \cap (Drafted' \cup Carried' \cup Snapshot))
  BY <1>3 DEF Bridge!setRules, Bridge!releasedReferences, Bridge!HeldBy, Pointed, Drafted, Carried
<1>8. /\ Pointed' = Bridge!headerReferences(rs) /\ bridgeDisowned' = bridgeDisowned \cup (Gone \cap Snapshot)
      /\ Filed' = Pointed' \cup Snapshot /\ Snapshot \subseteq Filed
  BY <1>2, <1>6, <1>7 DEF Pointed, Filed
<1> HIDE DEF Snapshot
<1>9. Gone \subseteq Ref
  BY RulesTyped DEF BridgeInv, BridgeTypes, ListTypes, Pointed
<1>10. BridgeTypes'
  <2>1. ListTypes'
    BY <1>5, <1>7 DEF BridgeInv, BridgeTypes, ListTypes
  <2>2. VaultTypes'
    BY <1>7, <1>8, <1>9 DEF BridgeInv, BridgeTypes, VaultTypes
  <2>3. SaveTypes'
    BY <1>1 DEF SaveTypes
  <2> QED
    BY <1>2, <2>1, <2>2, <2>3 DEF BridgeTypes
<1>11. Mounting'
  BY DEF Mounting
<1>12. ASSUME NEW r \in Ref
       PROVE  Kept(r)'
  <2>1. r \in Pointed' => r \in Pointed \cup Drafted \cup Carried
    BY <1>5, <1>8
  <2>2. r \notin Todo
    OBVIOUS
  <2>3. Kept(r)
    BY DEF BridgeInv
  <2> QED
    BY <1>2, <1>6, <1>7, <1>8, <2>1, <2>2, <2>3 DEF Kept
<1> QED
  BY <1>10, <1>11, <1>12 DEF BridgeInv

-----------------------------------------------------------------------------
(* Startup, and the store *)

LEMMA MoveKeeps ==
    ASSUME BridgeInv, NEW i \in Id, NEW k, NEW n \in Name, NEW r \in Ref, Bridge!MoveHeader(i, k, n, r)
    PROVE  BridgeInv'
<1> DEFINE olds == staged.rules
           s == olds[i].sinks[k]
           t == [s EXCEPT !.plain = s.plain \ {n}, !.secrets = Append(s.secrets, <<n, r>>)]
           news == [olds EXCEPT ![i].sinks[k] = t]
<1>1. /\ staged # NoValue /\ olds[i] # NoValue /\ k \in DOMAIN olds[i].sinks /\ r \notin bridgeMinted
      /\ bridgeMinted' = bridgeMinted \cup {r} /\ bridgeStore' = bridgeStore \cup {r}
      /\ staged' = [rules |-> news, moved |-> TRUE]
      /\ UNCHANGED <<bridgeRules, bridgeDisk, bridgeConnections, bridgeBoot, bridgeDrops, bridgeDisowned, draft, texts, bridgeForm, bridgeSaving>>
  BY DEF Bridge!MoveHeader, Bridge!panel, Bridge!stored
<1>0. olds = staged.rules
  OBVIOUS
<1> HIDE DEF olds
<1>2. olds \in RuleSet /\ olds[i] \in Bridge!Rule
  BY <1>0, <1>1 DEF BridgeInv, BridgeTypes, ListTypes, RuleSet
<1>3. olds[i].sinks \in Seq(Bridge!Sink)
  BY <1>2 DEF Bridge!Rule
<1>4. s \in Bridge!Sink /\ s = olds[i].sinks[k]
  BY <1>1, <1>3, ElementOfSeq, LenProperties
<1> HIDE DEF s
<1>5. s.plain \in SUBSET Name /\ IsFiniteSet(s.plain) /\ s.secrets \in Seq(Name \X Ref)
  BY <1>4, SameFinite DEF Bridge!Sink
<1>6. Append(s.secrets, <<n, r>>) \in Seq(Name \X Ref)
      /\ \A j \in DOMAIN Append(s.secrets, <<n, r>>) :
            Append(s.secrets, <<n, r>>)[j] = <<n, r>> \/ (j \in DOMAIN s.secrets /\ Append(s.secrets, <<n, r>>)[j] = s.secrets[j])
  BY <1>5
<1>7. IsFiniteSet(s.plain \ {n})
  BY <1>5, FS_RemoveElement
<1>8. t \in Bridge!Sink /\ t.secrets = Append(s.secrets, <<n, r>>)
  BY <1>4, <1>5, <1>6, <1>7, SameFinite DEF Bridge!Sink
<1> HIDE DEF t
<1> DEFINE ss == [olds[i].sinks EXCEPT ![k] = t]
<1>9. ss \in Seq(Bridge!Sink) /\ DOMAIN ss = DOMAIN olds[i].sinks
      /\ ss[k] = t /\ \A x \in DOMAIN ss : x # k => ss[x] = olds[i].sinks[x]
  BY <1>1, <1>3, <1>8
<1>10. news = [olds EXCEPT ![i] = [olds[i] EXCEPT !.sinks = ss]]
  BY <1>1
<1> HIDE DEF ss
<1>11. [olds[i] EXCEPT !.sinks = ss] \in Bridge!Rule /\ [olds[i] EXCEPT !.sinks = ss].sinks = ss
  BY <1>2, <1>9 DEF Bridge!Rule
<1>12. news \in RuleSet /\ news[i].sinks = ss /\ \A x \in Id : x # i => news[x] = olds[x]
  BY <1>2, <1>10, <1>11 DEF RuleSet
<1>13. ASSUME NEW q \in Bridge!headerReferences(news)
       PROVE  q = r \/ q \in Bridge!headerReferences(olds)
  <2>1. PICK x \in Id : news[x] # NoValue /\ q \in Bridge!RefsOfSinks(news[x].sinks)
    BY <1>13, InRules
  <2>2. CASE x # i
    BY <1>12, <2>1, <2>2, InRules
  <2>3. CASE x = i
    <3>1. PICK y \in DOMAIN ss : \E j \in DOMAIN ss[y].secrets : q = ss[y].secrets[j][2]
      BY <1>12, <2>1, <2>3, InSinks
    <3>2. CASE y # k
      <4>1. q \in Bridge!RefsOfSinks(olds[i].sinks)
        BY <1>9, <3>1, <3>2, InSinks
      <4> QED
        BY <1>1, <4>1, InRules
    <3>3. CASE y = k
      <4>1. PICK j \in DOMAIN t.secrets : q = t.secrets[j][2]
        BY <1>9, <3>1, <3>3
      <4>2. CASE t.secrets[j] = <<n, r>>
        BY <4>1, <4>2
      <4>3. CASE j \in DOMAIN s.secrets /\ t.secrets[j] = s.secrets[j]
        <5>1. q \in Bridge!RefsOfSinks(olds[i].sinks)
          BY <1>1, <1>4, <4>1, <4>3, InSinks
        <5> QED
          BY <1>1, <5>1, InRules
      <4> QED
        BY <1>6, <1>8, <4>1, <4>2, <4>3
    <3> QED
      BY <3>2, <3>3
  <2> QED
    BY <2>2, <2>3
<1>14. /\ UNCHANGED <<Pointed, Drafted, Carried, Todo, Done>>
       /\ Filed' \subseteq Filed \cup {r}
  <2>1. /\ Filed = Bridge!headerReferences(bridgeDisk) \cup Bridge!headerReferences(olds)
        /\ Filed' \subseteq Bridge!headerReferences(bridgeDisk) \cup Bridge!headerReferences(news)
    <3>1. staged'.rules = news
      BY <1>1
    <3> QED
      BY <1>0, <1>1, <3>1 DEF Filed
  <2> QED
    BY <1>1, <1>13, <2>1 DEF Pointed, Drafted, Carried, Todo, Done
<1>15. BridgeTypes'
  <2>1. ListTypes' /\ VaultTypes'
    BY <1>1, <1>12 DEF BridgeInv, BridgeTypes, ListTypes, VaultTypes
  <2>2. FormTypes' /\ SaveTypes'
    BY <1>1 DEF BridgeInv, BridgeTypes, FormTypes, SaveTypes
  <2> QED
    BY <2>1, <2>2 DEF BridgeTypes
<1>16. Mounting'
  BY <1>1, <1>14 DEF BridgeInv, Mounting
<1>17. ASSUME NEW q \in Ref
       PROVE  Kept(q)'
  BY <1>1, <1>14 DEF BridgeInv, Kept
<1> QED
  BY <1>15, <1>16, <1>17 DEF BridgeInv

LEMMA ReadRulesKeeps == BridgeInv /\ (Bridge!ReadRules \/ Bridge!WriteRules) => BridgeInv'
<1> SUFFICES ASSUME BridgeInv, Bridge!ReadRules \/ Bridge!WriteRules
             PROVE  BridgeInv'
  OBVIOUS
<1>1. /\ bridgeBoot'.up = bridgeBoot.up /\ bridgeBoot' \in [asked : BOOLEAN, up : BOOLEAN]
      /\ UNCHANGED <<bridgeRules, bridgeConnections, bridgeStore, bridgeMinted, bridgeDrops, bridgeDisowned,
                     draft, texts, bridgeForm, bridgeSaving>>
  BY DEF Bridge!ReadRules, Bridge!WriteRules, Bridge!vault, Bridge!panel, BridgeInv, BridgeTypes, ListTypes
<1>2. UNCHANGED <<Pointed, Drafted, Carried, Todo, Done>>
  BY <1>1 DEF Pointed, Drafted, Carried, Todo, Done
<1>3. /\ Filed' \subseteq Filed /\ bridgeDisk' \in RuleSet
      /\ staged' # NoValue => staged' \in [rules : RuleSet, moved : BOOLEAN]
  <2>1. bridgeDisk \in RuleSet /\ (staged # NoValue => staged \in [rules : RuleSet, moved : BOOLEAN])
    BY DEF BridgeInv, BridgeTypes, ListTypes
  <2>2. CASE Bridge!ReadRules
    <3>1. /\ bridgeDisk' = bridgeDisk
          /\ staged' = NoValue \/ staged' = [rules |-> bridgeDisk, moved |-> FALSE]
      BY <2>2 DEF Bridge!ReadRules
    <3>2. CASE staged' = NoValue
      BY <2>1, <3>1, <3>2 DEF Filed
    <3>3. CASE staged' = [rules |-> bridgeDisk, moved |-> FALSE]
      <4>1. staged'.rules = bridgeDisk /\ staged' \in [rules : RuleSet, moved : BOOLEAN]
        BY <2>1, <3>3
      <4> QED
        BY <2>1, <3>1, <4>1 DEF Filed
    <3> QED
      BY <3>1, <3>2, <3>3
  <2>3. CASE Bridge!WriteRules
    <3>1. staged # NoValue /\ staged' = NoValue /\ bridgeDisk' \in {bridgeDisk, staged.rules}
      BY <2>3 DEF Bridge!WriteRules
    <3> QED
      BY <2>1, <3>1 DEF Filed
  <2> QED
    BY <2>2, <2>3
<1>4. BridgeTypes'
  BY <1>1, <1>3 DEF BridgeInv, BridgeTypes, ListTypes, VaultTypes, FormTypes, SaveTypes
<1>5. Mounting'
  BY <1>1, <1>2 DEF BridgeInv, Mounting
<1>6. ASSUME NEW r \in Ref
      PROVE  Kept(r)'
  BY <1>1, <1>2, <1>3 DEF BridgeInv, Kept
<1> QED
  BY <1>4, <1>5, <1>6 DEF BridgeInv

LEMMA MountKeeps == BridgeInv /\ Bridge!MountWindow => BridgeInv'
<1> SUFFICES ASSUME BridgeInv, Bridge!MountWindow
             PROVE  BridgeInv'
  OBVIOUS
<1>1. /\ ~bridgeBoot.up /\ bridgeRules' = bridgeDisk
      /\ bridgeBoot' = [bridgeBoot EXCEPT !.up = TRUE]
      /\ UNCHANGED <<bridgeDisk, bridgeConnections, staged, bridgeStore, bridgeMinted, bridgeDrops, bridgeDisowned,
                     draft, texts, bridgeForm, bridgeSaving>>
  BY DEF Bridge!MountWindow, Bridge!vault, Bridge!panel
<1>2. Pointed' \subseteq Filed /\ UNCHANGED <<Filed, Drafted, Carried, Todo, Done>>
  BY <1>1 DEF Pointed, Filed, Drafted, Carried, Todo, Done
<1>3. Drafted = {} /\ Carried = {} /\ Todo = {} /\ Done = {}
  BY <1>1 DEF BridgeInv, Mounting, Carried, Todo, Done
<1>4. bridgeBoot' \in [asked : BOOLEAN, up : BOOLEAN] /\ bridgeBoot'.up
  BY <1>1 DEF BridgeInv, BridgeTypes, ListTypes
<1>5. BridgeTypes'
  BY <1>1, <1>4 DEF BridgeInv, BridgeTypes, ListTypes, VaultTypes, FormTypes, SaveTypes
<1>6. Mounting'
  BY <1>4 DEF Mounting
<1>7. ASSUME NEW r \in Ref
      PROVE  Kept(r)'
  BY <1>1, <1>2, <1>3 DEF BridgeInv, Kept
<1> QED
  BY <1>5, <1>6, <1>7 DEF BridgeInv

\* A window without rules.
LEMMA NoRulesYet == Bridge!NoRules \in RuleSet /\ Bridge!headerReferences(Bridge!NoRules) = {}
<1>1. \A i \in Id : Bridge!NoRules[i] = NoValue
  BY DEF Bridge!NoRules
<1>2. \A r : r \notin Bridge!headerReferences(Bridge!NoRules)
  BY <1>1, InRules
<1> QED
  BY <1>2 DEF Bridge!NoRules, RuleSet

LEMMA StartKeeps == BridgeInv /\ Bridge!Restart => BridgeInv'
<1> SUFFICES ASSUME BridgeInv, Bridge!Restart
             PROVE  BridgeInv'
  OBVIOUS
<1>1. /\ staged' = NoValue /\ bridgeRules' = Bridge!NoRules /\ bridgeBoot' = Bridge!Starting
      /\ draft' = Bridge!newRuleDraft("src", "dst") /\ texts' = << <<>> >>
      /\ bridgeForm' = Bridge!Closed /\ bridgeSaving' = NoValue /\ bridgeDrops' = {}
      /\ UNCHANGED <<bridgeDisk, bridgeConnections, bridgeStore, bridgeMinted, bridgeDisowned>>
  BY DEF Bridge!Restart
<1>2. FormTypes' /\ Drafted' = {}
  <2>1. "src" \in Conn /\ "dst" \in Conn
    BY ConnAssumption
  <2>2. bridgeForm' \in BridgeForm
    BY <1>1 DEF Bridge!Closed, BridgeForm
  <2> QED
    BY <1>1, <2>1, <2>2, NewRule DEF FormTypes, Drafted
<1>3. Pointed' = {} /\ Carried' = {} /\ Todo' = {} /\ Done' = {} /\ Filed' \subseteq Filed
  BY <1>1, NoRulesYet DEF Pointed, Carried, Todo, Done, Filed
<1>4. BridgeTypes'
  BY <1>1, <1>2, NoRulesYet
     DEF BridgeInv, BridgeTypes, ListTypes, VaultTypes, SaveTypes, Bridge!Starting
<1>5. Mounting'
  BY <1>1, <1>2, <1>3 DEF Mounting
<1>6. ASSUME NEW r \in Ref
      PROVE  Kept(r)'
  BY <1>1, <1>2, <1>3 DEF BridgeInv, Kept
<1> QED
  BY <1>4, <1>5, <1>6 DEF BridgeInv

LEMMA HeaderDroppedKeeps ==
    ASSUME BridgeInv, NEW r \in Ref, Bridge!Dropped(r)
    PROVE  BridgeInv'
<1>1. /\ r \in bridgeDrops /\ bridgeDrops' = bridgeDrops \ {r} /\ bridgeStore' \in {bridgeStore, bridgeStore \ {r}}
      /\ UNCHANGED <<bridgeRules, bridgeDisk, bridgeConnections, bridgeBoot, staged, bridgeMinted, bridgeDisowned, draft, texts, bridgeForm,
                     bridgeSaving>>
  BY DEF Bridge!Dropped, Bridge!panel, Bridge!startup, Bridge!stored
<1>2. UNCHANGED <<Pointed, Filed, Drafted, Carried, Todo, Done>>
  BY <1>1 DEF Pointed, Filed, Drafted, Carried, Todo, Done
<1>3. BridgeTypes'
  BY <1>1 DEF BridgeInv, BridgeTypes, ListTypes, VaultTypes, FormTypes, SaveTypes
<1>5. Mounting'
  BY <1>1, <1>2 DEF BridgeInv, Mounting
<1>6. ASSUME NEW q \in Ref
      PROVE  Kept(q)'
  <2>1. Kept(q)
    BY DEF BridgeInv
  <2>2. q = r \/ (q \in bridgeStore' <=> q \in bridgeStore)
    BY <1>1
  <2> QED
    BY <1>1, <1>2, <2>1, <2>2 DEF Kept
<1> QED
  BY <1>3, <1>5, <1>6 DEF BridgeInv

-----------------------------------------------------------------------------
(* The list *)

LEMMA SecretListKeeps ==
    ASSUME BridgeInv, NEW i \in Id, Bridge!removeRule(i) \/ Bridge!toggleRule(i) \/ Bridge!importRules(i)
    PROVE  BridgeInv'
<1>1. /\ bridgeBoot.up /\ bridgeRules[i] # NoValue
      /\ UNCHANGED <<bridgeConnections, bridgeBoot, staged, bridgeStore, bridgeMinted, draft, texts, bridgeForm, bridgeSaving>>
  <2>1. CASE Bridge!removeRule(i)
    BY <2>1 DEF Bridge!removeRule, Bridge!Click, Bridge!startup
  <2>2. CASE Bridge!toggleRule(i)
    BY <2>2 DEF Bridge!toggleRule, Bridge!Click, Bridge!startup, Bridge!panel
  <2>3. CASE Bridge!importRules(i)
    BY Zenon, <2>3 DEF Bridge!importRules, Bridge!Click, Bridge!startup, Bridge!panel
  <2> QED
    BY <2>1, <2>2, <2>3
<1>2. bridgeRules \in RuleSet /\ bridgeRules[i] \in Bridge!Rule
  BY <1>1 DEF BridgeInv, BridgeTypes, ListTypes, RuleSet
<1>3. CASE UNCHANGED <<bridgeRules, bridgeDisk, bridgeDrops, bridgeDisowned>>
  <2>1. FormTypes' /\ Drafted' = Drafted
    BY <1>1 DEF BridgeInv, BridgeTypes, FormTypes, Drafted
  <2> QED
    BY <1>1, <1>3, <2>1, RuleFormKeeps
<1>4. ASSUME NEW rs, Bridge!setRules(rs), rs = [bridgeRules EXCEPT ![i] = NoValue]
      PROVE  BridgeInv'
  <2>1. rs \in RuleSet /\ \A x \in Id : rs[x] # NoValue => rs[x] = bridgeRules[x]
    BY <1>2, <1>4 DEF RuleSet
  <2>2. \A r \in Bridge!headerReferences(rs) : r \in Pointed
    BY <2>1, InRules DEF Pointed
  <2> QED
    BY <1>1, <1>4, <2>1, <2>2, RulesKeep
<1>5. ASSUME NEW rs, Bridge!setRules(rs), rs = [bridgeRules EXCEPT ![i].enabled = ~@]
      PROVE  BridgeInv'
  <2>1. rs = [bridgeRules EXCEPT ![i] = [bridgeRules[i] EXCEPT !.enabled = ~bridgeRules[i].enabled]]
    BY <1>5
  <2>2. [bridgeRules[i] EXCEPT !.enabled = ~bridgeRules[i].enabled] \in Bridge!Rule
        /\ [bridgeRules[i] EXCEPT !.enabled = ~bridgeRules[i].enabled].sinks = bridgeRules[i].sinks
    BY <1>2 DEF Bridge!Rule
  <2>3. rs \in RuleSet
    BY <1>2, <2>1, <2>2 DEF RuleSet
  <2>4. \A x \in Id : (x # i => rs[x] = bridgeRules[x]) /\ (x = i => rs[x].sinks = bridgeRules[x].sinks)
    BY <1>2, <2>1, <2>2 DEF RuleSet
  <2>5. ASSUME NEW r \in Bridge!headerReferences(rs)
        PROVE  r \in Pointed
    <3>1. PICK x \in Id : rs[x] # NoValue /\ r \in Bridge!RefsOfSinks(rs[x].sinks)
      BY <2>5, InRules
    <3>2. bridgeRules[x] # NoValue /\ r \in Bridge!RefsOfSinks(bridgeRules[x].sinks)
      BY <1>1, <2>4, <3>1
    <3> QED
      BY <3>2, InRules DEF Pointed
  <2> QED
    BY <1>1, <1>5, <2>3, <2>5, RulesKeep
<1>6. ASSUME Bridge!importRules(i)
      PROVE  BridgeInv'
  <2> DEFINE bare == [k \in DOMAIN bridgeRules[i].sinks |-> Bridge!newSink]
             copy == [bridgeRules[i] EXCEPT !.enabled = bridgeRules[i].enabled /\ ~bridgeRules[i].http, !.sinks = bare]
  <2>1. PICK j \in Id : Bridge!setRules([x \in Id |-> IF x = j THEN copy ELSE NoValue])
    BY <1>6 DEF Bridge!importRules, Bridge!strippedSink
  <2>2. bare \in Seq(Bridge!Sink) /\ \A k \in DOMAIN bare : bare[k] = Bridge!newSink
    <3>1. Bridge!newSink \in Bridge!Sink
      <4>1. <<>> \in Seq(Name \X Ref)
        BY EmptySeq
      <4> QED
        BY <4>1, SameFinite, FS_EmptySet DEF Bridge!newSink, Bridge!Sink
    <3>2. bridgeRules[i].sinks \in Seq(Bridge!Sink)
      BY <1>2 DEF Bridge!Rule
    <3>3. DOMAIN bridgeRules[i].sinks = 1 .. Len(bridgeRules[i].sinks) /\ Len(bridgeRules[i].sinks) \in Nat
      BY <3>2, LenProperties
    <3> QED
      BY <3>1, <3>3
  <2> HIDE DEF bare
  <2>3. copy \in Bridge!Rule /\ copy.sinks = bare
    BY <1>2, <2>2 DEF Bridge!Rule
  <2> HIDE DEF copy
  <2> DEFINE rs == [x \in Id |-> IF x = j THEN copy ELSE NoValue]
  <2>4. rs \in RuleSet
    BY <2>3 DEF RuleSet
  <2>5. \A x \in Id : rs[x] # NoValue => rs[x] = copy
    OBVIOUS
  <2> HIDE DEF rs
  <2>6. DOMAIN Bridge!newSink.secrets = {}
    <3>1. Bridge!newSink.secrets = <<>>
      BY DEF Bridge!newSink
    <3>2. DOMAIN <<>> = {}
      OBVIOUS
    <3> QED
      BY <3>1, <3>2
  <2>7. ASSUME NEW r \in Bridge!headerReferences(rs)
        PROVE  FALSE
    <3>1. r \in Bridge!RefsOfSinks(bare)
      BY <2>3, <2>5, <2>7, InRules
    <3> QED
      BY <2>2, <2>6, <3>1, InSinks
  <2>8. Bridge!setRules(rs)
    BY <2>1 DEF rs
  <2> QED
    BY <1>1, <2>4, <2>7, <2>8, RulesKeep
<1> QED
  BY <1>3, <1>4, <1>5, <1>6 DEF Bridge!removeRule, Bridge!toggleRule, Bridge!stored

LEMMA ConnectionsKeep ==
    ASSUME BridgeInv, NEW c, Bridge!addConnection(c) \/ Bridge!removeConnection(c)
    PROVE  BridgeInv'
<1>1. /\ bridgeConnections' \in {bridgeConnections, bridgeConnections \ {c}} \/ (c \in Conn /\ bridgeConnections' = bridgeConnections \cup {c})
      /\ UNCHANGED <<bridgeRules, bridgeDisk, bridgeBoot, staged, bridgeStore, bridgeMinted, bridgeDrops, bridgeDisowned, draft, texts, bridgeForm,
                     bridgeSaving>>
  BY DEF Bridge!addConnection, Bridge!removeConnection, Bridge!vault, Bridge!panel, Bridge!startup, Bridge!stored
<1>2. UNCHANGED <<Pointed, Filed, Drafted, Carried, Todo, Done>>
  BY <1>1 DEF Pointed, Filed, Drafted, Carried, Todo, Done
<1>3. ListTypes'
  <2>1. bridgeConnections' \subseteq Conn
    BY <1>1 DEF BridgeInv, BridgeTypes, ListTypes
  <2> QED
    BY <1>1, <2>1 DEF BridgeInv, BridgeTypes, ListTypes
<1>4. VaultTypes' /\ FormTypes' /\ SaveTypes'
  BY <1>1 DEF BridgeInv, BridgeTypes, VaultTypes, FormTypes, SaveTypes
<1>5. Mounting'
  BY <1>1, <1>2 DEF BridgeInv, Mounting
<1>6. ASSUME NEW r \in Ref
      PROVE  Kept(r)'
  BY <1>1, <1>2 DEF BridgeInv, Kept
<1> QED
  BY <1>3, <1>4, <1>5, <1>6 DEF BridgeInv, BridgeTypes

-----------------------------------------------------------------------------
(* The form *)

\* A sequence without its k-th element.
LEMMA Without ==
    ASSUME NEW S, NEW s \in Seq(S), NEW k \in DOMAIN s
    PROVE  /\ Bridge!RemoveAt(s, k) \in Seq(S) /\ Len(Bridge!RemoveAt(s, k)) = Len(s) - 1
           /\ \A j \in DOMAIN Bridge!RemoveAt(s, k) : \E i \in DOMAIN s : Bridge!RemoveAt(s, k)[j] = s[i]
<1> DEFINE l == SubSeq(s, 1, k - 1)
           r == SubSeq(s, k + 1, Len(s))
<1>1. k \in 1 .. Len(s) /\ Len(s) \in Nat
  OBVIOUS
<1>2. l \in Seq(S) /\ Len(l) = k - 1 /\ \A j \in 1 .. k - 1 : l[j] = s[j]
  BY <1>1
<1>3. r \in Seq(S) /\ Len(r) = Len(s) - k /\ \A j \in 1 .. Len(s) - k : r[j] = s[k + j]
  BY <1>1
<1> HIDE DEF l, r
<1>4. l \o r \in Seq(S) /\ Len(l \o r) = Len(s) - 1
      /\ \A j \in 1 .. Len(s) - 1 : (l \o r)[j] = IF j < k THEN s[j] ELSE s[j + 1]
  BY SMTT(30), <1>1, <1>2, <1>3
<1>5. \A j \in DOMAIN (l \o r) : \E i \in DOMAIN s : (l \o r)[j] = s[i]
  <2> TAKE j \in DOMAIN (l \o r)
  <2>1. j \in 1 .. Len(s) - 1 /\ j \in DOMAIN s /\ j + 1 \in DOMAIN s
    BY <1>1, <1>4
  <2>2. (l \o r)[j] = s[j] \/ (l \o r)[j] = s[j + 1]
    BY <1>4, <2>1
  <2> QED
    BY <2>1, <2>2
<1>6. Bridge!RemoveAt(s, k) = l \o r
  BY DEF Bridge!RemoveAt, l, r
<1> QED
  BY <1>4, <1>5, <1>6

\* The lines of a sink.
LEMMA Formatted ==
    ASSUME NEW s \in Bridge!Sink
    PROVE  Bridge!formatSinkHeaders(s) \in Lines
<1>1. s.plain \in SUBSET Name /\ IsFiniteSet(s.plain) /\ s.secrets \in Seq(Name \X Ref)
  BY SameFinite DEF Bridge!Sink
<1>2. Cardinality(s.plain) \in Nat /\ Bridge!SetToSeq(s.plain) \in [1 .. Cardinality(s.plain) -> s.plain]
  <2>1. Bridge!SetToSeq(s.plain) = CHOOSE f \in [1 .. Cardinality(s.plain) -> s.plain] : IsInjective(f)
    BY SameSize, SameInjective DEF Bridge!SetToSeq
  <2>2. PICK f \in [1 .. Cardinality(s.plain) -> s.plain] : IsInjective(f)
    BY <1>1, FS_CardinalityType DEF ExistsBijection, Bijection, Injection
  <2>3. Bridge!SetToSeq(s.plain) \in [1 .. Cardinality(s.plain) -> s.plain]
    BY <2>1, <2>2
  <2> QED
    BY <1>1, <2>3, FS_CardinalityType
<1> DEFINE a == [k \in 1 .. Bridge!Cardinality(s.plain) |-> [name |-> Bridge!SetToSeq(s.plain)[k], mark |-> FALSE]]
           b == [k \in DOMAIN s.secrets |-> [name |-> s.secrets[k][1], mark |-> TRUE]]
<1>3. a \in Seq(Bridge!Row)
  <2>1. \A k \in 1 .. Cardinality(s.plain) : Bridge!SetToSeq(s.plain)[k] \in Name
    BY <1>1, <1>2
  <2>2. a \in [1 .. Cardinality(s.plain) -> Bridge!Row]
    BY <2>1, SameSize DEF Bridge!Row
  <2> HIDE DEF a
  <2>3. a \in [1 .. Cardinality(s.plain) -> Bridge!Row] /\ Cardinality(s.plain) \in Nat
    BY <1>2, <2>2
  <2> QED
    BY <2>3
<1>4. b \in Seq(Bridge!Row)
  <2>1. DOMAIN s.secrets = 1 .. Len(s.secrets) /\ Len(s.secrets) \in Nat
    BY <1>1, LenProperties
  <2>2. \A k \in DOMAIN s.secrets : s.secrets[k] \in Name \X Ref
    BY <1>1, <2>1
  <2>3. b \in [1 .. Len(s.secrets) -> Bridge!Row]
    BY <2>1, <2>2 DEF Bridge!Row
  <2> QED
    BY <2>1, <2>3
<1> HIDE DEF a, b
<1>5. a \o b \in Seq(Bridge!Row)
  BY <1>3, <1>4
<1> QED
  BY <1>5 DEF Bridge!formatSinkHeaders, Lines, a, b

\* What the form says, but for its fields, is opened, closed or marked as refused.
LEMMA OpenKeeps == BridgeInv /\ (Bridge!showForm \/ Bridge!closeForm) => BridgeInv'
<1> SUFFICES ASSUME BridgeInv, Bridge!showForm \/ Bridge!closeForm
             PROVE  BridgeInv'
  OBVIOUS
<1>1. /\ bridgeBoot.up /\ bridgeForm' \in {[bridgeForm EXCEPT !.open = TRUE], Bridge!Closed}
      /\ UNCHANGED <<bridgeRules, bridgeDisk, bridgeConnections, bridgeBoot, staged, bridgeStore, bridgeMinted, bridgeDrops, bridgeDisowned,
                     draft, texts, bridgeSaving>>
  BY DEF Bridge!showForm, Bridge!closeForm, Bridge!Click, Bridge!Still, Bridge!startup, Bridge!vault
<1>2. bridgeForm' \in BridgeForm
  <2>1. bridgeForm \in BridgeForm
    BY DEF BridgeInv, BridgeTypes, FormTypes
  <2>2. [bridgeForm EXCEPT !.open = TRUE] \in BridgeForm /\ Bridge!Closed \in BridgeForm
    BY <2>1 DEF BridgeForm, Bridge!Closed
  <2> QED
    BY <1>1, <2>2
<1>3. FormTypes' /\ Drafted' = Drafted
  BY <1>1, <1>2 DEF BridgeInv, BridgeTypes, FormTypes, Drafted
<1> QED
  BY <1>1, <1>3, RuleFormKeeps

LEMMA EditRuleKeeps ==
    ASSUME BridgeInv, NEW i \in Id, Bridge!startEdit(i)
    PROVE  BridgeInv'
<1>1. /\ bridgeBoot.up /\ bridgeRules[i] # NoValue /\ draft' = bridgeRules[i]
      /\ texts' = [k \in DOMAIN bridgeRules[i].sinks |-> Bridge!formatSinkHeaders(bridgeRules[i].sinks[k])]
      /\ bridgeForm' = [open |-> TRUE, editing |-> i, error |-> FALSE]
      /\ UNCHANGED <<bridgeRules, bridgeDisk, bridgeConnections, bridgeBoot, staged, bridgeStore, bridgeMinted, bridgeDrops, bridgeDisowned,
                     bridgeSaving>>
  BY DEF Bridge!startEdit, Bridge!Click, Bridge!Still, Bridge!startup, Bridge!vault
<1>2. bridgeRules[i] \in Bridge!Rule
  BY <1>1 DEF BridgeInv, BridgeTypes, ListTypes, RuleSet
<1>3. bridgeRules[i].sinks \in Seq(Bridge!Sink)
  BY <1>2 DEF Bridge!Rule
<1>4. DOMAIN bridgeRules[i].sinks = 1 .. Len(bridgeRules[i].sinks) /\ Len(bridgeRules[i].sinks) \in Nat
  BY <1>3, LenProperties
<1>5. texts' \in Seq(Lines) /\ Len(texts') = Len(bridgeRules[i].sinks)
  <2>1. \A k \in DOMAIN bridgeRules[i].sinks : bridgeRules[i].sinks[k] \in Bridge!Sink
    BY <1>3, ElementOfSeq, <1>4
  <2>2. texts' \in [1 .. Len(bridgeRules[i].sinks) -> Lines]
    BY <1>1, <1>4, <2>1, Formatted
  <2> QED
    BY <1>4, <2>2
<1>6. FormTypes'
  BY <1>1, <1>2, <1>5 DEF FormTypes, BridgeForm
<1>7. Drafted' \subseteq Drafted \cup Pointed
  BY <1>1, InRules DEF Drafted, Pointed
<1> QED
  BY <1>1, <1>6, <1>7, RuleFormKeeps

LEMMA RecipeKeeps ==
    ASSUME BridgeInv, NEW k \in {"telemetry", "alert", "broker"}, Bridge!startRecipe(k)
    PROVE  BridgeInv'
<1> DEFINE http == k # "broker"
           new == Bridge!newRuleDraft("src", "dst")
           sink == [Bridge!newSink EXCEPT !.url = http]
           f == CHOOSE f \in SourceFilter : TRUE
<1>1. /\ bridgeBoot.up
      /\ draft' = [new EXCEPT !.filter = f, !.http = http, !.sinks = <<sink>>]
      /\ texts' = << <<>> >> /\ bridgeForm' = [open |-> TRUE, editing |-> NoValue, error |-> FALSE]
      /\ UNCHANGED <<bridgeRules, bridgeDisk, bridgeConnections, bridgeBoot, staged, bridgeStore, bridgeMinted, bridgeDrops, bridgeDisowned,
                     bridgeSaving>>
  BY DEF Bridge!startRecipe, Bridge!Click, Bridge!Still, Bridge!startup, Bridge!vault
<1>2. f \in SourceFilter /\ http \in BOOLEAN
  BY ListsAssumption
<1>3. new \in Bridge!Rule
  BY NewRule, ConnAssumption, ListsAssumption
<1>4. sink \in Bridge!Sink /\ sink.secrets = <<>>
  <2>1. <<>> \in Seq(Name \X Ref)
    BY EmptySeq
  <2> QED
    BY <1>2, <2>1, SameFinite, FS_EmptySet DEF Bridge!newSink, Bridge!Sink
<1> HIDE DEF http, f, new, sink
<1>5. <<sink>> \in Seq(Bridge!Sink) /\ Len(<<sink>>) = 1 /\ DOMAIN <<sink>> = {1} /\ <<sink>>[1] = sink
  BY <1>4
<1>6. draft' \in Bridge!Rule /\ draft'.sinks = <<sink>>
  BY <1>1, <1>2, <1>3, <1>5 DEF Bridge!Rule
<1>7. texts' \in Seq(Lines) /\ Len(texts') = 1
  <2>1. <<>> \in Lines
    BY EmptySeq DEF Lines
  <2> QED
    BY <1>1, <2>1
<1>8. FormTypes'
  BY <1>1, <1>5, <1>6, <1>7 DEF FormTypes, BridgeForm
<1>9. Drafted' = {}
  <2>1. DOMAIN <<>> = {}
    OBVIOUS
  <2>2. \A r : r \notin Bridge!RefsOfSinks(<<sink>>)
    BY <1>4, <1>5, <2>1, InSinks
  <2> QED
    BY <1>6, <2>2 DEF Drafted
<1> QED
  BY <1>1, <1>8, <1>9, RuleFormKeeps

LEMMA FieldKeeps ==
    ASSUME BridgeInv, NEW f \in SourceFilter, NEW s \in Conn, NEW t \in Conn, NEW http \in BOOLEAN,
           Bridge!setField(f, s, t, http)
    PROVE  BridgeInv'
<1>1. /\ bridgeBoot.up /\ draft' = [draft EXCEPT !.filter = f, !.source = s, !.target = t, !.http = http]
      /\ UNCHANGED <<bridgeRules, bridgeDisk, bridgeConnections, bridgeBoot, staged, bridgeStore, bridgeMinted, bridgeDrops, bridgeDisowned,
                     texts, bridgeForm, bridgeSaving>>
  BY DEF Bridge!setField, Bridge!Click, Bridge!Still, Bridge!startup, Bridge!vault
<1>2. draft \in Bridge!Rule
  BY DEF BridgeInv, BridgeTypes, FormTypes
<1>3. draft' \in Bridge!Rule /\ draft'.sinks = draft.sinks
  BY <1>1, <1>2 DEF Bridge!Rule
<1>4. FormTypes' /\ Drafted' = Drafted
  BY <1>1, <1>3 DEF BridgeInv, BridgeTypes, FormTypes, Drafted
<1> QED
  BY <1>1, <1>4, RuleFormKeeps

LEMMA UrlKeeps ==
    ASSUME BridgeInv, NEW k, Bridge!setSinkUrl(k)
    PROVE  BridgeInv'
<1> DEFINE sink == [draft.sinks[k] EXCEPT !.url = ~draft.sinks[k].url]
           ss == [draft.sinks EXCEPT ![k] = sink]
<1>1. /\ bridgeBoot.up /\ k \in DOMAIN draft.sinks /\ draft' = [draft EXCEPT !.sinks = ss]
      /\ UNCHANGED <<bridgeRules, bridgeDisk, bridgeConnections, bridgeBoot, staged, bridgeStore, bridgeMinted, bridgeDrops, bridgeDisowned,
                     texts, bridgeForm, bridgeSaving>>
  BY DEF Bridge!setSinkUrl, Bridge!HttpForm, Bridge!Click, Bridge!Still, Bridge!startup, Bridge!vault
<1>2. draft \in Bridge!Rule /\ draft.sinks \in Seq(Bridge!Sink)
  BY DEF BridgeInv, BridgeTypes, FormTypes, Bridge!Rule
<1>3. draft.sinks[k] \in Bridge!Sink
  BY <1>1, <1>2, ElementOfSeq, LenProperties
<1>4. sink \in Bridge!Sink /\ sink.secrets = draft.sinks[k].secrets
  BY <1>3 DEF Bridge!Sink
<1> HIDE DEF sink
<1>5. /\ ss \in Seq(Bridge!Sink) /\ Len(ss) = Len(draft.sinks) /\ DOMAIN ss = DOMAIN draft.sinks
      /\ \A x \in DOMAIN ss : ss[x].secrets = draft.sinks[x].secrets
  BY <1>1, <1>2, <1>4
<1> HIDE DEF ss
<1>6. draft' \in Bridge!Rule /\ draft'.sinks = ss
  BY <1>1, <1>2, <1>5 DEF Bridge!Rule
<1>7. FormTypes'
  BY <1>1, <1>5, <1>6 DEF BridgeInv, BridgeTypes, FormTypes
<1>8. \A r \in Drafted' : r \in Drafted
  BY <1>5, <1>6, InSinks DEF Drafted
<1> QED
  BY <1>1, <1>7, <1>8, RuleFormKeeps

LEMMA HeaderKeeps ==
    ASSUME BridgeInv, NEW k, NEW n \in Name, Bridge!setHeaderText(k, n)
    PROVE  BridgeInv'
<1>1. /\ bridgeBoot.up /\ k \in DOMAIN draft.sinks
      /\ UNCHANGED <<bridgeRules, bridgeDisk, bridgeConnections, bridgeBoot, staged, bridgeStore, bridgeMinted, bridgeDrops, bridgeDisowned,
                     draft, bridgeForm, bridgeSaving>>
  BY DEF Bridge!setHeaderText, Bridge!HttpForm, Bridge!Click, Bridge!Still, Bridge!startup, Bridge!vault
<1>2. draft.sinks \in Seq(Bridge!Sink) /\ texts \in Seq(Lines) /\ Len(texts) = Len(draft.sinks)
  BY DEF BridgeInv, BridgeTypes, FormTypes, Bridge!Rule
<1>3. k \in DOMAIN texts /\ texts[k] \in Lines
  BY <1>1, <1>2, ElementOfSeq, LenProperties
<1>4. ASSUME NEW l \in Lines, texts' = [texts EXCEPT ![k] = l]
      PROVE  texts' \in Seq(Lines) /\ Len(texts') = Len(texts)
  BY <1>2, <1>3, <1>4
<1>5. texts' \in Seq(Lines) /\ Len(texts') = Len(texts)
  <2>1. CASE texts' = [texts EXCEPT ![k] = Append(texts[k], [name |-> n, mark |-> FALSE])]
    <3>1. Append(texts[k], [name |-> n, mark |-> FALSE]) \in Lines
      BY <1>3 DEF Lines, Bridge!Row
    <3> QED
      BY <1>4, <2>1, <3>1
  <2>2. ASSUME NEW j \in DOMAIN texts[k], texts' = [texts EXCEPT ![k] = Bridge!RemoveAt(texts[k], j)]
        PROVE  texts' \in Seq(Lines) /\ Len(texts') = Len(texts)
    <3>1. Bridge!RemoveAt(texts[k], j) \in Lines
      BY <1>3, Without DEF Lines
    <3> QED
      BY <1>4, <2>2, <3>1
  <2>3. ASSUME NEW j \in DOMAIN texts[k], texts' = [texts EXCEPT ![k][j].name = n]
        PROVE  texts' \in Seq(Lines) /\ Len(texts') = Len(texts)
    <3> DEFINE line == [texts[k][j] EXCEPT !.name = n]
               l == [texts[k] EXCEPT ![j] = line]
    <3>1. texts[k][j] \in Bridge!Row
      BY <1>3, ElementOfSeq, LenProperties DEF Lines
    <3>2. line \in Bridge!Row
      BY <3>1 DEF Bridge!Row
    <3>3. texts' = [texts EXCEPT ![k] = l]
      BY <2>3
    <3> HIDE DEF line
    <3>4. l \in Lines
      BY <1>3, <3>2 DEF Lines
    <3> HIDE DEF l
    <3> QED
      BY <1>4, <3>3, <3>4
  <2> QED
    BY <2>1, <2>2, <2>3 DEF Bridge!setHeaderText
<1>6. FormTypes' /\ Drafted' = Drafted
  BY <1>1, <1>5 DEF BridgeInv, BridgeTypes, FormTypes, Drafted
<1> QED
  BY <1>1, <1>6, RuleFormKeeps

\* The sinks are changed together with their boxes.
LEMMA SinksKeep ==
    ASSUME BridgeInv, bridgeBoot.up, NEW ss \in Seq(Bridge!Sink), draft' = [draft EXCEPT !.sinks = ss],
           texts' \in Seq(Lines), Len(texts') = Len(ss), Bridge!RefsOfSinks(ss) \subseteq Drafted,
           UNCHANGED <<bridgeRules, bridgeDisk, bridgeConnections, bridgeBoot, staged, bridgeStore, bridgeMinted, bridgeDrops, bridgeDisowned,
                       bridgeForm, bridgeSaving>>
    PROVE  BridgeInv'
<1>1. draft \in Bridge!Rule
  BY DEF BridgeInv, BridgeTypes, FormTypes
<1>2. draft' \in Bridge!Rule /\ draft'.sinks = ss
  BY <1>1 DEF Bridge!Rule
<1>3. FormTypes' /\ Drafted' \subseteq Drafted
  BY <1>2 DEF BridgeInv, BridgeTypes, FormTypes, Drafted
<1> QED
  BY <1>3, RuleFormKeeps

LEMMA AddKeeps == BridgeInv /\ Bridge!addExtraSink => BridgeInv'
<1> SUFFICES ASSUME BridgeInv, Bridge!addExtraSink
             PROVE  BridgeInv'
  OBVIOUS
<1> DEFINE ss == Append(draft.sinks, Bridge!newSink)
<1>1. /\ bridgeBoot.up /\ draft' = [draft EXCEPT !.sinks = ss] /\ texts' = Append(texts, <<>>)
      /\ UNCHANGED <<bridgeRules, bridgeDisk, bridgeConnections, bridgeBoot, staged, bridgeStore, bridgeMinted, bridgeDrops, bridgeDisowned,
                     bridgeForm, bridgeSaving>>
  BY DEF Bridge!addExtraSink, Bridge!HttpForm, Bridge!Click, Bridge!Still, Bridge!startup, Bridge!vault
<1>2. draft.sinks \in Seq(Bridge!Sink) /\ texts \in Seq(Lines) /\ Len(texts) = Len(draft.sinks)
  BY DEF BridgeInv, BridgeTypes, FormTypes, Bridge!Rule
<1>3. Bridge!newSink \in Bridge!Sink /\ DOMAIN Bridge!newSink.secrets = {}
  <2>1. <<>> \in Seq(Name \X Ref) /\ DOMAIN <<>> = {}
    BY EmptySeq
  <2> QED
    BY <2>1, SameFinite, FS_EmptySet DEF Bridge!newSink, Bridge!Sink
<1>4. /\ ss \in Seq(Bridge!Sink) /\ Len(ss) = Len(draft.sinks) + 1
      /\ \A x \in DOMAIN ss : ss[x] = Bridge!newSink \/ (x \in DOMAIN draft.sinks /\ ss[x] = draft.sinks[x])
  BY <1>2, <1>3
<1>5. texts' \in Seq(Lines) /\ Len(texts') = Len(ss)
  <2>1. <<>> \in Lines
    BY EmptySeq DEF Lines
  <2> QED
    BY <1>1, <1>2, <1>4, <2>1
<1> HIDE DEF ss
<1>6. \A r \in Bridge!RefsOfSinks(ss) : r \in Drafted
  BY <1>3, <1>4, InSinks DEF Drafted
<1> QED
  BY <1>1, <1>4, <1>5, <1>6, SinksKeep

LEMMA RemoveKeeps ==
    ASSUME BridgeInv, NEW k, Bridge!removeExtraSink(k)
    PROVE  BridgeInv'
<1> DEFINE ss == Bridge!RemoveAt(draft.sinks, k)
<1>1. /\ bridgeBoot.up /\ k \in 2 .. Len(draft.sinks)
      /\ draft' = [draft EXCEPT !.sinks = ss] /\ texts' = Bridge!RemoveAt(texts, k)
      /\ UNCHANGED <<bridgeRules, bridgeDisk, bridgeConnections, bridgeBoot, staged, bridgeStore, bridgeMinted, bridgeDrops, bridgeDisowned,
                     bridgeForm, bridgeSaving>>
  BY DEF Bridge!removeExtraSink, Bridge!HttpForm, Bridge!Click, Bridge!Still, Bridge!startup, Bridge!vault
<1>2. draft.sinks \in Seq(Bridge!Sink) /\ texts \in Seq(Lines) /\ Len(texts) = Len(draft.sinks)
  BY DEF BridgeInv, BridgeTypes, FormTypes, Bridge!Rule
<1>3. k \in DOMAIN draft.sinks /\ k \in DOMAIN texts
  BY <1>1, <1>2
<1>4. ss \in Seq(Bridge!Sink) /\ Len(ss) = Len(draft.sinks) - 1
      /\ \A x \in DOMAIN ss : \E y \in DOMAIN draft.sinks : ss[x] = draft.sinks[y]
  BY <1>2, <1>3, Without
<1>5. texts' \in Seq(Lines) /\ Len(texts') = Len(texts) - 1
  BY <1>1, <1>2, <1>3, Without
<1> HIDE DEF ss
<1>6. \A r \in Bridge!RefsOfSinks(ss) : r \in Drafted
  BY <1>4, InSinks DEF Drafted
<1>7. Len(texts') = Len(ss)
  BY <1>2, <1>4, <1>5
<1> QED
  BY <1>1, <1>4, <1>5, <1>6, <1>7, SinksKeep

-----------------------------------------------------------------------------
(* Saving *)

\* A mark stands for a reference the sink has.
LEMMA KnownIn ==
    ASSUME NEW s \in Bridge!Sink, NEW n, Bridge!known(s, n) # {}
    PROVE  \E j \in DOMAIN s.secrets : Bridge!KnownLast(s, n) = s.secrets[j][2]
<1> DEFINE J == {j \in DOMAIN s.secrets : s.secrets[j][1] = n}
<1>1. s.secrets \in Seq(Name \X Ref)
  BY DEF Bridge!Sink
<1>2. DOMAIN s.secrets = 1 .. Len(s.secrets) /\ Len(s.secrets) \in Nat
  BY <1>1, LenProperties
<1>3. J # {}
  BY DEF Bridge!known, Bridge!ToSet
<1>4. J \subseteq 1 .. Len(s.secrets)
  BY <1>2
<1>5. Bridge!KnownLast(s, n) = s.secrets[Bridge!Max(J)][2]
  BY DEF Bridge!KnownLast
<1>6. J \subseteq DOMAIN s.secrets
  OBVIOUS
<1> HIDE DEF J
<1>7. Bridge!Max(J) \in J
  BY <1>2, <1>3, <1>4, Greatest
<1> QED
  BY <1>5, <1>6, <1>7

\* The names of some lines.
LEMMA NamesOf ==
    ASSUME NEW l \in Lines, NEW J \in SUBSET DOMAIN l
    PROVE  {l[j].name : j \in J} \in SUBSET Name /\ IsFiniteSet({l[j].name : j \in J})
<1> DEFINE N == {l[j].name : j \in J}
           f == [j \in J |-> l[j].name]
<1>1. DOMAIN l = 1 .. Len(l) /\ Len(l) \in Nat /\ \A j \in DOMAIN l : l[j] \in Bridge!Row
  BY LenProperties, ElementOfSeq DEF Lines
<1>2. N \subseteq Name
  BY <1>1 DEF Bridge!Row
<1>3. IsFiniteSet(J)
  BY <1>1, BoundedIsFinite
<1>4. f \in Surjection(J, N)
  BY DEF Surjection
<1> HIDE DEF N, f
<1>5. IsFiniteSet(N)
  BY <1>3, <1>4, FS_Surjection
<1> QED
  BY <1>2, <1>5 DEF N

\* What becomes of a sink: its references are those it had, or new ones.
LEMMA Planned ==
    ASSUME NEW s \in Bridge!Sink, NEW l \in Lines, NEW m, NEW M \in SUBSET Ref, ~Bridge!Stale(s, l),
           \A j \in DOMAIN l : bridgeAvailable /\ ~l[j].mark => m[j] \in M
    PROVE  /\ Bridge!planSinkSecrets(s, l, m) \in Bridge!Sink
           /\ \A x \in DOMAIN Bridge!planSinkSecrets(s, l, m).secrets :
                 \/ Bridge!planSinkSecrets(s, l, m).secrets[x][2] \in M
                 \/ \E i \in DOMAIN s.secrets : Bridge!planSinkSecrets(s, l, m).secrets[x][2] = s.secrets[i][2]
<1> DEFINE t == Bridge!planSinkSecrets(s, l, m)
           J == {j \in DOMAIN l : l[j].mark \/ bridgeAvailable}
           K == {j \in DOMAIN l : ~l[j].mark /\ ~bridgeAvailable}
           order == Bridge!Ascending(J)
           pair(j) == <<l[j].name, IF l[j].mark THEN Bridge!KnownLast(s, l[j].name) ELSE m[j]>>
           secrets == [x \in DOMAIN order |-> pair(order[x])]
           plain == {l[j].name : j \in K}
<1>1. DOMAIN l = 1 .. Len(l) /\ Len(l) \in Nat /\ \A j \in DOMAIN l : l[j] \in Bridge!Row
  BY LenProperties, ElementOfSeq DEF Lines
<1>2. t = [s EXCEPT !.plain = plain, !.secrets = secrets]
  BY DEF Bridge!planSinkSecrets
<1>3. J \subseteq 1 .. Len(l) /\ K \in SUBSET DOMAIN l
  BY <1>1
<1>4. ASSUME NEW j \in J
      PROVE  pair(j) \in Name \X Ref /\ (pair(j)[2] \in M \/ \E i \in DOMAIN s.secrets : pair(j)[2] = s.secrets[i][2])
  <2>1. j \in DOMAIN l /\ l[j].name \in Name
    BY <1>1 DEF Bridge!Row
  <2>2. CASE l[j].mark
    <3>1. Bridge!known(s, l[j].name) # {}
      BY <2>1, <2>2 DEF Bridge!Stale
    <3>2. PICK i \in DOMAIN s.secrets : Bridge!KnownLast(s, l[j].name) = s.secrets[i][2]
      BY <3>1, KnownIn
    <3>3. s.secrets \in Seq(Name \X Ref)
      BY DEF Bridge!Sink
    <3>4. s.secrets[i] \in Name \X Ref
      BY <3>3, ElementOfSeq, LenProperties
    <3>5. pair(j) = <<l[j].name, s.secrets[i][2]>>
      BY <2>2, <3>2
    <3> QED
      BY <2>1, <3>4, <3>5
  <2>3. CASE ~l[j].mark
    <3>1. m[j] \in M /\ pair(j) = <<l[j].name, m[j]>>
      BY <2>1, <2>3
    <3> QED
      BY <2>1, <3>1
  <2> QED
    BY <2>2, <2>3
<1> HIDE DEF t, pair
<1>5. order \in Seq(J)
  <2> HIDE DEF J
  <2> QED
    BY <1>1, <1>3, Ascends
<1>6. DOMAIN order = 1 .. Len(order) /\ Len(order) \in Nat /\ \A x \in DOMAIN order : order[x] \in J
  <2> HIDE DEF order, J
  <2> QED
    BY <1>5, LenProperties, ElementOfSeq
<1> HIDE DEF order, J
<1>7. secrets \in Seq(Name \X Ref) /\ \A x \in DOMAIN secrets : secrets[x] = pair(order[x]) /\ order[x] \in J
  <2>1. secrets \in [1 .. Len(order) -> Name \X Ref]
    BY <1>4, <1>6
  <2>2. secrets \in Seq(Name \X Ref)
    BY <1>6, <2>1
  <2> QED
    BY <1>6, <2>2
<1>8. plain \in SUBSET Name /\ IsFiniteSet(plain)
  <2> HIDE DEF K
  <2> QED
    BY <1>3, NamesOf
<1> HIDE DEF secrets, plain
<1>9. t \in Bridge!Sink /\ t.secrets = secrets
  BY <1>2, <1>7, <1>8, SameFinite DEF Bridge!Sink
<1>10. \A x \in DOMAIN t.secrets :
          t.secrets[x][2] \in M \/ \E i \in DOMAIN s.secrets : t.secrets[x][2] = s.secrets[i][2]
  BY <1>4, <1>7, <1>9
<1> QED
  BY <1>9, <1>10 DEF t

\* The same, of what is planned.
PlannedSink(s, l, m, M, t) ==
    /\ t \in Bridge!Sink
    /\ \A x \in DOMAIN t.secrets :
          t.secrets[x][2] \in M \/ \E i \in DOMAIN s.secrets : t.secrets[x][2] = s.secrets[i][2]
MintedFor(l, m, M) == \A j \in DOMAIN l : bridgeAvailable /\ ~l[j].mark => m[j] \in M

LEMMA PlannedFor ==
    \A s \in Bridge!Sink, l \in Lines, M \in SUBSET Ref : \A m :
        ~Bridge!Stale(s, l) /\ MintedFor(l, m, M) => PlannedSink(s, l, m, M, Bridge!planSinkSecrets(s, l, m))
<1> TAKE s \in Bridge!Sink, l \in Lines, M \in SUBSET Ref
<1> TAKE m
<1> SUFFICES ASSUME ~Bridge!Stale(s, l), MintedFor(l, m, M)
             PROVE  PlannedSink(s, l, m, M, Bridge!planSinkSecrets(s, l, m))
  OBVIOUS
<1>1. \A j \in DOMAIN l : bridgeAvailable /\ ~l[j].mark => m[j] \in M
  BY DEF MintedFor
<1> QED
  BY <1>1, Planned DEF PlannedSink

\* Refuse, where it ends the save.
LEMMA RefuseKeeps ==
    ASSUME BridgeInv, bridgeBoot.up, Bridge!Refuse, bridgeSaving' = NoValue,
           bridgeStore' \in {bridgeStore, bridgeStore \ Done},
           UNCHANGED <<bridgeRules, bridgeDisk, bridgeConnections, bridgeBoot, staged, bridgeMinted, bridgeDrops, bridgeDisowned>>
    PROVE  BridgeInv'
<1>1. bridgeForm' = [bridgeForm EXCEPT !.error = TRUE] /\ UNCHANGED <<draft, texts>>
  BY DEF Bridge!Refuse
<1>2. bridgeForm \in BridgeForm /\ draft \in Bridge!Rule /\ texts \in Seq(Lines) /\ Len(texts) = Len(draft.sinks)
  BY DEF BridgeInv, BridgeTypes, FormTypes
<1>3. FormTypes'
  <2>1. bridgeForm' \in BridgeForm
    BY <1>1, <1>2 DEF BridgeForm
  <2> QED
    BY <1>1, <1>2, <2>1 DEF FormTypes
<1>4. ListTypes' /\ VaultTypes' /\ SaveTypes'
  BY DEF BridgeInv, BridgeTypes, ListTypes, VaultTypes, SaveTypes
<1>5. UNCHANGED <<Pointed, Filed, Drafted>> /\ Carried' = {} /\ Todo' = {} /\ Done' = {}
  BY <1>1 DEF Pointed, Filed, Drafted, Carried, Todo, Done
<1>6. Mounting'
  BY DEF Mounting
<1>7. ASSUME NEW r \in Ref
      PROVE  Kept(r)'
  <2>1. Kept(r)
    BY DEF BridgeInv
  <2>2. r \in Done \/ (r \in bridgeStore' <=> r \in bridgeStore)
    OBVIOUS
  <2> QED
    BY <1>5, <2>1, <2>2 DEF Kept
<1> QED
  BY <1>3, <1>4, <1>6, <1>7 DEF BridgeInv, BridgeTypes

LEMMA SubmitKeeps == BridgeInv /\ Bridge!submitDraft => BridgeInv'
<1> SUFFICES ASSUME BridgeInv, Bridge!submitDraft
             PROVE  BridgeInv'
  OBVIOUS
<1>1. /\ bridgeBoot.up /\ bridgeSaving = NoValue
      /\ UNCHANGED <<bridgeConnections, bridgeBoot, staged, bridgeStore, bridgeMinted>>
  BY DEF Bridge!submitDraft, Bridge!Click, Bridge!startup, Bridge!stored
<1>2. /\ bridgeForm \in BridgeForm /\ draft \in Bridge!Rule /\ texts \in Seq(Lines) /\ Len(texts) = Len(draft.sinks)
      /\ bridgeForm.editing \in Id \cup {NoValue}
  BY DEF BridgeInv, BridgeTypes, FormTypes, BridgeForm
<1>3. CASE Bridge!Refuse /\ UNCHANGED <<bridgeRules, bridgeDisk, bridgeSaving, bridgeDrops, bridgeDisowned>>
  BY <1>1, <1>3, RefuseKeeps
<1>4. CASE /\ bridgeSaving' = [rule |-> draft, texts |-> texts, editing |-> bridgeForm.editing, at |-> "status",
                               todo |-> {}, done |-> {}]
           /\ UNCHANGED <<bridgeRules, bridgeDisk, draft, texts, bridgeForm, bridgeDrops, bridgeDisowned>>
  <2>1. /\ bridgeSaving' \in BridgeSave /\ bridgeSaving'.todo = {} /\ bridgeSaving'.done = {}
        /\ bridgeSaving'.rule = draft /\ bridgeSaving'.texts = texts
    BY <1>2, <1>4 DEF BridgeSave
  <2>2. ListTypes' /\ VaultTypes' /\ FormTypes'
    BY <1>1, <1>4 DEF BridgeInv, BridgeTypes, ListTypes, VaultTypes, FormTypes
  <2>3. SaveTypes'
    BY <1>2, <2>1 DEF SaveTypes
  <2>4. UNCHANGED <<Pointed, Filed, Drafted>> /\ Carried' \subseteq Drafted /\ Todo' = {} /\ Done' = {}
    BY <1>1, <1>4, <2>1 DEF Pointed, Filed, Drafted, Carried, Todo, Done
  <2>5. Mounting'
    BY <1>1 DEF Mounting
  <2>6. ASSUME NEW r \in Ref
        PROVE  Kept(r)'
    <3>1. Kept(r)
      BY DEF BridgeInv
    <3> QED
      BY <1>1, <1>4, <2>4, <3>1 DEF Kept
  <2> QED
    BY <2>2, <2>3, <2>5, <2>6 DEF BridgeInv, BridgeTypes
<1>5. CASE Bridge!Finish(draft, bridgeForm.editing)
  BY <1>1, <1>2, <1>5, FinishKeeps DEF Todo, Drafted
<1> QED
  BY <1>3, <1>4, <1>5 DEF Bridge!submitDraft, Bridge!stored

LEMMA SavedKeeps == BridgeInv /\ Bridge!Saved => BridgeInv'
<1> SUFFICES ASSUME BridgeInv, Bridge!Saved
             PROVE  BridgeInv'
  OBVIOUS
<1>1. /\ bridgeSaving # NoValue /\ bridgeSaving.todo = {} /\ Bridge!Finish(bridgeSaving.rule, bridgeSaving.editing)
      /\ UNCHANGED <<bridgeConnections, bridgeBoot, staged, bridgeStore, bridgeMinted>>
  BY DEF Bridge!Saved, Bridge!startup, Bridge!stored
<1>2. bridgeSaving.rule \in Bridge!Rule /\ bridgeSaving.editing \in Id \cup {NoValue}
  BY <1>1 DEF BridgeInv, BridgeTypes, SaveTypes, BridgeSave
<1>3. bridgeBoot.up
  BY <1>1 DEF BridgeInv, Mounting
<1>4. Todo = {} /\ Carried = Bridge!RefsOfSinks(bridgeSaving.rule.sinks)
  BY <1>1 DEF Todo, Carried
<1> QED
  BY <1>1, <1>2, <1>3, <1>4, FinishKeeps

LEMMA CommitKeeps ==
    ASSUME BridgeInv, NEW r \in Ref, Bridge!commitSinkSecrets(r)
    PROVE  BridgeInv'
<1>1. /\ bridgeSaving # NoValue /\ bridgeSaving.at = "writes" /\ r \in bridgeSaving.todo
      /\ UNCHANGED <<bridgeRules, bridgeDisk, bridgeConnections, bridgeBoot, staged, bridgeMinted, bridgeDrops, bridgeDisowned>>
  BY DEF Bridge!commitSinkSecrets, Bridge!startup, Bridge!stored
<1>2. bridgeBoot.up
  BY <1>1 DEF BridgeInv, Mounting
<1>3. bridgeSaving \in BridgeSave
  BY <1>1 DEF BridgeInv, BridgeTypes, SaveTypes
<1>4. Todo = bridgeSaving.todo /\ Done = bridgeSaving.done /\ Carried = Bridge!RefsOfSinks(bridgeSaving.rule.sinks)
  BY <1>1 DEF Todo, Done, Carried
<1>5. CASE bridgeSaving' = NoValue /\ bridgeStore' = bridgeStore \ bridgeSaving.done /\ Bridge!Refuse
  BY <1>1, <1>2, <1>4, <1>5, RefuseKeeps
<1>6. CASE /\ bridgeSaving' = [bridgeSaving EXCEPT !.todo = @ \ {r}, !.done = @ \cup {r}]
           /\ bridgeStore' = bridgeStore \cup {r} /\ UNCHANGED <<draft, texts, bridgeForm>>
  <2>1. /\ bridgeSaving' \in BridgeSave /\ bridgeSaving'.at = "writes" /\ bridgeSaving'.rule = bridgeSaving.rule
        /\ bridgeSaving'.todo = bridgeSaving.todo \ {r} /\ bridgeSaving'.done = bridgeSaving.done \cup {r}
    BY <1>1, <1>3, <1>6 DEF BridgeSave
  <2>2. ListTypes' /\ VaultTypes' /\ FormTypes' /\ SaveTypes'
    BY <1>1, <1>6, <2>1 DEF BridgeInv, BridgeTypes, ListTypes, VaultTypes, FormTypes, SaveTypes
  <2>3. UNCHANGED <<Pointed, Filed, Drafted>>
    BY <1>1, <1>6 DEF Pointed, Filed, Drafted
  <2>4. CASE bridgeSaving' = NoValue
    <3>1. Carried' = {} /\ Todo' = {} /\ Done' = {}
      BY <2>4 DEF Carried, Todo, Done
    <3>2. ASSUME NEW q \in Ref
          PROVE  Kept(q)'
      <4>1. Kept(q)
        BY DEF BridgeInv
      <4> QED
        BY <1>1, <1>6, <2>3, <3>1, <4>1 DEF Kept
    <3>3. Mounting'
      BY <1>1, <1>2 DEF Mounting
    <3> QED
      BY <2>2, <3>2, <3>3 DEF BridgeInv, BridgeTypes
  <2>5. CASE bridgeSaving' # NoValue
    <3>1. Carried' = Carried /\ Todo' = Todo \ {r} /\ Done' = Done \cup {r} /\ r \in Todo
      BY <1>1, <1>4, <2>1, <2>5 DEF Carried, Todo, Done
    <3>2. ASSUME NEW q \in Ref
          PROVE  Kept(q)'
      <4>1. Kept(q)
        BY DEF BridgeInv
      <4> QED
        BY <1>1, <1>6, <2>3, <3>1, <4>1 DEF Kept
    <3>3. Mounting'
      BY <1>1, <1>2 DEF Mounting
    <3> QED
      BY <2>2, <3>2, <3>3 DEF BridgeInv, BridgeTypes
  <2> QED
    BY <2>4, <2>5
<1> QED
  BY <1>5, <1>6 DEF Bridge!commitSinkSecrets

LEMMA LapseKeeps == BridgeInv /\ Bridge!Lapse => BridgeInv'
<1> SUFFICES ASSUME BridgeInv, Bridge!Lapse
             PROVE  BridgeInv'
  OBVIOUS
<1>1. UNCHANGED <<bridgeRules, bridgeDisk, bridgeConnections, bridgeBoot, staged, bridgeStore, bridgeMinted, bridgeDrops, bridgeDisowned, draft,
                  texts, bridgeForm, bridgeSaving>>
  BY DEF Bridge!Lapse, Bridge!Still, Bridge!startup, Bridge!vault
<1>2. UNCHANGED <<Pointed, Filed, Drafted, Carried, Todo, Done>>
  BY <1>1 DEF Pointed, Filed, Drafted, Carried, Todo, Done
<1>3. BridgeTypes'
  BY <1>1 DEF BridgeInv, BridgeTypes, ListTypes, VaultTypes, FormTypes, SaveTypes
<1>4. Mounting'
  BY <1>1, <1>2 DEF BridgeInv, Mounting
<1>5. ASSUME NEW r \in Ref
      PROVE  Kept(r)'
  BY <1>1, <1>2 DEF BridgeInv, Kept
<1> QED
  BY <1>3, <1>4, <1>5 DEF BridgeInv

\* The references are given out, and the sinks are those that are kept, as planned.
LEMMA FinalizeKeeps == BridgeInv /\ Bridge!finalizeSinks => BridgeInv'
<1> SUFFICES ASSUME BridgeInv, Bridge!finalizeSinks
             PROVE  BridgeInv'
  OBVIOUS
<1> DEFINE sv == bridgeSaving
           ss == sv.rule.sinks
           ls == sv.texts
<1>1. /\ sv # NoValue /\ sv.at = "status"
      /\ UNCHANGED <<bridgeRules, bridgeDisk, bridgeConnections, bridgeBoot, staged, bridgeStore, bridgeDrops, bridgeDisowned>>
  BY Zenon DEF Bridge!finalizeSinks, Bridge!startup, Bridge!stored
<1>2. bridgeBoot.up
  BY <1>1 DEF BridgeInv, Mounting
<1>3. CASE bridgeSaving' = NoValue /\ Bridge!Refuse /\ UNCHANGED bridgeMinted
  BY <1>1, <1>2, <1>3, RefuseKeeps
<1>4. ASSUME ~ \E k \in Bridge!Kept : ss[k].url /\ Bridge!Stale(ss[k], ls[k]),
             NEW mint \in [Bridge!NewLines -> Ref \ bridgeMinted],
             bridgeMinted' = bridgeMinted \cup {mint[a] : a \in Bridge!NewLines},
             bridgeSaving' = [sv EXCEPT
                 !.at = "writes", !.todo = {mint[a] : a \in Bridge!NewLines},
                 !.rule.sinks = LET all == Bridge!PlanSinks(mint)
                                    ks == Bridge!Ascending(Bridge!Kept)
                                IN [x \in DOMAIN ks |-> all[ks[x]]]],
             UNCHANGED <<draft, texts, bridgeForm>>
      PROVE  BridgeInv'
  <2> DEFINE M == {mint[a] : a \in Bridge!NewLines}
             all == Bridge!PlanSinks(mint)
             ks == Bridge!Ascending(Bridge!Kept)
             new == [x \in DOMAIN ks |-> all[ks[x]]]
  <2>1. /\ sv \in BridgeSave /\ ss \in Seq(Bridge!Sink) /\ ls \in Seq(Lines) /\ Len(ls) = Len(ss)
        /\ sv.rule \in Bridge!Rule /\ sv.todo = {} /\ sv.done = {}
    BY <1>1 DEF BridgeInv, BridgeTypes, SaveTypes, BridgeSave, Bridge!Rule
  <2>2. DOMAIN ss = 1 .. Len(ss) /\ Len(ss) \in Nat /\ DOMAIN ls = DOMAIN ss
        /\ \A k \in DOMAIN ss : ss[k] \in Bridge!Sink /\ ls[k] \in Lines
    BY <2>1, LenProperties, ElementOfSeq
  <2>3. M \subseteq Ref \ bridgeMinted
    OBVIOUS
  <2>4. Bridge!Kept \subseteq DOMAIN ss
    BY DEF Bridge!Kept
  <2>5. ASSUME NEW k \in Bridge!Kept
        PROVE  all[k] \in Bridge!Sink /\ \A x \in DOMAIN all[k].secrets :
                   all[k].secrets[x][2] \in M \/ \E i \in DOMAIN ss[k].secrets : all[k].secrets[x][2] = ss[k].secrets[i][2]
    <3>1. k \in DOMAIN ss
      BY <2>4
    <3>2. CASE ~ss[k].url
      <4>1. all[k] = Bridge!newSink
        BY <3>1, <3>2 DEF Bridge!PlanSinks
      <4>2. <<>> \in Seq(Name \X Ref) /\ DOMAIN <<>> = {}
        BY EmptySeq
      <4>3. Bridge!newSink \in Bridge!Sink /\ DOMAIN Bridge!newSink.secrets = {}
        BY <4>2, SameFinite, FS_EmptySet DEF Bridge!newSink, Bridge!Sink
      <4> QED
        BY <4>1, <4>3
    <3>3. CASE ss[k].url
      <4> DEFINE m == [j \in DOMAIN ls[k] |-> IF <<k, j>> \in DOMAIN mint THEN mint[<<k, j>>] ELSE NoValue]
      <4>1. all[k] = Bridge!planSinkSecrets(ss[k], ls[k], m)
        BY <3>1, <3>3 DEF Bridge!PlanSinks
      <4>2. ~Bridge!Stale(ss[k], ls[k])
        BY <1>4, <3>3
      <4>3. ASSUME NEW j \in DOMAIN ls[k], bridgeAvailable, ~ls[k][j].mark
            PROVE  m[j] \in M
        <5>1. <<k, j>> \in {k} \X DOMAIN ls[k]
          OBVIOUS
        <5>2. <<k, j>> \in Bridge!NewLines
          BY <3>1, <3>3, <4>3, <5>1 DEF Bridge!NewLines
        <5>3. DOMAIN mint = Bridge!NewLines
          OBVIOUS
        <5>4. m[j] = mint[<<k, j>>]
          BY <5>2, <5>3
        <5> QED
          BY <5>2, <5>4
      <4>4. ss[k] \in Bridge!Sink /\ ls[k] \in Lines /\ M \in SUBSET Ref
        BY <2>2, <2>3, <3>1
      <4>5. \A j \in DOMAIN ls[k] : bridgeAvailable /\ ~ls[k][j].mark => m[j] \in M
        BY <4>3
      <4> HIDE DEF m, M, all, ss, ls
      <4>6. PlannedSink(ss[k], ls[k], m, M, Bridge!planSinkSecrets(ss[k], ls[k], m))
        BY <4>2, <4>4, <4>5, PlannedFor DEF MintedFor
      <4> QED
        BY <4>1, <4>6 DEF PlannedSink
    <3> QED
      BY <3>2, <3>3
  <2>6. ks \in Seq(Bridge!Kept)
    <3>1. Bridge!Kept \subseteq 1 .. Len(ss)
      BY <2>2, <2>4
    <3> QED
      BY <2>2, <3>1, Ascends
  <2> HIDE DEF M, all, ks
  <2>7. DOMAIN ks = 1 .. Len(ks) /\ Len(ks) \in Nat /\ \A x \in DOMAIN ks : ks[x] \in Bridge!Kept
    BY <2>6, LenProperties, ElementOfSeq
  <2>8. new \in Seq(Bridge!Sink) /\ DOMAIN new = DOMAIN ks
    <3>1. new \in [1 .. Len(ks) -> Bridge!Sink]
      BY <2>5, <2>7
    <3> QED
      BY <2>7, <3>1
  <2>9. ASSUME NEW r \in Bridge!RefsOfSinks(new)
        PROVE  r \in M \/ r \in Carried
    <3>1. PICK x \in DOMAIN new : \E j \in DOMAIN new[x].secrets : r = new[x].secrets[j][2]
      BY <2>9, InSinks
    <3>2. new[x] = all[ks[x]] /\ ks[x] \in Bridge!Kept /\ ks[x] \in DOMAIN ss
      BY <2>4, <2>7, <2>8
    <3>3. PICK j \in DOMAIN all[ks[x]].secrets : r = all[ks[x]].secrets[j][2]
      BY <3>1, <3>2
    <3>4. r \in M \/ \E i \in DOMAIN ss[ks[x]].secrets : r = ss[ks[x]].secrets[i][2]
      BY <2>5, <3>2, <3>3
    <3>5. Carried = Bridge!RefsOfSinks(ss)
      BY <1>1 DEF Carried
    <3> QED
      BY <3>2, <3>4, <3>5, InSinks
  <2>10. bridgeSaving' = [sv EXCEPT !.at = "writes", !.todo = M, !.rule.sinks = new]
    BY <1>4 DEF M, all, ks
  <2> HIDE DEF new
  <2>11. [sv.rule EXCEPT !.sinks = new] \in Bridge!Rule /\ [sv.rule EXCEPT !.sinks = new].sinks = new
    BY <2>1, <2>8 DEF Bridge!Rule
  <2>12. /\ bridgeSaving' \in BridgeSave /\ bridgeSaving'.at = "writes" /\ bridgeSaving'.todo = M
         /\ bridgeSaving'.done = {} /\ bridgeSaving'.rule.sinks = new
    <3>1. bridgeSaving' = [sv EXCEPT !.at = "writes", !.todo = M, !.rule = [sv.rule EXCEPT !.sinks = new]]
      BY <2>10
    <3>2. M \in SUBSET Ref
      BY <2>3
    <3> QED
      BY <2>1, <2>11, <3>1, <3>2 DEF BridgeSave
  <2>13. BridgeTypes'
    <3>1. bridgeMinted' = bridgeMinted \cup M
      BY <1>4 DEF M
    <3>2. VaultTypes'
      BY <1>1, <2>3, <3>1 DEF BridgeInv, BridgeTypes, VaultTypes
    <3>3. ListTypes' /\ FormTypes' /\ SaveTypes'
      BY <1>1, <1>4, <2>12 DEF BridgeInv, BridgeTypes, ListTypes, FormTypes, SaveTypes
    <3> QED
      BY <3>2, <3>3 DEF BridgeTypes
  <2>14. UNCHANGED <<Pointed, Filed, Drafted>> /\ Todo = {} /\ Done = {}
    BY <1>1, <1>4, <2>1 DEF Pointed, Filed, Drafted, Todo, Done
  <2>15. /\ Carried' \subseteq M \cup Carried /\ Done' = {}
         /\ Todo' \subseteq M /\ (Carried' \cap M \subseteq Todo')
    <3>1. CASE bridgeSaving' = NoValue
      BY <3>1 DEF Carried, Todo, Done
    <3>2. CASE bridgeSaving' # NoValue
      BY <2>9, <2>12, <3>2 DEF Carried, Todo, Done
    <3> QED
      BY <3>1, <3>2
  <2>16. Mounting'
    BY <1>1, <1>2 DEF Mounting
  <2>17. bridgeMinted' = bridgeMinted \cup M
    BY <1>4 DEF M
  <2>18. ASSUME NEW r \in Ref
         PROVE  Kept(r)'
    <3>1. Kept(r)
      BY DEF BridgeInv
    <3> QED
      BY <1>1, <2>3, <2>14, <2>15, <2>17, <3>1 DEF Kept
  <2> QED
    BY <2>13, <2>16, <2>18 DEF BridgeInv
<1>5. \/ bridgeSaving' = NoValue /\ Bridge!Refuse /\ UNCHANGED bridgeMinted
      \/ /\ ~ \E k \in Bridge!Kept : ss[k].url /\ Bridge!Stale(ss[k], ls[k])
         /\ \E mint \in [Bridge!NewLines -> Ref \ bridgeMinted] :
               /\ bridgeMinted' = bridgeMinted \cup {mint[a] : a \in Bridge!NewLines}
               /\ bridgeSaving' = [sv EXCEPT
                      !.at = "writes", !.todo = {mint[a] : a \in Bridge!NewLines},
                      !.rule.sinks = LET all == Bridge!PlanSinks(mint)
                                         ks == Bridge!Ascending(Bridge!Kept)
                                     IN [x \in DOMAIN ks |-> all[ks[x]]]]
         /\ UNCHANGED <<draft, texts, bridgeForm>>
  BY Zenon DEF Bridge!finalizeSinks
<1> QED
  BY <1>3, <1>4, <1>5

-----------------------------------------------------------------------------
(* The invariant *)

LEMMA BridgeInit == Bridge!Init => BridgeInv
<1> SUFFICES ASSUME Bridge!Init
             PROVE  BridgeInv
  OBVIOUS
<1>1. /\ bridgeRules = Bridge!NoRules /\ bridgeDisk \in OldRules /\ bridgeConnections = {"src", "dst"}
      /\ bridgeBoot = Bridge!Starting /\ staged = NoValue
      /\ bridgeStore = {} /\ bridgeMinted = {} /\ bridgeDrops = {} /\ bridgeDisowned = {}
      /\ draft = Bridge!newRuleDraft("src", "dst") /\ texts = << <<>> >> /\ bridgeForm = Bridge!Closed
      /\ bridgeSaving = NoValue
  BY DEF Bridge!Init
<1>2. /\ bridgeRules \in RuleSet /\ Bridge!headerReferences(bridgeRules) = {}
      /\ bridgeDisk \in RuleSet /\ Bridge!headerReferences(bridgeDisk) = {} /\ {"src", "dst"} \subseteq Conn
  BY <1>1, NoRulesYet, ConnAssumption, ListsAssumption DEF RuleSet
<1>3. FormTypes /\ Drafted = {}
  <2>1. bridgeForm \in BridgeForm
    BY <1>1 DEF Bridge!Closed, BridgeForm
  <2> QED
    BY <1>1, <1>2, <2>1, NewRule DEF FormTypes, Drafted
<1>4. BridgeTypes
  BY <1>1, <1>2, <1>3 DEF BridgeTypes, ListTypes, VaultTypes, SaveTypes, Bridge!Starting
<1>5. Pointed = {} /\ Filed = {} /\ Carried = {} /\ Todo = {} /\ Done = {}
  BY <1>1, <1>2 DEF Pointed, Filed, Carried, Todo, Done
<1>6. Mounting
  BY <1>1, <1>3, <1>5 DEF Mounting
<1>7. \A r \in Ref : Kept(r)
  BY <1>1, <1>3, <1>5 DEF Kept
<1> QED
  BY <1>4, <1>6, <1>7 DEF BridgeInv

LEMMA BridgeStep == BridgeInv /\ [Bridge!Next]_(Bridge!vars) => BridgeInv'
<1> SUFFICES ASSUME BridgeInv, [Bridge!Next]_(Bridge!vars)
             PROVE  BridgeInv'
  OBVIOUS
<1>1. CASE Bridge!Startup
  BY <1>1, MoveKeeps, ReadRulesKeeps, MountKeeps DEF Bridge!Startup
<1>2. CASE Bridge!Background
  BY <1>2, FinalizeKeeps, SavedKeeps, LapseKeeps, CommitKeeps, HeaderDroppedKeeps DEF Bridge!Background
<1>3. CASE Bridge!EditForm
  BY <1>3, OpenKeeps, SubmitKeeps, AddKeeps, EditRuleKeeps, RecipeKeeps, FieldKeeps, UrlKeeps, RemoveKeeps, HeaderKeeps
     DEF Bridge!EditForm
<1>4. CASE Bridge!EditList
  BY <1>4, SecretListKeeps, ConnectionsKeep DEF Bridge!EditList
<1>5. CASE Bridge!Restart
  BY <1>5, StartKeeps
<1>6. CASE UNCHANGED Bridge!vars
  <2>1. UNCHANGED <<bridgeRules, bridgeDisk, bridgeConnections, bridgeBoot, staged, bridgeStore, bridgeMinted, bridgeDrops, bridgeDisowned, draft,
                    texts, bridgeForm, bridgeSaving>>
    BY <1>6 DEF Bridge!vars
  <2>2. UNCHANGED <<Pointed, Filed, Drafted, Carried, Todo, Done>>
    BY <2>1 DEF Pointed, Filed, Drafted, Carried, Todo, Done
  <2>3. BridgeTypes'
    BY <2>1 DEF BridgeInv, BridgeTypes, ListTypes, VaultTypes, FormTypes, SaveTypes
  <2>4. Mounting'
    BY <2>1, <2>2 DEF BridgeInv, Mounting
  <2>5. ASSUME NEW r \in Ref
        PROVE  Kept(r)'
    BY <2>1, <2>2 DEF BridgeInv, Kept
  <2> QED
    BY <2>3, <2>4, <2>5 DEF BridgeInv
<1> QED
  BY <1>1, <1>2, <1>3, <1>4, <1>5, <1>6 DEF Bridge!Next

\* A step of the desk is one of the part that is open, or changes nothing in it.
LEMMA BridgeMoves == [ListsStep]_<<part, clicks, listVars>> => part' = part /\ (part = "bridge" => [Bridge!Next]_(Bridge!vars))
BY DEF ListsStep, ListsNext, ListsParts, listVars, bridge, Bridge!vars

\* Of these parts alone: see HeadersKeepTheirValues in Desk_proofs.
LEMMA HeadersKeepTheirValuesInLists == ListsSpec => []HeaderHasValue
<1> DEFINE Holds == part = "bridge" => BridgeInv
<1>1. ListsInit => Holds
  BY BridgeInit DEF ListsInit
<1>2. Holds /\ [ListsStep]_<<part, clicks, listVars>> => Holds'
  BY BridgeStep, BridgeMoves
<1>3. Holds => HeaderHasValue
  BY BridgeTold DEF HeaderHasValue
<1> QED
  BY <1>1, <1>2, <1>3, PTL DEF ListsSpec

-----------------------------------------------------------------------------
(* The queue: a file is shown as completed only if its peer has confirmed it. *)

Status == {"pending", "sending", "completed", "failed", "unconfirmed"}
File == [status : Status, tr : Queue!Transfer \cup {NoValue}]
\* What a progress event says of a send.
Word == {"verifying", "transferring", "paused", "sent", "delivered", "failed", "cancelled", "confirm_timeout"}
Told == Word \cup {NoValue}

\* The batch under way waits for a transfer.
Loop(l) == l.tr \in Queue!Transfer /\ l = [queue |-> l.queue, i |-> l.i, at |-> l.at, tr |-> l.tr]

QueueTypes ==
    /\ files \in Seq(File)
    /\ loop # NoValue => Loop(loop)
    /\ rows \in [Queue!Transfer -> Told] /\ shown \in [Queue!Transfer -> Told]
    /\ events \in Seq(Queue!Transfer \X Word)

\* "delivered" is said of a send only after its receipt, wherever the word has got to.
Sourced ==
    /\ \A t \in Queue!Transfer : rows[t] = "delivered" => t \in receipts
    /\ \A t \in Queue!Transfer : shown[t] = "delivered" => t \in receipts
    /\ \A i \in DOMAIN events : events[i][2] = "delivered" => events[i][1] \in receipts

QueueInv == QueueTypes /\ Sourced /\ Queue!CompletedHasReceipt

-----------------------------------------------------------------------------
(* The files *)

\* A list of files that are completed only with a receipt.
Sound(fs) == fs \in Seq(File) /\ \A k \in DOMAIN fs : fs[k].status = "completed" => fs[k].tr \in receipts

\* The loop of the batch completes no file by going on to the next.
LEMMA ProceedSound ==
    ASSUME NEW fs, Sound(fs), NEW batch, NEW i, NEW stop, Queue!Proceed(fs, batch, i, stop)
    PROVE  /\ Sound(files')
           /\ loop' # NoValue => Loop(loop')
<1> DEFINE rest == {j \in i .. Len(batch) : batch[j].status # "completed"}
           m == Queue!Min(rest)
<1>0. Len(fs) \in Nat /\ DOMAIN fs = 1 .. Len(fs) /\ \A k \in DOMAIN fs : fs[k] \in File
  BY LenProperties, ElementOfSeq DEF Sound
<1>1. CASE rest = {} \/ stop
  <2>1. loop' = NoValue
    BY <1>1 DEF Queue!Proceed
  <2>2. \/ files' = fs
        \/ files' = [k \in DOMAIN fs |-> IF k >= m THEN [fs[k] EXCEPT !.status = "failed"] ELSE fs[k]]
    BY <1>1 DEF Queue!Proceed
  <2>3. ASSUME files' = [k \in DOMAIN fs |-> IF k >= m THEN [fs[k] EXCEPT !.status = "failed"] ELSE fs[k]]
        PROVE  Sound(files')
    <3>1. \A k \in DOMAIN fs : files'[k] \in File /\ (files'[k].status = "completed" => files'[k] = fs[k])
      BY <1>0, <2>3 DEF File, Status
    <3>2. files' \in [1 .. Len(fs) -> File]
      BY <1>0, <2>3, <3>1
    <3>3. files' \in Seq(File)
      BY <1>0, <3>2, SeqDef
    <3> QED
      BY <2>3, <3>1, <3>3 DEF Sound
  <2> QED
    BY <2>1, <2>2, <2>3
<1>2. CASE ~(rest = {} \/ stop)
  <2>1. PICK t \in Queue!Transfer :
           /\ files' = [fs EXCEPT ![m].status = "sending"]
           /\ loop' = [queue |-> batch, i |-> m, at |-> "calling", tr |-> t]
    BY <1>2 DEF Queue!Proceed
  <2>2. \A k \in DOMAIN fs : files'[k] \in File /\ (files'[k].status = "completed" => files'[k] = fs[k])
    BY <1>0, <2>1 DEF File, Status
  <2>3. files' \in [1 .. Len(fs) -> File]
    BY <1>0, <2>1, <2>2
  <2>4. files' \in Seq(File)
    BY <1>0, <2>3, SeqDef
  <2> QED
    BY <2>1, <2>2, <2>3, <2>4 DEF Sound, Loop
<1> QED
  BY <1>1, <1>2

\* What the batch waited for ends in a completed file only if that end is the receipt.
LEMMA SettleSound ==
    ASSUME QueueInv, loop # NoValue, NEW x \in Told, x = "delivered" => loop.tr \in receipts,
           Queue!Settle(x)
    PROVE  Sound(files') /\ (loop' # NoValue => Loop(loop'))
<1> DEFINE fs == [files EXCEPT ![loop.i] = [status |-> Queue!Outcome(x), tr |-> loop.tr]]
<1>1. Sound(files) /\ loop.tr \in Queue!Transfer
  BY DEF QueueInv, QueueTypes, Queue!CompletedHasReceipt, Sound, Loop
<1>2. Len(files) \in Nat /\ DOMAIN files = 1 .. Len(files) /\ \A k \in DOMAIN files : files[k] \in File
  BY <1>1, LenProperties, ElementOfSeq DEF Sound
<1>3. [status |-> Queue!Outcome(x), tr |-> loop.tr] \in File
  BY <1>1 DEF Queue!Outcome, File, Status
<1>4. fs \in [1 .. Len(files) -> File]
  BY <1>2, <1>3
<1>5. fs \in Seq(File)
  BY <1>2, <1>4, SeqDef
<1>6. \A k \in DOMAIN fs : fs[k].status = "completed" => fs[k].tr \in receipts
  <2>1. Queue!Outcome(x) = "completed" => loop.tr \in receipts
    BY DEF Queue!Outcome
  <2> QED
    BY <1>1, <1>2, <2>1 DEF Sound
<1>7. Sound(fs)
  BY <1>5, <1>6 DEF Sound
<1>8. Queue!Proceed(fs, loop.queue, loop.i + 1, cancelRef)
  BY DEF Queue!Settle
<1> HIDE DEF fs
<1> QED
  BY <1>7, <1>8, ProceedSound

\* A step that leaves the rows and the events alone, and the receipts, keeps the invariant if
\* it keeps the files sound.
LEMMA FilesKeep ==
    ASSUME QueueInv, UNCHANGED <<rows, shown, events, receipts>>, Sound(files'), loop' # NoValue => Loop(loop')
    PROVE  QueueInv'
BY DEF QueueInv, QueueTypes, Sourced, Queue!CompletedHasReceipt, Sound

\* The files are not touched by the word that travels.
LEMMA SoundFiles == QueueInv => Sound(files) /\ (loop # NoValue => Loop(loop))
BY DEF QueueInv, QueueTypes, Queue!CompletedHasReceipt, Sound

LEMMA BatchKeeps ==
    ASSUME QueueInv, Queue!startSendBatch \/ Queue!Answered \/ Queue!SafetyNet
    PROVE  QueueInv'
<1>1. CASE Queue!startSendBatch
  BY <1>1, SoundFiles, ProceedSound, FilesKeep DEF Queue!startSendBatch
<1>2. CASE Queue!SafetyNet
  <2> DEFINE x == IF shown[loop.tr] = NoValue THEN "failed" ELSE shown[loop.tr]
  <2>1. loop # NoValue /\ loop.tr \in Queue!Transfer
    BY <1>2, SoundFiles DEF Queue!SafetyNet, Loop
  <2>2. x \in Told /\ (x = "delivered" => loop.tr \in receipts)
    <3>1. shown[loop.tr] \in Told /\ (shown[loop.tr] = "delivered" => loop.tr \in receipts)
      BY <2>1 DEF QueueInv, QueueTypes, Sourced
    <3>2. CASE shown[loop.tr] = NoValue
      BY <3>2 DEF Told, Word
    <3>3. CASE shown[loop.tr] # NoValue
      BY <3>1, <3>3
    <3> QED
      BY <3>2, <3>3
  <2>3. Queue!Settle(x)
    BY <1>2 DEF Queue!SafetyNet
  <2> HIDE DEF x
  <2>4. Sound(files') /\ (loop' # NoValue => Loop(loop'))
    BY <2>1, <2>2, <2>3, SettleSound
  <2> QED
    BY <1>2, <2>4, FilesKeep DEF Queue!SafetyNet
<1>3. CASE Queue!Answered
  <2>1. loop # NoValue /\ loop.tr \in Queue!Transfer
    BY <1>3, SoundFiles DEF Queue!Answered, Loop
  <2>2. UNCHANGED <<rows, shown, events, receipts>>
    BY <1>3 DEF Queue!Answered
  <2>3. CASE phase[loop.tr] = "refused"
    <3> DEFINE fs == [files EXCEPT ![loop.i].status = "failed"]
    <3>1. Len(files) \in Nat /\ DOMAIN files = 1 .. Len(files) /\ \A k \in DOMAIN files : files[k] \in File
      BY SoundFiles, LenProperties, ElementOfSeq DEF Sound
    <3>2. \A k \in DOMAIN files : fs[k] \in File /\ (fs[k].status = "completed" => fs[k] = files[k])
      BY <3>1 DEF File, Status
    <3>3. fs \in [1 .. Len(files) -> File]
      BY <3>1, <3>2
    <3>4. fs \in Seq(File)
      BY <3>1, <3>3, SeqDef
    <3>5. Sound(fs)
      BY <3>2, <3>4, SoundFiles DEF Sound
    <3>6. Queue!Proceed(fs, loop.queue, loop.i + 1, cancelRef)
      BY <1>3, <2>3 DEF Queue!Answered
    <3> HIDE DEF fs
    <3> QED
      BY <2>2, <3>5, <3>6, ProceedSound, FilesKeep
  <2>4. CASE phase[loop.tr] # "refused" /\ shown[loop.tr] \in Queue!SendTerminal
    <3>1. shown[loop.tr] \in Told /\ (shown[loop.tr] = "delivered" => loop.tr \in receipts)
      BY <2>1 DEF QueueInv, QueueTypes, Sourced
    <3>2. Queue!Settle(shown[loop.tr])
      BY <1>3, <2>4 DEF Queue!Answered
    <3> QED
      BY <2>1, <2>2, <3>1, <3>2, SettleSound, FilesKeep
  <2>5. CASE phase[loop.tr] # "refused" /\ shown[loop.tr] \notin Queue!SendTerminal
    <3>1. loop' = [loop EXCEPT !.at = "waiting"] /\ UNCHANGED files
      BY <1>3, <2>5 DEF Queue!Answered
    <3>2. Loop(loop')
      BY <2>1, <3>1, SoundFiles DEF Loop
    <3>3. Sound(files')
      BY <2>2, <3>1, SoundFiles DEF Sound
    <3> QED
      BY <2>2, <3>2, <3>3, FilesKeep
  <2> QED
    BY <2>3, <2>4, <2>5
<1> QED
  BY <1>1, <1>2, <1>3

LEMMA WordKeeps ==
    ASSUME QueueInv, Queue!Deliver \/ Queue!Commit
    PROVE  QueueInv'
<1>1. CASE Queue!Deliver
  <2>1. /\ Head(events) \in Queue!Transfer \X Word /\ Tail(events) \in Seq(Queue!Transfer \X Word)
        /\ Head(events)[2] = "delivered" => Head(events)[1] \in receipts
        /\ \A i \in DOMAIN Tail(events) : Tail(events)[i][2] = "delivered" => Tail(events)[i][1] \in receipts
    <3>1. events # <<>> /\ events \in Seq(Queue!Transfer \X Word)
      BY <1>1 DEF Queue!Deliver, QueueInv, QueueTypes
    <3>2. Head(events) = events[1] /\ 1 \in DOMAIN events /\ Head(events) \in Queue!Transfer \X Word
      BY <3>1, HeadTailProperties, LenProperties, EmptySeq
    <3>3. /\ Tail(events) \in Seq(Queue!Transfer \X Word)
          /\ \A i \in DOMAIN Tail(events) : Tail(events)[i] = events[i + 1] /\ i + 1 \in DOMAIN events
      BY <3>1, HeadTailProperties, LenProperties
    <3> QED
      BY <3>2, <3>3 DEF QueueInv, Sourced
  <2>2. rows' = [rows EXCEPT ![Head(events)[1]] = Head(events)[2]] /\ events' = Tail(events)
        /\ UNCHANGED <<files, loop, shown, receipts>>
    BY <1>1 DEF Queue!Deliver, Queue!backend
  <2>3. QueueTypes'
    BY <2>1, <2>2 DEF QueueInv, QueueTypes, Told
  <2>4. Sourced'
    BY <2>1, <2>2 DEF QueueInv, QueueTypes, Sourced
  <2> QED
    BY <2>2, <2>3, <2>4 DEF QueueInv, Queue!CompletedHasReceipt
<1>2. CASE Queue!Commit
  <2>1. shown' = rows /\ UNCHANGED <<rows, events, receipts>>
    BY <1>2 DEF Queue!Commit
  <2>2. Sound(files') /\ (loop' # NoValue => Loop(loop'))
    <3>1. CASE loop # NoValue /\ loop.at = "waiting" /\ rows[loop.tr] \in Queue!SendTerminal
      <4>1. rows[loop.tr] \in Told /\ (rows[loop.tr] = "delivered" => loop.tr \in receipts)
        BY <3>1, SoundFiles DEF QueueInv, QueueTypes, Sourced, Loop
      <4> QED
        BY <1>2, <3>1, <4>1, SettleSound DEF Queue!Commit
    <3>2. CASE ~(loop # NoValue /\ loop.at = "waiting" /\ rows[loop.tr] \in Queue!SendTerminal)
      BY <1>2, <2>1, <3>2, SoundFiles DEF Queue!Commit, Sound
    <3> QED
      BY <3>1, <3>2
  <2> QED
    BY <2>1, <2>2 DEF QueueInv, QueueTypes, Sourced, Queue!CompletedHasReceipt, Sound
<1> QED
  BY <1>1, <1>2

LEMMA UserKeeps ==
    ASSUME QueueInv, NoValue # "delivered", Queue!User
    PROVE  QueueInv'
<1> USE SoundFiles
<1>0. Len(files) \in Nat /\ DOMAIN files = 1 .. Len(files) /\ \A k \in DOMAIN files : files[k] \in File
  BY LenProperties, ElementOfSeq DEF Sound
<1>1. CASE Queue!startSendBatch
  BY <1>1, BatchKeeps
<1>2. CASE Queue!addPaths
  <2> DEFINE f == [status |-> "pending", tr |-> NoValue]
  <2>1. files' = Append(files, f) /\ UNCHANGED <<loop, rows, shown, events, receipts>>
    BY <1>2 DEF Queue!addPaths, Queue!addBatchFiles, Queue!backend
  <2>2. f \in File
    BY DEF File, Status
  <2>3. /\ files' \in Seq(File) /\ Len(files') = Len(files) + 1
        /\ files'[Len(files) + 1] = f /\ \A k \in 1 .. Len(files) : files'[k] = files[k]
    BY <2>1, <2>2, AppendProperties DEF Sound
  <2>4. Sound(files')
    <3>1. \A k \in DOMAIN files' : k \in 1 .. Len(files) \/ files'[k] = f
      BY <1>0, <2>3, LenProperties
    <3> QED
      BY <1>0, <2>1, <2>3, <3>1 DEF Sound
  <2> QED
    BY <2>1, <2>4, FilesKeep
<1>3. CASE Queue!clearBatchFiles
  <2>1. files' = <<>> /\ UNCHANGED <<loop, rows, shown, events, receipts>>
    BY <1>3 DEF Queue!clearBatchFiles, Queue!backend
  <2>2. Sound(files')
    BY <2>1 DEF Sound
  <2> QED
    BY <2>1, <2>2, FilesKeep
<1>4. ASSUME NEW k \in 1 .. MaxFiles, Queue!removeBatchFile(k)
      PROVE  QueueInv'
  <2>1. k \in DOMAIN files /\ files' = Queue!RemoveAt(files, k) /\ UNCHANGED <<loop, rows, shown, events, receipts>>
    BY <1>4 DEF Queue!removeBatchFile, Queue!backend
  <2>2. /\ files' \in Seq(File)
        /\ \A j \in DOMAIN files' : \E i \in DOMAIN files : files'[j] = files[i]
    <3> DEFINE a == SubSeq(files, 1, k - 1)
               b == SubSeq(files, k + 1, Len(files))
    <3>1. /\ a \in Seq(File) /\ Len(a) = k - 1
          /\ \A i \in 1 .. k - 1 : a[i] = files[i]
      <4>1. (k - 1) \in Int /\ 1 \in Int /\ \A i \in 1 .. k - 1 : files[i] \in File
        BY <1>0, <2>1
      <4> QED
        BY <4>1, <1>0, <2>1, SubSeqProperties
    <3>2. /\ b \in Seq(File) /\ Len(b) = Len(files) - k
          /\ \A i \in 1 .. Len(files) - k : b[i] = files[k + i]
      <4>1. PICK m \in Int : m = k + 1
        BY <1>0, <2>1
      <4>2. PICK n \in Int : n = Len(files)
        <5>1. Len(files) \in Int
          BY <1>0
        <5> QED
          BY <5>1, Zenon
      <4>3. /\ SubSeq(files, m, n) \in Seq(File)
            /\ Len(SubSeq(files, m, n)) = IF m <= n THEN n - m + 1 ELSE 0
            /\ \A i \in 1 .. n - m + 1 : SubSeq(files, m, n)[i] = files[m + i - 1]
        <5>1. \A i \in m .. n : files[i] \in File
          BY <1>0, <2>1, <4>1, <4>2
        <5> QED
          BY <5>1, SubSeqProperties
      <4>4. b = SubSeq(files, m, n)
        BY <4>1, <4>2
      <4> HIDE DEF b
      <4>5. Len(b) = Len(files) - k
        BY <4>1, <4>2, <4>3, <4>4, <1>0, <2>1
      <4>6. \A i \in 1 .. Len(files) - k : b[i] = files[k + i]
        <5> SUFFICES ASSUME NEW i \in 1 .. Len(files) - k
                     PROVE  b[i] = files[k + i]
          OBVIOUS
        <5>1. i \in 1 .. n - m + 1 /\ m + i - 1 = k + i
          BY <4>1, <4>2, <1>0, <2>1
        <5> QED
          BY <4>3, <4>4, <5>1
      <4> QED
        BY <4>3, <4>4, <4>5, <4>6
    <3>3. files' = a \o b
      BY <2>1 DEF Queue!RemoveAt
    <3> HIDE DEF a, b
    <3>4. /\ files' \in Seq(File) /\ Len(files') = Len(a) + Len(b)
          /\ \A i \in 1 .. Len(a) + Len(b) : files'[i] = IF i <= Len(a) THEN a[i] ELSE b[i - Len(a)]
      BY <3>1, <3>2, <3>3, ConcatProperties
    <3> SUFFICES \A j \in DOMAIN files' : \E i \in DOMAIN files : files'[j] = files[i]
      BY <3>4
    <3> TAKE j \in DOMAIN files'
    <3>5. k \in 1 .. Len(files) /\ j \in 1 .. (Len(files) - 1)
      BY <1>0, <2>1, <3>1, <3>2, <3>4, LenProperties
    <3>6. CASE j < k
      <4>1. j \in 1 .. k - 1 /\ j \in 1 .. Len(a) + Len(b) /\ j <= Len(a) /\ j \in DOMAIN files
        BY <1>0, <3>1, <3>2, <3>5, <3>6
      <4>2. files'[j] = files[j]
        BY <3>1, <3>4, <4>1
      <4> QED
        BY <4>1, <4>2
    <3>7. CASE ~(j < k)
      <4>1. PICK i \in 1 .. Len(files) - k : i = j - Len(a)
        BY <1>0, <3>1, <3>2, <3>5, <3>7
      <4>2. /\ j \in 1 .. Len(a) + Len(b) /\ ~(j <= Len(a)) /\ k + i \in DOMAIN files
        BY <1>0, <3>1, <3>2, <3>5, <3>7, <4>1
      <4>3. files'[j] = files[k + i]
        BY <3>2, <3>4, <4>1, <4>2
      <4> QED
        BY <4>2, <4>3
    <3> QED
      BY <3>6, <3>7
  <2>3. Sound(files')
    BY <2>1, <2>2 DEF Sound
  <2> QED
    BY <2>1, <2>3, FilesKeep
<1>5. CASE Queue!clearFinished
  <2>1. /\ rows' = [t \in Queue!Transfer |-> IF rows[t] \in Queue!SendTerminal THEN NoValue ELSE rows[t]]
        /\ UNCHANGED <<files, loop, shown, events, receipts>>
    BY <1>5 DEF Queue!clearFinished, Queue!backend
  <2>2. \A t \in Queue!Transfer : rows'[t] \in Told /\ (rows'[t] = "delivered" => rows[t] = "delivered")
    BY <2>1 DEF QueueInv, QueueTypes, Told
  <2> QED
    BY <2>1, <2>2 DEF QueueInv, QueueTypes, Sourced, Queue!CompletedHasReceipt
<1>6. ASSUME NEW t \in Queue!Transfer, Queue!pauseTransfer(t) \/ Queue!resumeTransfer(t) \/ Queue!cancelTransfer(t) \/ Queue!resendTransfer(t)
      PROVE  QueueInv'
  <2>1. UNCHANGED <<files, loop, rows, shown, events, receipts>>
    BY <1>6 DEF Queue!pauseTransfer, Queue!resumeTransfer, Queue!cancelTransfer, Queue!resendTransfer, Queue!window
  <2>2. Sound(files')
    BY <2>1 DEF Sound
  <2> QED
    BY <2>1, <2>2, FilesKeep
<1>7. CASE Queue!requestBatchCancel
  <2>1. UNCHANGED <<files, loop, rows, shown, events, receipts>>
    BY <1>7 DEF Queue!requestBatchCancel, Queue!backend
  <2>2. Sound(files')
    BY <2>1 DEF Sound
  <2> QED
    BY <2>1, <2>2, FilesKeep
<1> QED
  BY <1>1, <1>2, <1>3, <1>4, <1>5, <1>6, <1>7 DEF Queue!User

-----------------------------------------------------------------------------
(* The sends *)

\* A word sent on its way, the receipts being none or one more: "delivered" needs the receipt.
LEMMA EmitKeeps ==
    ASSUME QueueInv, NEW t \in Queue!Transfer, NEW s \in Word, Queue!emit_progress(t, s), UNCHANGED <<files, loop, rows, shown>>,
           receipts \subseteq receipts', s = "delivered" => t \in receipts'
    PROVE  QueueInv'
<1>1. events' = Append(events, <<t, s>>) /\ UNCHANGED <<files, loop, rows, shown>>
  BY DEF Queue!emit_progress
<1>2. events \in Seq(Queue!Transfer \X Word) /\ <<t, s>> \in Queue!Transfer \X Word
  BY DEF QueueInv, QueueTypes
<1>3. /\ events' \in Seq(Queue!Transfer \X Word) /\ Len(events') = Len(events) + 1
      /\ events'[Len(events) + 1] = <<t, s>> /\ \A i \in 1 .. Len(events) : events'[i] = events[i]
  BY <1>1, <1>2, AppendProperties
<1>4. \A i \in DOMAIN events' : i \in DOMAIN events \/ events'[i] = <<t, s>>
  BY <1>2, <1>3, LenProperties
<1>5. QueueTypes'
  BY <1>1, <1>3 DEF QueueInv, QueueTypes
<1>6. Sourced'
  <2>1. \A i \in DOMAIN events' : events'[i][2] = "delivered" => events'[i][1] \in receipts'
    BY SMTT(30), <1>2, <1>3, <1>4, LenProperties DEF QueueInv, Sourced
  <2> QED
    BY <1>1, <2>1 DEF QueueInv, Sourced
<1>7. Queue!CompletedHasReceipt'
  BY <1>1 DEF QueueInv, Queue!CompletedHasReceipt
<1> QED
  BY <1>5, <1>6, <1>7 DEF QueueInv

LEMMA SendKeeps ==
    ASSUME QueueInv, NEW t \in Queue!Transfer, Queue!Sends(t)
    PROVE  QueueInv'
<1> USE DEF Word
<1>1. CASE UNCHANGED <<files, loop, rows, shown, events, receipts>>
  BY <1>1, SoundFiles, FilesKeep DEF Sound
<1>2. UNCHANGED <<files, loop, rows, shown>>
  BY DEF Queue!Sends, Queue!SendFile, Queue!SendBegins, Queue!SendRefused, Queue!SendStarts, Queue!StreamEnds, Queue!Holds, Queue!Streams, Queue!StreamDone,
         Queue!Completed, Queue!Error, Queue!ConfirmTimeout, Queue!Cleanup, Queue!window
<1>3. CASE UNCHANGED receipts /\ \E s \in Word \ {"delivered"} : Queue!emit_progress(t, s)
  BY <1>2, <1>3, EmitKeeps
<1>4. CASE receipts' = receipts \cup {t} /\ Queue!emit_progress(t, "delivered")
  BY <1>2, <1>4, EmitKeeps
<1>5. CASE Queue!SendFile(t)
  BY <1>1, <1>2, <1>3, <1>5 DEF Queue!SendFile, Queue!SendBegins, Queue!SendRefused, Queue!SendStarts
<1>6. CASE Queue!StreamEnds(t) \/ Queue!StreamDone(t) \/ Queue!Error(t) \/ Queue!ConfirmTimeout(t)
  BY <1>3, <1>6 DEF Queue!StreamEnds, Queue!StreamDone, Queue!Error, Queue!ConfirmTimeout
<1>7. CASE Queue!Holds(t) \/ Queue!Streams(t) \/ Queue!Cleanup(t)
  BY <1>1, <1>2, <1>3, <1>7 DEF Queue!Holds, Queue!Streams, Queue!Cleanup
<1>8. CASE Queue!Completed(t)
  BY <1>4, <1>8 DEF Queue!Completed
<1> QED
  BY <1>5, <1>6, <1>7, <1>8 DEF Queue!Sends

-----------------------------------------------------------------------------
LEMMA QueueInit ==
    ASSUME Queue!Init, NoValue # "delivered"
    PROVE  QueueInv
<1>1. PICK n \in 0 .. MaxFiles : files = [k \in 1 .. n |-> [status |-> "pending", tr |-> NoValue]]
  BY DEF Queue!Init
<1>2. files \in [1 .. n -> File] /\ n \in Nat
  BY <1>1 DEF File, Status
<1>3. files \in Seq(File)
  BY <1>2, SeqDef
<1>4. rows = [t \in Queue!Transfer |-> NoValue] /\ shown = rows /\ events = <<>> /\ loop = NoValue
  BY DEF Queue!Init
<1>5. QueueTypes
  BY <1>3, <1>4 DEF QueueTypes, Told
<1>6. Sourced
  BY <1>4 DEF Sourced
<1>7. Queue!CompletedHasReceipt
  BY <1>1 DEF Queue!CompletedHasReceipt
<1> QED
  BY <1>5, <1>6, <1>7 DEF QueueInv

LEMMA QueueStep ==
    ASSUME QueueInv, NoValue # "delivered", [Queue!Next]_(Queue!vars)
    PROVE  QueueInv'
<1>1. CASE UNCHANGED Queue!vars
  <2>1. UNCHANGED <<files, loop, rows, shown, events, receipts>>
    BY <1>1 DEF Queue!vars
  <2> QED
    BY <2>1, SoundFiles, FilesKeep DEF Sound
<1>2. CASE Queue!Next
  BY <1>2, BatchKeeps, WordKeeps, UserKeeps, SendKeeps DEF Queue!Next
<1> QED
  BY <1>1, <1>2

\* A step of the desk is one of the part that is open, or changes nothing in it.
LEMMA QueueMoves == [ListsStep]_<<part, clicks, listVars>> => part' = part /\ (part = "queue" => [Queue!Next]_(Queue!vars))
BY DEF ListsStep, ListsNext, ListsParts, listVars, queue, Queue!vars

\* Of these parts alone: see CompletedOnReceipt in Desk_proofs.
LEMMA CompletedOnReceiptInLists ==
    ListsSpec => []CompletedHasReceipt
<1> DEFINE Holds == part = "queue" => QueueInv
<1>1. ListsInit => Holds
  BY QueueInit, ListsAssumption DEF ListsInit
<1>2. Holds /\ [ListsStep]_<<part, clicks, listVars>> => Holds'
  BY QueueStep, ListsAssumption, QueueMoves
<1>3. Holds => CompletedHasReceipt
  BY DEF CompletedHasReceipt, QueueInv
<1> QED
  BY <1>1, <1>2, <1>3, PTL DEF ListsSpec

-----------------------------------------------------------------------------
(* The history: the list on the screen, and a file written of it, answer the question they are *)
(* said to answer. *)

\* A load is a record of these fields.
Load(l) == l \in [filter : {l.filter}, after : {l.after}, stage : {l.stage}, newest : {l.newest}, stats : {l.stats}, days : {l.days}]
Typed == \A l \in loads : Load(l) /\ l.newest \in BOOLEAN

\* The newest load asks what the window asks now, unless a clear or a retention ordered it.
Asking == \A l \in loads : l.newest => l.after \/ l.filter = Page!Filter

\* What is on the screen once nothing is loading.
Answering == ~loading /\ ~historyShown.after => historyShown.of = <<Page!Filter>>

\* What a file says of its rows.
Written == file # Page!None /\ file[1].kind = "list" => (file[1].after \/ file[1].says = file[1].of)

HistoryInv == Typed /\ Asking /\ Answering /\ Written

LEMMA HistoryTold == HistoryInv => Page!ListIsNewest
BY DEF HistoryInv, Answering, Written, Page!ListIsNewest

-----------------------------------------------------------------------------
(* The loads *)

\* A load makes the loads before it stale, so that the newest is the last.
LEMMA LoadAsks ==
    ASSUME HistoryInv, NEW filter, NEW after, Page!load(filter, after), after \/ Page!Filter' = filter, file' = file
    PROVE  HistoryInv'
<1> DEFINE new == [filter |-> filter, after |-> after, stage |-> "stats", newest |-> TRUE, stats |-> 0, days |-> 0]
<1>1. \A l \in Page!Stale(loads) : Load(l) /\ l.newest = FALSE
  <2> SUFFICES ASSUME NEW l \in loads
               PROVE  Load([l EXCEPT !.newest = FALSE]) /\ [l EXCEPT !.newest = FALSE].newest = FALSE
    BY DEF Page!Stale
  <2>1. l \in [filter : {l.filter}, after : {l.after}, stage : {l.stage}, newest : {l.newest}, stats : {l.stats}, days : {l.days}]
    BY DEF HistoryInv, Typed, Load
  <2>2. [l EXCEPT !.newest = FALSE] \in
            [filter : {l.filter}, after : {l.after}, stage : {l.stage}, newest : {FALSE}, stats : {l.stats}, days : {l.days}]
    BY <2>1
  <2> QED
    BY <2>2 DEF Load
<1>2. loads' = Page!Stale(loads) \cup {new} /\ loading' = TRUE
  BY DEF Page!load
<1>3. Load(new) /\ new.newest = TRUE /\ new.after = after /\ new.filter = filter
  BY DEF Load
<1> HIDE DEF new
<1>4. \A l \in loads' : l = new \/ (Load(l) /\ l.newest = FALSE)
  BY <1>1, <1>2
<1>5. Typed'
  BY <1>3, <1>4 DEF Typed
<1>6. Asking'
  BY <1>3, <1>4 DEF Asking
<1> QED
  BY <1>2, <1>5, <1>6 DEF HistoryInv, Answering, Written

\* What the invariant is about is left alone, or only loads go.
LEMMA ListKeeps ==
    ASSUME HistoryInv, loads' \subseteq loads, loading' = loading, historyShown' = historyShown, file' = file, Page!Filter' = Page!Filter
    PROVE  HistoryInv'
BY DEF HistoryInv, Typed, Asking, Answering, Written

LEMMA ReloadKeeps ==
    ASSUME HistoryInv, NEW text, NEW v, Page!Reload(text, v)
    PROVE  HistoryInv'
<1>1. Page!Filter' = [search |-> text, view |-> v] /\ file' = file /\ historyShown' = historyShown
  BY DEF Page!Reload, Page!Filter, Page!fileVars
<1>2. CASE [search |-> text, view |-> v] # Page!Filter
  <2>1. Page!load([search |-> text, view |-> v], FALSE)
    BY <1>2 DEF Page!Reload
  <2> QED
    BY <1>1, <2>1, LoadAsks
<1>3. CASE [search |-> text, view |-> v] = Page!Filter
  BY <1>1, <1>3, ListKeeps DEF Page!Reload
<1> QED
  BY <1>2, <1>3

LEMMA RefreshKeeps ==
    ASSUME HistoryInv, Page!refresh
    PROVE  HistoryInv'
<1>1. Page!load(Page!Filter, FALSE) /\ file' = file /\ Page!Filter' = Page!Filter
  BY DEF Page!refresh, Page!filterVars, Page!fileVars, Page!Filter
<1> QED
  BY <1>1, LoadAsks

-----------------------------------------------------------------------------
(* The answers *)

LEMMA LoadAnswersKeep ==
    ASSUME HistoryInv, NEW l \in loads,
           Page!StatsAnswered(l) \/ Page!LoadFails(l) \/ \E retained \in {"none", "held", "unavailable"} : Page!QueryAnswered(l, retained)
    PROVE  HistoryInv'
<1>1. Page!Filter' = Page!Filter /\ file' = file /\ Load(l)
  BY DEF Page!StatsAnswered, Page!LoadFails, Page!QueryAnswered, Page!filterVars, Page!fileVars, Page!Filter, HistoryInv, Typed
<1>2. CASE Page!StatsAnswered(l)
  <2> DEFINE next == [l EXCEPT !.stage = "query", !.stats = Page!Cardinality(archive.ids), !.days = archive.days]
  <2>1. loads' \subseteq (loads \ {l}) \cup {next} /\ loading' = loading /\ historyShown' = historyShown
    BY <1>2 DEF Page!StatsAnswered
  <2>2. l \in [filter : {l.filter}, after : {l.after}, stage : {l.stage}, newest : {l.newest}, stats : {l.stats}, days : {l.days}]
    BY <1>1 DEF Load
  <2>3. next \in [filter : {l.filter}, after : {l.after}, stage : {"query"}, newest : {l.newest},
                  stats : {Page!Cardinality(archive.ids)}, days : {archive.days}]
    BY <2>2
  <2>4. Load(next) /\ next.newest = l.newest /\ next.filter = l.filter /\ next.after = l.after
    BY <2>3 DEF Load
  <2> HIDE DEF next
  <2>5. Typed' /\ Asking'
    BY <1>1, <2>1, <2>4 DEF HistoryInv, Typed, Asking
  <2> QED
    BY <1>1, <2>1, <2>5 DEF HistoryInv, Answering, Written
<1>3. CASE loads' \subseteq loads /\ ~l.newest /\ UNCHANGED <<historyShown, loading>>
  BY <1>1, <1>3, ListKeeps
<1>4. CASE loads' \subseteq loads /\ l.newest /\ historyShown'.of = <<l.filter>> /\ historyShown'.after = l.after /\ loading' = FALSE
  BY <1>1, <1>4 DEF HistoryInv, Typed, Asking, Answering, Written
<1>5. CASE Page!LoadFails(l)
  BY <1>3, <1>4, <1>5 DEF Page!LoadFails, Page!Nothing
<1>6. ASSUME NEW retained \in {"none", "held", "unavailable"}, Page!QueryAnswered(l, retained)
      PROVE  HistoryInv'
  <2>1. CASE l.newest
    <3>1. loads' \subseteq loads /\ Page!Install(l, retained)
      BY <1>6, <2>1 DEF Page!QueryAnswered
    <3>2. historyShown'.of = <<l.filter>> /\ historyShown'.after = l.after /\ loading' = FALSE
      BY <3>1 DEF Page!Install
    <3> QED
      BY <1>4, <2>1, <3>1, <3>2
  <2>2. CASE ~l.newest
    BY <1>3, <1>6, <2>2 DEF Page!QueryAnswered
  <2> QED
    BY <2>1, <2>2
<1> QED
  BY <1>2, <1>5, <1>6

LEMMA AnswersKeep ==
    ASSUME HistoryInv, Page!Answers
    PROVE  HistoryInv'
<1>1. ASSUME NEW o \in orders, Page!Answered(o)
      PROVE  HistoryInv'
  <2>1. Page!load(o.filter, TRUE) /\ file' = file
    BY <1>1 DEF Page!Answered, Page!fileVars
  <2> QED
    BY <2>1, LoadAsks
<1>2. ASSUME NEW o \in orders, Page!OrderFails(o)
      PROVE  HistoryInv'
  BY <1>2, ListKeeps DEF Page!OrderFails, Page!filterVars, Page!fileVars, Page!Filter
<1>3. ASSUME NEW tr \in traces, Page!TraceAnswered(tr) \/ Page!TraceFails(tr)
      PROVE  HistoryInv'
  BY <1>3, ListKeeps DEF Page!TraceAnswered, Page!TraceFails, Page!filterVars, Page!listVars, Page!fileVars, Page!Filter
<1> QED
  BY <1>1, <1>2, <1>3, LoadAnswersKeep DEF Page!Answers

-----------------------------------------------------------------------------
(* The user *)

LEMMA ToolbarKeeps ==
    ASSUME HistoryInv, Page!Toolbar
    PROVE  HistoryInv'
<1>1. CASE Page!setAutoRefresh \/ \E text \in Text : Page!setSearch(text)
  BY <1>1, ListKeeps DEF Page!setAutoRefresh, Page!setSearch, Page!listVars, Page!fileVars, Page!Filter
<1>2. CASE Page!runSearch
  BY <1>2, ReloadKeeps, RefreshKeeps DEF Page!runSearch
<1>3. CASE (\E v \in View : Page!setView(v)) \/ \E t \in historyShown.topics : Page!pickTopic(t)
  BY <1>3, ReloadKeeps DEF Page!setView, Page!pickTopic
<1> QED
  BY <1>1, <1>2, <1>3, RefreshKeeps DEF Page!Toolbar

LEMMA RowKeeps ==
    ASSUME HistoryInv, Page!Row
    PROVE  HistoryInv'
<1>1. Page!Filter' = Page!Filter /\ loads' = loads /\ loading' = loading /\ historyShown' = historyShown
  BY DEF Page!Row, Page!handleExport, Page!exportTrace, Page!handleResend, Page!expandRow, Page!WriteFile, Page!filterVars, Page!listVars, Page!Filter
<1>2. CASE Page!handleExport
  <2>1. file' # Page!None /\ file'[1].says = Page!Filter /\ file'[1].of = historyShown.of[1] /\ file'[1].after = historyShown.after /\ ~loading
    BY <1>2 DEF Page!handleExport, Page!WriteFile, Page!None
  <2>2. file'[1].after \/ file'[1].says = file'[1].of
    BY <2>1 DEF HistoryInv, Answering
  <2> QED
    BY <1>1, <2>2 DEF HistoryInv, Typed, Asking, Answering, Written
<1>3. CASE Page!exportTrace
  <2>1. file'[1].kind = "trace"
    BY <1>3 DEF Page!exportTrace, Page!WriteFile
  <2> QED
    BY <1>1, <2>1 DEF HistoryInv, Typed, Asking, Answering, Written
<1>4. CASE file' = file
  BY <1>1, <1>4, ListKeeps
<1> QED
  BY <1>2, <1>3, <1>4 DEF Page!Row, Page!handleResend, Page!expandRow, Page!fileVars

LEMMA RestKeeps ==
    ASSUME HistoryInv, \/ Page!Archive \/ Page!Trace \/ Page!RunRequested \/ Page!Saved \/ Page!Store \/ Page!build
                       \/ \E ok \in BOOLEAN : Page!Built(ok)
                       \/ UNCHANGED Page!vars
    PROVE  HistoryInv'
<1>1. UNCHANGED <<debouncedSearch, view, loads, loading, historyShown, file>>
  BY DEF Page!Archive, Page!clearAll, Page!applyRetention, Page!setRetentionDraft, Page!Order, Page!Trace, Page!setTraceToken, Page!runTrace, Page!expandHop,
         Page!RunRequested, Page!Saved, Page!Store, Page!build, Page!Built, Page!vars, Page!filterVars, Page!listVars, Page!fileVars
<1> QED
  BY <1>1, ListKeeps DEF Page!Filter

-----------------------------------------------------------------------------
LEMMA HistoryInit ==
    ASSUME Page!Init
    PROVE  HistoryInv
<1>1. /\ loads = {[filter |-> Page!Filter, after |-> FALSE, stage |-> "stats", newest |-> TRUE, stats |-> 0, days |-> 0]}
      /\ loading = TRUE /\ file = Page!None
  BY DEF Page!Init
<1> DEFINE first == [filter |-> Page!Filter, after |-> FALSE, stage |-> "stats", newest |-> TRUE, stats |-> 0, days |-> 0]
<1>2. /\ first \in [filter : {first.filter}, after : {first.after}, stage : {first.stage}, newest : {first.newest},
                    stats : {first.stats}, days : {first.days}]
      /\ first.newest = TRUE /\ first.filter = Page!Filter
  OBVIOUS
<1> HIDE DEF first
<1>3. loads = {first}
  BY <1>1 DEF first
<1>4. Typed
  BY <1>2, <1>3 DEF Typed, Load
<1>5. Asking
  BY <1>2, <1>3 DEF Asking
<1> QED
  BY <1>1, <1>4, <1>5 DEF HistoryInv, Answering, Written

LEMMA HistoryStep == HistoryInv /\ [Page!Next]_(Page!vars) => HistoryInv'
<1> SUFFICES ASSUME HistoryInv, [Page!Next]_(Page!vars)
             PROVE  HistoryInv'
  OBVIOUS
<1>1. CASE Page!AutoRefresh \/ Page!Debounced
  BY <1>1, RefreshKeeps, ReloadKeeps DEF Page!AutoRefresh, Page!Debounced
<1>2. CASE UNCHANGED Page!vars
  BY <1>2, RestKeeps
<1> QED
  BY <1>1, <1>2, AnswersKeep, ToolbarKeeps, RowKeeps, RestKeeps DEF Page!Next

\* A step of the desk is one of the part that is open, or changes nothing in it.
LEMMA PageMoves == [ListsStep]_<<part, clicks, listVars>> => part' = part /\ (part = "history" => [Page!Next]_(Page!vars))
BY DEF ListsStep, ListsNext, ListsParts, listVars, history, Page!vars, Page!filterVars, Page!listVars, Page!orderVars, Page!traceVars, Page!fileVars

\* Of these parts alone: see ListAnswersItsFilter in Desk_proofs.
LEMMA ListAnswersItsFilterInLists ==
    ListsSpec => []ListIsNewest
<1> DEFINE Holds == part = "history" => HistoryInv
<1>1. ListsInit => Holds
  BY HistoryInit DEF ListsInit
<1>2. Holds /\ [ListsStep]_<<part, clicks, listVars>> => Holds'
  BY HistoryStep, PageMoves
<1>3. Holds => ListIsNewest
  BY HistoryTold DEF ListIsNewest
<1> QED
  BY <1>1, <1>2, <1>3, PTL DEF ListsSpec

-----------------------------------------------------------------------------
(* The feed of messages: a hole in it is told.                             *)

Item == [id : Nat, kind : MessageKinds]
Batch == [messages : Seq(Item), dropped : Nat]

FeedTypes ==
    /\ arrived \in Nat /\ dropped \in Nat /\ feedDropped \in Nat
    /\ buffer \in Seq(Item) /\ messages \in Seq(Item) /\ pending \in Seq(Item)
    /\ flight \in Seq(Batch)
    /\ feedPaused \in BOOLEAN /\ (feedPaused \/ pending = <<>>)

-----------------------------------------------------------------------------
(* Rows of consecutive numbers, newest first or last.                      *)

Falls(s) == \A i \in 1 .. Len(s) : s[i].id = s[1].id + 1 - i
Rises(s) == \A i \in 1 .. Len(s) : s[i].id = s[1].id + i - 1

\* What is staged are the newest messages that arrived.
Staged == \A i \in 1 .. Len(buffer) : buffer[i].id = arrived - Len(buffer) + i

\* The batches under way: each without a hole, and one that says nothing was dropped begins
\* where the one before it ended.
After(b) == b.messages[1].id + Len(b.messages)
Emitted ==
    /\ \A j \in 1 .. Len(flight) :
          flight[j].messages # <<>> /\ Rises(flight[j].messages) /\ flight[j].dropped <= dropped
    /\ \A i, j \in 1 .. Len(flight) : i <= j => flight[i].dropped <= flight[j].dropped
    /\ \A j \in 1 .. Len(flight) - 1 :
          flight[j + 1].dropped = 0 => flight[j + 1].messages[1].id = After(flight[j])
    /\ flight # <<>> /\ dropped = 0 => After(flight[Len(flight)]) = arrived - Len(buffer) + 1

\* The window has been told of messages that the backend dropped, and will be again.
Lost == feedDropped > 0 /\ dropped > 0 /\ \A j \in 1 .. Len(flight) : flight[j].dropped > 0

\* Or nothing is missing up to the newest row that the window has, unless it dropped rows itself
\* while it was paused; then what it holds back fills the list.
Shows == pending # <<>> \/ messages # <<>>
Top == IF pending # <<>> THEN pending[1].id ELSE messages[1].id
Unbroken ==
    /\ Falls(messages) /\ Falls(pending)
    /\ pending # <<>> /\ messages # <<>> =>
          \/ pending[1].id = messages[1].id + Len(pending)
          \/ Len(pending) = MaxMessages /\ feedDropped > 0
    /\ Shows /\ flight # <<>> /\ flight[1].dropped = 0 => flight[1].messages[1].id = Top + 1
    /\ Shows /\ flight = <<>> /\ dropped = 0 => Top = arrived - Len(buffer)

FeedInv == FeedTypes /\ Staged /\ Emitted /\ (Lost \/ Unbroken)

-----------------------------------------------------------------------------
(* Sequences                                                               *)

LEMMA NewestOf ==
    ASSUME NEW S, NEW s \in Seq(S), NEW n \in Nat
    PROVE  /\ Feed!Newest(s, n) \in Seq(S)
           /\ Len(Feed!Newest(s, n)) = IF Len(s) <= n THEN Len(s) ELSE n
           /\ \A i \in 1 .. Len(Feed!Newest(s, n)) : Feed!Newest(s, n)[i] = s[i]
<1> DEFINE m == Feed!Min({n, Len(s)})
<1>1. Len(s) \in Nat
  BY LenProperties
<1>2. m = IF Len(s) <= n THEN Len(s) ELSE n
  BY <1>1 DEF Feed!Min
<1>3. Feed!Newest(s, n) = SubSeq(s, 1, m)
  BY DEF Feed!Newest
<1> HIDE DEF m
<1>4. m \in Nat /\ \A i \in 1 .. m : i \in 1 .. Len(s)
  BY <1>1, <1>2
<1>5. \A i \in 1 .. m : s[i] \in S
  BY <1>4, ElementOfSeq
<1>6. /\ SubSeq(s, 1, m) \in Seq(S)
      /\ Len(SubSeq(s, 1, m)) = IF 1 <= m THEN m - 1 + 1 ELSE 0
      /\ \A i \in 1 .. m - 1 + 1 : SubSeq(s, 1, m)[i] = s[1 + i - 1]
  BY <1>4, <1>5, SubSeqProperties
<1>7. Len(SubSeq(s, 1, m)) = m
  BY <1>4, <1>6
<1>8. \A i \in 1 .. m : SubSeq(s, 1, m)[i] = s[i]
  BY <1>4, <1>6
<1> QED
  BY <1>2, <1>3, <1>6, <1>7, <1>8

LEMMA ReverseOf ==
    ASSUME NEW S, NEW s \in Seq(S)
    PROVE  /\ Feed!Reverse(s) \in Seq(S)
           /\ Len(Feed!Reverse(s)) = Len(s)
           /\ \A i \in 1 .. Len(s) : Feed!Reverse(s)[i] = s[Len(s) + 1 - i]
<1>1. Len(s) \in Nat
  BY LenProperties
<1>2. \A i \in 1 .. Len(s) : Len(s) - i + 1 \in 1 .. Len(s)
  BY <1>1
<1>3. \A i \in 1 .. Len(s) : s[Len(s) - i + 1] \in S
  BY <1>2, ElementOfSeq
<1>4. Feed!Reverse(s) = [i \in 1 .. Len(s) |-> s[Len(s) - i + 1]]
  BY DEF Feed!Reverse
<1>5. Feed!Reverse(s) \in [1 .. Len(s) -> S]
  BY <1>3, <1>4
<1>6. Feed!Reverse(s) \in Seq(S)
  BY <1>1, <1>5, SeqDef
<1>7. Len(Feed!Reverse(s)) = Len(s)
  BY <1>1, <1>5, <1>6, LenProperties
<1>8. \A i \in 1 .. Len(s) : Len(s) - i + 1 = Len(s) + 1 - i
  BY <1>1
<1> QED
  BY <1>4, <1>6, <1>7, <1>8

LEMMA NoRows ==
    ASSUME NEW s, s = <<>>
    PROVE  Len(s) = 0
BY EmptySeq

LEMMA IdOf ==
    ASSUME NEW s \in Seq(Item), NEW i \in 1 .. Len(s)
    PROVE  s[i] \in Item /\ s[i].id \in Nat
<1>1. s[i] \in Item
  BY ElementOfSeq
<1> QED
  BY <1>1 DEF Item

LEMMA JoinOf ==
    ASSUME NEW r \in Seq(Item), NEW s \in Seq(Item)
    PROVE  /\ r \o s \in Seq(Item)
           /\ Len(r \o s) = Len(r) + Len(s)
           /\ \A i \in 1 .. Len(r) + Len(s) : (r \o s)[i] = IF i <= Len(r) THEN r[i] ELSE s[i - Len(r)]
BY ConcatProperties

\* A batch on top of a list that it continues.
LEMMA OnTop ==
    ASSUME NEW b \in Seq(Item), b # <<>>, Rises(b), NEW s \in Seq(Item), Falls(s),
           s # <<>> => b[1].id = s[1].id + 1, NEW n \in Nat
    PROVE  Falls(Feed!Newest(Feed!Reverse(b) \o s, n))
<1> DEFINE r == Feed!Reverse(b)
           m == r \o s
           t == Feed!Newest(m, n)
<1>1. Len(b) \in Nat \ {0} /\ Len(s) \in Nat
  BY EmptySeq, LenProperties
<1>2. r \in Seq(Item) /\ Len(r) = Len(b) /\ \A i \in 1 .. Len(b) : r[i] = b[Len(b) + 1 - i]
  BY ReverseOf
<1>3. /\ m \in Seq(Item) /\ Len(m) = Len(b) + Len(s)
      /\ \A i \in 1 .. Len(b) + Len(s) : m[i] = IF i <= Len(b) THEN r[i] ELSE s[i - Len(b)]
  <2> HIDE DEF r, m, t
  <2>1. /\ r \o s \in Seq(Item) /\ Len(r \o s) = Len(r) + Len(s)
        /\ \A i \in 1 .. Len(r) + Len(s) : (r \o s)[i] = IF i <= Len(r) THEN r[i] ELSE s[i - Len(r)]
    BY <1>2, JoinOf
  <2> QED
    BY <1>2, <2>1 DEF m
<1>4. Len(t) \in Nat /\ Len(t) <= Len(m) /\ \A i \in 1 .. Len(t) : t[i] = m[i]
  <2> HIDE DEF m
  <2> QED
    BY <1>1, <1>3, NewestOf
<1> HIDE DEF r, m, t
<1>5. b[1].id \in Nat
  BY <1>1, IdOf
<1>6. \A i \in 1 .. Len(b) : m[i].id = b[1].id + Len(b) - i
  <2> SUFFICES ASSUME NEW i \in 1 .. Len(b) PROVE m[i].id = b[1].id + Len(b) - i
    OBVIOUS
  <2>1. m[i] = b[Len(b) + 1 - i] /\ Len(b) + 1 - i \in 1 .. Len(b)
    BY <1>1, <1>2, <1>3
  <2>2. b[Len(b) + 1 - i].id = b[1].id + (Len(b) + 1 - i) - 1
    BY <2>1 DEF Rises
  <2> QED
    BY <1>1, <1>5, <2>1, <2>2
<1>7. \A i \in Len(b) + 1 .. Len(b) + Len(s) : m[i].id = b[1].id + Len(b) - i
  <2> SUFFICES ASSUME NEW i \in Len(b) + 1 .. Len(b) + Len(s) PROVE m[i].id = b[1].id + Len(b) - i
    OBVIOUS
  <2>1. m[i] = s[i - Len(b)] /\ i - Len(b) \in 1 .. Len(s)
    BY <1>1, <1>3
  <2>2. s # <<>>
    BY <1>1, <2>1, EmptySeq
  <2>3. s[i - Len(b)].id = s[1].id + 1 - (i - Len(b))
    BY <2>1 DEF Falls
  <2>4. s[1].id \in Nat /\ b[1].id = s[1].id + 1
    BY <1>1, <2>1, <2>2, IdOf
  <2> QED
    BY <1>1, <2>1, <2>3, <2>4
<1>8. \A i \in 1 .. Len(t) : t[i].id = b[1].id + Len(b) - i
  <2> TAKE i \in 1 .. Len(t)
  <2>1. Len(b) \in Nat /\ Len(s) \in Nat /\ Len(m) = Len(b) + Len(s)
    BY <1>1, <1>3
  <2>2. i \in 1 .. Len(b) \/ i \in Len(b) + 1 .. Len(b) + Len(s)
    BY <1>4, <2>1
  <2>3. m[i].id = b[1].id + Len(b) - i
    BY <1>6, <1>7, <2>2
  <2> QED
    BY <1>4, <2>3
<1>9. \A i \in 1 .. Len(t) : t[i].id = t[1].id + 1 - i
  <2> SUFFICES ASSUME NEW i \in 1 .. Len(t) PROVE t[i].id = t[1].id + 1 - i
    OBVIOUS
  <2>1. t[1].id = b[1].id + Len(b) - 1 /\ t[i].id = b[1].id + Len(b) - i
    BY <1>4, <1>8
  <2> QED
    BY SMTT(30), <1>1, <1>4, <1>5, <2>1
<1>10. Falls(t)
  BY <1>9 DEF Falls
<1> QED
  BY <1>10 DEF t, m, r

\* How long that list is, and its newest row.
LEMMA TopOf ==
    ASSUME NEW b \in Seq(Item), b # <<>>, Rises(b), NEW s \in Seq(Item), NEW n \in Nat \ {0}
    PROVE  LET t == Feed!Newest(Feed!Reverse(b) \o s, n) IN
           /\ t \in Seq(Item) /\ t # <<>>
           /\ Len(Feed!Reverse(b) \o s) = Len(b) + Len(s)
           /\ Len(t) = IF Len(b) + Len(s) <= n THEN Len(b) + Len(s) ELSE n
           /\ t[1].id = b[1].id + Len(b) - 1
<1> DEFINE r == Feed!Reverse(b)
           m == r \o s
           t == Feed!Newest(m, n)
<1>1. Len(b) \in Nat \ {0} /\ Len(s) \in Nat
  BY EmptySeq, LenProperties
<1>2. r \in Seq(Item) /\ Len(r) = Len(b) /\ \A i \in 1 .. Len(b) : r[i] = b[Len(b) + 1 - i]
  BY ReverseOf
<1>3. /\ m \in Seq(Item) /\ Len(m) = Len(b) + Len(s)
      /\ \A i \in 1 .. Len(b) + Len(s) : m[i] = IF i <= Len(b) THEN r[i] ELSE s[i - Len(b)]
  <2> HIDE DEF r, m
  <2>1. /\ r \o s \in Seq(Item) /\ Len(r \o s) = Len(r) + Len(s)
        /\ \A i \in 1 .. Len(r) + Len(s) : (r \o s)[i] = IF i <= Len(r) THEN r[i] ELSE s[i - Len(r)]
    BY <1>2, JoinOf
  <2> QED
    BY <1>2, <2>1 DEF m
<1>4. /\ t \in Seq(Item)
      /\ Len(t) = IF Len(m) <= n THEN Len(m) ELSE n
      /\ \A i \in 1 .. Len(t) : t[i] = m[i]
  <2> HIDE DEF m
  <2> QED
    BY <1>3, NewestOf
<1> HIDE DEF r, m, t
<1>5. 1 \in 1 .. Len(t)
  BY <1>1, <1>3, <1>4
<1>6. t # <<>>
  BY <1>5, NoRows
<1>7. t[1].id = b[1].id + Len(b) - 1
  <2>1. m[1] = r[1] /\ r[1] = b[Len(b)] /\ t[1] = m[1]
    BY <1>1, <1>2, <1>3, <1>4, <1>5
  <2>2. b[Len(b)].id = b[1].id + Len(b) - 1
    BY <1>1 DEF Rises
  <2> QED
    BY <2>1, <2>2
<1>8. Len(m) = Len(b) + Len(s) /\ Len(t) = IF Len(b) + Len(s) <= n THEN Len(b) + Len(s) ELSE n
  BY <1>3, <1>4
<1> QED
  BY <1>4, <1>6, <1>7, <1>8 DEF t, m, r

-----------------------------------------------------------------------------
(* The backend                                                             *)

LEMMA FeedFacts ==
    ASSUME FeedInv
    PROVE  /\ Len(buffer) \in Nat /\ Len(flight) \in Nat /\ Len(messages) \in Nat /\ Len(pending) \in Nat
           /\ \A j \in 1 .. Len(flight) :
                 /\ flight[j] \in Batch /\ flight[j].dropped \in Nat /\ flight[j].messages \in Seq(Item)
                 /\ Len(flight[j].messages) \in Nat \ {0} /\ flight[j].messages[1].id \in Nat
                 /\ After(flight[j]) \in Nat
<1>1. Len(buffer) \in Nat /\ Len(flight) \in Nat /\ Len(messages) \in Nat /\ Len(pending) \in Nat
  BY LenProperties DEF FeedInv, FeedTypes
<1>2. ASSUME NEW j \in 1 .. Len(flight)
      PROVE  /\ flight[j] \in Batch /\ flight[j].dropped \in Nat /\ flight[j].messages \in Seq(Item)
             /\ Len(flight[j].messages) \in Nat \ {0} /\ flight[j].messages[1].id \in Nat
             /\ After(flight[j]) \in Nat
  <2>1. flight[j] \in Batch
    BY ElementOfSeq DEF FeedInv, FeedTypes
  <2>2. flight[j].dropped \in Nat /\ flight[j].messages \in Seq(Item)
    BY <2>1 DEF Batch
  <2>3. Len(flight[j].messages) \in Nat \ {0}
    BY <2>2, EmptySeq DEF FeedInv, Emitted
  <2>4. flight[j].messages[1].id \in Nat
    BY <2>2, <2>3, IdOf
  <2> QED
    BY <2>1, <2>2, <2>3, <2>4 DEF After
<1> QED
  BY <1>1, <1>2

\* A message that arrives stands behind those that are staged; a full buffer drops its oldest.
LEMMA PushKeeps ==
    ASSUME FeedInv, NEW k \in MessageKinds, Feed!push_feed(k)
    PROVE  FeedInv'
<1> DEFINE full == Len(buffer) >= BufferMax
           left == IF full THEN Tail(buffer) ELSE buffer
           new == [id |-> arrived + 1, kind |-> k]
<1>1. /\ arrived' = arrived + 1 /\ buffer' = Append(left, new)
      /\ dropped' = IF full THEN dropped + 1 ELSE dropped
      /\ UNCHANGED <<flight, messages, pending, feedPaused, feedDropped>>
  BY DEF Feed!push_feed, Feed!feed
<1>2. arrived \in Nat /\ dropped \in Nat /\ buffer \in Seq(Item) /\ Len(buffer) \in Nat
  BY FeedFacts DEF FeedInv, FeedTypes
<1>3. /\ left \in Seq(Item) /\ Len(left) \in Nat
      /\ \A i \in 1 .. Len(left) : left[i].id = arrived - Len(left) + i
      /\ ~full => left = buffer
  <2>1. CASE full
    <3>1. buffer # <<>>
      BY <1>2, <2>1, EmptySeq, ListsAssumption
    <3>2. /\ Tail(buffer) \in Seq(Item) /\ Len(Tail(buffer)) = Len(buffer) - 1
          /\ \A i \in 1 .. Len(Tail(buffer)) : Tail(buffer)[i] = buffer[i + 1]
      BY <1>2, <3>1, HeadTailProperties
    <3>3. Len(buffer) - 1 \in Nat
      BY <1>2, <3>1, EmptySeq
    <3>4. ASSUME NEW i \in 1 .. Len(Tail(buffer))
          PROVE  Tail(buffer)[i].id = arrived - Len(Tail(buffer)) + i
      <4>1. i + 1 \in 1 .. Len(buffer)
        BY <1>2, <3>2, <3>3
      <4>2. buffer[i + 1].id = arrived - Len(buffer) + (i + 1)
        BY <4>1 DEF FeedInv, Staged
      <4> QED
        BY <1>2, <3>2, <4>2
    <3> QED
      BY <2>1, <3>2, <3>3, <3>4
  <2>2. CASE ~full
    BY <1>2, <2>2 DEF FeedInv, Staged
  <2> QED
    BY <2>1, <2>2
<1>4. new \in Item
  BY <1>2 DEF Item
<1> HIDE DEF left, new
<1>5. /\ buffer' \in Seq(Item) /\ Len(buffer') = Len(left) + 1
      /\ \A i \in 1 .. Len(left) : buffer'[i] = left[i]
      /\ buffer'[Len(left) + 1] = new
  BY <1>1, <1>3, <1>4, AppendProperties
<1>6. ASSUME NEW i \in 1 .. Len(buffer')
      PROVE  buffer'[i].id = arrived' - Len(buffer') + i
  <2>1. CASE i = Len(left) + 1
    BY <1>1, <1>2, <1>3, <1>5, <2>1 DEF new
  <2>2. CASE i \in 1 .. Len(left)
    BY <1>1, <1>2, <1>3, <1>5, <2>2
  <2> QED
    BY <1>3, <1>5, <2>1, <2>2
<1>7. Staged'
  BY <1>6 DEF Staged
<1>8. dropped' \in Nat /\ dropped <= dropped' /\ (dropped' = 0 => dropped = 0 /\ arrived' - Len(buffer') = arrived - Len(buffer))
  <2> HIDE DEF full
  <2>1. CASE full
    BY <1>1, <1>2, <2>1
  <2>2. CASE ~full
    BY <1>1, <1>2, <1>3, <1>5, <2>2
  <2> QED
    BY <2>1, <2>2
<1>9. Emitted'
  <2>1. \A j \in 1 .. Len(flight) : flight[j].dropped <= dropped'
    BY SMTT(30), <1>2, <1>8, FeedFacts DEF FeedInv, Emitted
  <2>2. flight' = flight
    BY <1>1
  <2>3. flight # <<>> /\ dropped' = 0 => After(flight[Len(flight)]) = arrived' - Len(buffer') + 1
    BY <1>8 DEF FeedInv, Emitted
  <2> QED
    BY <2>1, <2>2, <2>3 DEF FeedInv, Emitted, After
<1>10. (Lost \/ Unbroken)'
  <2>1. Lost => Lost'
    BY <1>1, <1>2, <1>8 DEF Lost
  <2>2. Unbroken => Unbroken'
    BY <1>1, <1>2, <1>8 DEF Unbroken, Falls, Shows, Top
  <2> QED
    BY <2>1, <2>2 DEF FeedInv
<1>11. FeedTypes'
  BY <1>1, <1>2, <1>5, <1>8 DEF FeedInv, FeedTypes
<1> QED
  BY <1>7, <1>9, <1>10, <1>11 DEF FeedInv

\* A flush takes the oldest that are staged, as many as a batch holds.
LEMMA FlushKeeps ==
    ASSUME FeedInv, Feed!flush_feed
    PROVE  FeedInv'
<1> DEFINE n == Len(buffer)
           ms == Feed!Newest(buffer, BatchMax)
           b == [messages |-> ms, dropped |-> dropped]
<1>1. /\ buffer # <<>> /\ flight' = Append(flight, b) /\ buffer' = SubSeq(buffer, BatchMax + 1, n)
      /\ UNCHANGED <<arrived, dropped, messages, pending, feedPaused, feedDropped>>
  BY DEF Feed!flush_feed, Feed!feed
<1>2. /\ arrived \in Nat /\ dropped \in Nat /\ buffer \in Seq(Item) /\ flight \in Seq(Batch)
      /\ n \in Nat \ {0} /\ Len(flight) \in Nat /\ BatchMax \in Nat \ {0}
  BY <1>1, FeedFacts, EmptySeq, ListsAssumption DEF FeedInv, FeedTypes
<1>3. \A i \in 1 .. n : buffer[i] \in Item /\ buffer[i].id = arrived - n + i
  BY <1>2, IdOf DEF FeedInv, Staged
<1>4. /\ ms \in Seq(Item) /\ Len(ms) = IF n <= BatchMax THEN n ELSE BatchMax
      /\ \A i \in 1 .. Len(ms) : ms[i] = buffer[i]
  BY <1>2, NewestOf
<1>5. /\ buffer' \in Seq(Item) /\ Len(buffer') = IF BatchMax + 1 <= n THEN n - (BatchMax + 1) + 1 ELSE 0
      /\ \A i \in 1 .. n - (BatchMax + 1) + 1 : buffer'[i] = buffer[BatchMax + 1 + i - 1]
  <2>1. \A i \in BatchMax + 1 .. n : buffer[i] \in Item
    BY <1>2, <1>3
  <2> QED
    BY <1>1, <1>2, <2>1, SubSeqProperties
<1> HIDE DEF ms, n
<1>6. /\ Len(ms) \in Nat \ {0} /\ Len(ms) <= n /\ Len(buffer') \in Nat
      /\ Len(ms) + Len(buffer') = n
  BY <1>2, <1>4, <1>5
<1>7. ASSUME NEW i \in 1 .. Len(ms) PROVE ms[i].id = arrived - n + i
  <2>1. i \in 1 .. n /\ ms[i] = buffer[i]
    BY <1>2, <1>4, <1>6
  <2> QED
    BY <1>3, <2>1
<1>8. ms # <<>> /\ Rises(ms) /\ ms[1].id = arrived - n + 1
  <2>1. ms # <<>>
    BY <1>4, <1>6, EmptySeq
  <2>2. ms[1].id = arrived - n + 1
    BY <1>6, <1>7
  <2>3. \A i \in 1 .. Len(ms) : ms[i].id = ms[1].id + i - 1
    BY <1>2, <1>6, <1>7, <2>2
  <2> QED
    BY <2>1, <2>2, <2>3 DEF Rises
<1>9. Staged'
  <2>1. ASSUME NEW i \in 1 .. Len(buffer')
        PROVE  buffer'[i].id = arrived' - Len(buffer') + i
    <3>1. BatchMax + 1 <= n /\ Len(buffer') = n - BatchMax /\ BatchMax + i \in 1 .. n
      BY <1>2, <1>5, <2>1
    <3>2. buffer'[i] = buffer[BatchMax + i]
      <4>1. i \in 1 .. n - (BatchMax + 1) + 1 /\ BatchMax + 1 + i - 1 = BatchMax + i
        BY <1>2, <2>1, <3>1
      <4> QED
        BY <1>5, <4>1
    <3> QED
      BY <1>1, <1>2, <1>3, <3>1, <3>2
  <2> QED
    BY <2>1 DEF Staged
<1>10. b \in Batch /\ b.messages = ms /\ b.dropped = dropped /\ After(b) = arrived' - Len(buffer') + 1
  <2>1. arrived - n + 1 + Len(ms) = arrived' - Len(buffer') + 1
    <3>1. arrived' = arrived /\ arrived \in Nat /\ n \in Nat
      BY <1>1, <1>2
    <3> QED
      BY <1>6, <3>1
  <2>2. b.messages = ms /\ b.dropped = dropped
    OBVIOUS
  <2>3. b \in Batch
    <3>1. ms \in Seq(Item) /\ dropped \in Nat
      BY <1>2, <1>4
    <3> QED
      BY <3>1 DEF Batch
  <2> HIDE DEF b
  <2> QED
    BY <1>8, <2>1, <2>2, <2>3 DEF After
<1> HIDE DEF b
<1>11. /\ flight' \in Seq(Batch) /\ Len(flight') = Len(flight) + 1 /\ flight' # <<>>
       /\ \A j \in 1 .. Len(flight) : flight'[j] = flight[j]
       /\ flight'[Len(flight) + 1] = b
  BY <1>1, <1>2, <1>10, AppendProperties
<1>12. Emitted'
  <2>1. \A j \in 1 .. Len(flight') : flight'[j] = b \/ (j \in 1 .. Len(flight) /\ flight'[j] = flight[j])
    BY <1>2, <1>11
  <2>2. \A j \in 1 .. Len(flight) : flight[j].dropped \in Nat /\ flight[j].dropped <= dropped
    BY FeedFacts DEF FeedInv, Emitted
  <2>3. ASSUME NEW j \in 1 .. Len(flight')
        PROVE  flight'[j].messages # <<>> /\ Rises(flight'[j].messages) /\ flight'[j].dropped <= dropped'
    <3>1. dropped' = dropped /\ dropped \in Nat
      BY <1>1, <1>2
    <3>2. CASE flight'[j] = b
      BY <1>8, <1>10, <3>1, <3>2
    <3>3. CASE j \in 1 .. Len(flight) /\ flight'[j] = flight[j]
      <4>1. flight[j].messages # <<>> /\ Rises(flight[j].messages) /\ flight[j].dropped <= dropped
        BY <3>3 DEF FeedInv, Emitted
      <4> QED
        BY <3>1, <3>3, <4>1
    <3> QED
      BY <2>1, <3>2, <3>3
  <2>4. ASSUME NEW i \in 1 .. Len(flight'), NEW j \in 1 .. Len(flight'), i <= j
        PROVE  flight'[i].dropped <= flight'[j].dropped
    <3>1. CASE j = Len(flight) + 1
      BY <1>2, <1>10, <1>11, <2>1, <2>2, <3>1
    <3>2. CASE j \in 1 .. Len(flight)
      <4>1. i \in 1 .. Len(flight)
        BY <1>2, <2>4, <3>2
      <4> QED
        BY <1>11, <2>4, <3>2, <4>1 DEF FeedInv, Emitted
    <3> QED
      BY <1>2, <1>11, <3>1, <3>2
  <2>5. ASSUME NEW j \in 1 .. Len(flight') - 1, flight'[j + 1].dropped = 0
        PROVE  flight'[j + 1].messages[1].id = After(flight'[j])
    <3>0. j \in 1 .. Len(flight) /\ flight'[j] = flight[j]
      BY <1>2, <1>11
    <3>1. CASE j = Len(flight)
      <4>1. dropped = 0 /\ flight # <<>>
        BY <1>2, <1>10, <1>11, <2>5, <3>0, <3>1, EmptySeq
      <4>2. After(flight[Len(flight)]) = arrived - Len(buffer) + 1
        BY <4>1 DEF FeedInv, Emitted
      <4> QED
        BY <1>8, <1>10, <1>11, <3>0, <3>1, <4>2 DEF n
    <3>2. CASE j # Len(flight)
      <4>1. j \in 1 .. Len(flight) - 1 /\ j + 1 \in 1 .. Len(flight)
        BY <1>2, <3>0, <3>2
      <4>2. flight'[j + 1] = flight[j + 1]
        BY <1>11, <4>1
      <4> QED
        BY <2>5, <3>0, <4>1, <4>2 DEF FeedInv, Emitted
    <3> QED
      BY <3>1, <3>2
  <2>6. After(flight'[Len(flight')]) = arrived' - Len(buffer') + 1
    BY <1>10, <1>11
  <2> QED
    BY <2>3, <2>4, <2>5, <2>6 DEF Emitted, After
<1>13. Lost => Lost'
  BY <1>1, <1>2, <1>10, <1>11 DEF Lost
<1>14. Unbroken => Unbroken'
  <2> SUFFICES ASSUME Unbroken PROVE Unbroken'
    OBVIOUS
  <2>1. ASSUME Shows, flight'[1].dropped = 0
        PROVE  flight'[1].messages[1].id = Top + 1
    <3>1. CASE flight = <<>>
      <4>1. Len(flight) = 0
        BY <3>1, EmptySeq
      <4>2. flight'[1] = b
        BY <1>11, <4>1
      <4>3. Top = arrived - Len(buffer)
        BY <1>10, <2>1, <3>1, <4>2 DEF Unbroken
      <4> QED
        BY <1>8, <1>10, <4>2, <4>3 DEF n
    <3>2. CASE flight # <<>>
      <4>1. 1 \in 1 .. Len(flight)
        BY <1>2, <3>2, EmptySeq
      <4>2. flight'[1] = flight[1]
        BY <1>11, <4>1
      <4> QED
        BY <2>1, <3>2, <4>2 DEF Unbroken
    <3> QED
      BY <3>1, <3>2
  <2> QED
    BY <1>1, <1>11, <2>1 DEF Unbroken, Falls, Shows, Top
<1>15. FeedTypes'
  BY <1>1, <1>5, <1>11 DEF FeedInv, FeedTypes
<1> QED
  BY <1>9, <1>12, <1>13, <1>14, <1>15 DEF FeedInv

-----------------------------------------------------------------------------
(* The window                                                              *)

\* What a batch that is taken leaves under way.
LEMMA FeedRestKeeps ==
    ASSUME FeedInv, flight # <<>>, flight' = Tail(flight), UNCHANGED <<arrived, buffer, dropped>>
    PROVE  /\ flight' \in Seq(Batch) /\ Staged' /\ Emitted'
           /\ 1 \in 1 .. Len(flight)
           /\ flight[1].dropped <= dropped
           /\ \A j \in 1 .. Len(flight') : flight[1].dropped <= flight'[j].dropped /\ flight'[j].dropped \in Nat
           /\ flight' # <<>> /\ flight'[1].dropped = 0 => flight'[1].messages[1].id = After(flight[1])
           /\ flight' = <<>> /\ dropped = 0 => After(flight[1]) = arrived - Len(buffer) + 1
<1>1. flight \in Seq(Batch) /\ Len(flight) \in Nat \ {0}
  BY EmptySeq DEF FeedInv, FeedTypes
<1>2. /\ flight' \in Seq(Batch) /\ Len(flight') = Len(flight) - 1
      /\ \A j \in 1 .. Len(flight') : flight'[j] = flight[j + 1]
  BY <1>1, HeadTailProperties
<1>3. \A j \in 1 .. Len(flight') : j + 1 \in 1 .. Len(flight)
  BY <1>1, <1>2
<1>4. Staged'
  BY DEF FeedInv, Staged
<1>5. 1 \in 1 .. Len(flight) /\ flight[1].dropped <= dropped
  BY <1>1 DEF FeedInv, Emitted
<1>6. ASSUME NEW j \in 1 .. Len(flight')
      PROVE  flight[1].dropped <= flight'[j].dropped /\ flight'[j].dropped \in Nat
  <2>1. 1 <= j + 1
    BY <1>3
  <2> QED
    BY <1>2, <1>3, <1>5, <2>1, FeedFacts DEF FeedInv, Emitted
<1>7. ASSUME flight' # <<>>, flight'[1].dropped = 0
      PROVE  flight'[1].messages[1].id = After(flight[1])
  <2>1. 1 \in 1 .. Len(flight')
    BY <1>1, <1>2, <1>7, EmptySeq
  <2>2. 1 \in 1 .. Len(flight) - 1 /\ flight'[1] = flight[1 + 1]
    BY <1>1, <1>2, <2>1
  <2> QED
    BY <1>7, <2>2 DEF FeedInv, Emitted
<1>8. ASSUME flight' = <<>>, dropped = 0
      PROVE  After(flight[1]) = arrived - Len(buffer) + 1
  <2>1. Len(flight) = 1
    <3>1. Len(flight') = 0
      BY <1>8, NoRows, Zenon
    <3> QED
      BY <1>1, <1>2, <3>1
  <2> QED
    BY <1>8, <2>1 DEF FeedInv, Emitted
<1>9. Emitted'
  <2>1. ASSUME NEW j \in 1 .. Len(flight')
        PROVE  flight'[j].messages # <<>> /\ Rises(flight'[j].messages) /\ flight'[j].dropped <= dropped'
    BY <1>2, <1>3 DEF FeedInv, Emitted
  <2>2. ASSUME NEW i \in 1 .. Len(flight'), NEW j \in 1 .. Len(flight'), i <= j
        PROVE  flight'[i].dropped <= flight'[j].dropped
    <3>1. i + 1 <= j + 1
      BY <2>2
    <3> QED
      BY <1>2, <1>3, <3>1 DEF FeedInv, Emitted
  <2>3. ASSUME NEW j \in 1 .. Len(flight') - 1, flight'[j + 1].dropped = 0
        PROVE  flight'[j + 1].messages[1].id = After(flight'[j])
    <3>1. j + 1 \in 1 .. Len(flight) - 1 /\ j \in 1 .. Len(flight') /\ j + 1 \in 1 .. Len(flight')
      BY <1>1, <1>2
    <3>2. flight'[j] = flight[j + 1] /\ flight'[j + 1] = flight[(j + 1) + 1]
      BY <1>2, <3>1
    <3> QED
      BY <2>3, <3>1, <3>2 DEF FeedInv, Emitted
  <2>4. ASSUME flight' # <<>>, dropped' = 0
        PROVE  After(flight'[Len(flight')]) = arrived' - Len(buffer') + 1
    <3>1. Len(flight') \in 1 .. Len(flight')
      BY <1>1, <1>2, <2>4, EmptySeq
    <3>2. flight'[Len(flight')] = flight[Len(flight)]
      BY <1>1, <1>2, <3>1
    <3> QED
      BY <2>4, <3>2 DEF FeedInv, Emitted
  <2> QED
    BY <2>1, <2>2, <2>3, <2>4 DEF Emitted, After
<1> QED
  BY <1>2, <1>4, <1>5, <1>6, <1>7, <1>8, <1>9

\* What the window is told of a batch that says messages were dropped.
LEMMA ToldLost ==
    ASSUME FeedInv, flight # <<>>, flight' = Tail(flight), UNCHANGED <<arrived, buffer, dropped>>,
           flight[1].dropped # 0, feedDropped' >= flight[1].dropped, feedDropped' \in Nat
    PROVE  Lost'
<1>1. flight[1].dropped \in Nat /\ dropped \in Nat /\ 1 \in 1 .. Len(flight)
  BY FeedRestKeeps, FeedFacts DEF FeedInv, FeedTypes
<1>2. flight[1].dropped <= dropped
  BY FeedRestKeeps
<1>3. \A j \in 1 .. Len(flight') : flight[1].dropped <= flight'[j].dropped /\ flight'[j].dropped \in Nat
  BY FeedRestKeeps
<1>4. feedDropped' > 0 /\ dropped' > 0
  BY <1>1, <1>2
<1>5. \A j \in 1 .. Len(flight') : flight'[j].dropped > 0
  BY <1>1, <1>3
<1> QED
  BY <1>4, <1>5 DEF Lost

\* A batch goes on top of what the window shows, or of what it holds back.
LEMMA OnBatchKeeps ==
    ASSUME FeedInv, Feed!OnBatch
    PROVE  FeedInv'
<1> DEFINE b == flight[1].messages
           d == flight[1].dropped
<1>1. /\ flight # <<>> /\ flight' = Tail(flight)
      /\ UNCHANGED <<arrived, buffer, dropped, feedPaused>>
  BY Zenon DEF Feed!OnBatch, Feed!backend
<1>2. IF feedPaused
      THEN /\ pending' = Feed!Newest(Feed!Reverse(b) \o pending, MaxMessages)
           /\ feedDropped' = d + (Len(Feed!Reverse(b) \o pending) - Len(pending'))
           /\ messages' = messages
      ELSE /\ messages' = Feed!Newest(Feed!Reverse(b) \o messages, MaxMessages)
           /\ feedDropped' = d
           /\ pending' = pending
  <2>1. Head(flight) = flight[1]
    OBVIOUS
  <2> QED
    BY <2>1, Zenon DEF Feed!OnBatch
<1>3. /\ flight' \in Seq(Batch) /\ Staged' /\ Emitted'
      /\ flight' # <<>> /\ flight'[1].dropped = 0 => flight'[1].messages[1].id = After(flight[1])
      /\ flight' = <<>> /\ dropped = 0 => After(flight[1]) = arrived - Len(buffer) + 1
      /\ 1 \in 1 .. Len(flight)
  BY <1>1, FeedRestKeeps
<1>4. /\ b \in Seq(Item) /\ b # <<>> /\ Rises(b) /\ d \in Nat /\ Len(b) \in Nat \ {0} /\ b[1].id \in Nat
      /\ After(flight[1]) = b[1].id + Len(b)
  BY <1>3, FeedFacts DEF FeedInv, Emitted, After
<1>5. /\ messages \in Seq(Item) /\ pending \in Seq(Item) /\ MaxMessages \in Nat \ {0}
      /\ Len(messages) \in Nat /\ Len(pending) \in Nat
      /\ arrived \in Nat /\ dropped \in Nat /\ buffer \in Seq(Item) /\ feedPaused \in BOOLEAN
      /\ ~feedPaused => pending = <<>>
  BY FeedFacts, ListsAssumption DEF FeedInv, FeedTypes
<1> HIDE DEF b, d
<1>6. CASE feedPaused
  <2>1. /\ pending' = Feed!Newest(Feed!Reverse(b) \o pending, MaxMessages) /\ messages' = messages
        /\ feedDropped' = d + (Len(Feed!Reverse(b) \o pending) - Len(pending'))
    BY <1>2, <1>6
  <2>2. /\ pending' \in Seq(Item) /\ pending' # <<>>
        /\ Len(Feed!Reverse(b) \o pending) = Len(b) + Len(pending)
        /\ Len(pending') = IF Len(b) + Len(pending) <= MaxMessages THEN Len(b) + Len(pending) ELSE MaxMessages
        /\ pending'[1].id = b[1].id + Len(b) - 1
    <3>1. b \in Seq(Item) /\ b # <<>> /\ Rises(b) /\ pending \in Seq(Item) /\ MaxMessages \in Nat \ {0}
      BY <1>4, <1>5
    <3>2. LET t == Feed!Newest(Feed!Reverse(b) \o pending, MaxMessages) IN
          /\ t \in Seq(Item) /\ t # <<>>
          /\ Len(Feed!Reverse(b) \o pending) = Len(b) + Len(pending)
          /\ Len(t) = IF Len(b) + Len(pending) <= MaxMessages THEN Len(b) + Len(pending) ELSE MaxMessages
          /\ t[1].id = b[1].id + Len(b) - 1
      BY <3>1, TopOf
    <3> QED
      BY <2>1, <3>2
  <2>3. /\ feedDropped' \in Nat /\ feedDropped' >= d /\ Len(pending') \in Nat
        /\ Len(b) + Len(pending) > MaxMessages => feedDropped' > 0 /\ Len(pending') = MaxMessages
        /\ ~(Len(b) + Len(pending) > MaxMessages) => Len(pending') = Len(b) + Len(pending)
    <3>1. feedDropped' = d + (Len(b) + Len(pending) - Len(pending'))
      BY <2>1, <2>2
    <3>2. d \in Nat /\ Len(b) \in Nat /\ Len(pending) \in Nat /\ MaxMessages \in Nat
      BY <1>4, <1>5
    <3>3. Len(pending') = IF Len(b) + Len(pending) <= MaxMessages THEN Len(b) + Len(pending) ELSE MaxMessages
      BY <2>2
    <3>4. CASE Len(b) + Len(pending) > MaxMessages
      <4>1. Len(pending') = MaxMessages
        BY <3>2, <3>3, <3>4
      <4> QED
        BY <3>1, <3>2, <3>4, <4>1
    <3>5. CASE ~(Len(b) + Len(pending) > MaxMessages)
      <4>1. Len(pending') = Len(b) + Len(pending)
        BY <3>2, <3>3, <3>5
      <4> QED
        BY <3>1, <3>2, <3>5, <4>1
    <3> QED
      BY <3>4, <3>5
  <2>4. FeedTypes'
    BY <1>1, <1>3, <1>5, <1>6, <2>1, <2>2, <2>3 DEF FeedTypes
  <2>5. CASE d # 0
    BY <1>1, <1>3, <2>3, <2>4, <2>5, ToldLost DEF FeedInv, d
  <2>6. CASE d = 0
    <3>1. Unbroken
      BY <1>3, <2>6 DEF FeedInv, Lost, d
    <3>2. Falls(messages) /\ Falls(pending) /\ (Shows => b[1].id = Top + 1)
      BY <1>1, <2>6, <3>1 DEF Unbroken, b, d
    <3>3. Falls(pending')
      <4>1. pending # <<>> => b[1].id = pending[1].id + 1
        BY <3>2 DEF Shows, Top
      <4> QED
        BY <1>4, <1>5, <2>1, <3>2, <4>1, OnTop
    <3>4. ASSUME messages # <<>>
          PROVE  \/ pending'[1].id = messages[1].id + Len(pending')
                 \/ Len(pending') = MaxMessages /\ feedDropped' > 0
      <4>1. CASE Len(b) + Len(pending) > MaxMessages
        BY <2>3, <4>1
      <4>2. CASE ~(Len(b) + Len(pending) > MaxMessages) /\ pending = <<>>
        <5>1. Len(pending) = 0
          BY <4>2, NoRows, Zenon
        <5>2. b[1].id = messages[1].id + 1
          BY <3>2, <3>4, <4>2 DEF Shows, Top
        <5>3. messages[1].id \in Nat
          BY <1>5, <3>4, IdOf, EmptySeq
        <5> QED
          BY <1>4, <2>2, <2>3, <4>2, <5>1, <5>2, <5>3
      <4>3. CASE ~(Len(b) + Len(pending) > MaxMessages) /\ pending # <<>>
        <5>1. b[1].id = pending[1].id + 1
          BY <3>2, <4>3 DEF Shows, Top
        <5>2. Len(pending) # MaxMessages
          BY <1>4, <1>5, <4>3
        <5>3. pending[1].id = messages[1].id + Len(pending)
          BY <3>1, <3>4, <4>3, <5>2 DEF Unbroken
        <5>4. messages[1].id \in Nat
          BY <1>5, <3>4, IdOf, EmptySeq
        <5> QED
          <6>1. pending'[1].id = pending[1].id + 1 + Len(b) - 1 /\ Len(pending') = Len(b) + Len(pending)
            BY <2>2, <2>3, <4>3, <5>1
          <6>2. Len(b) \in Nat /\ Len(pending) \in Nat
            BY <1>4, <1>5
          <6> QED
            BY SMTT(30), <5>3, <5>4, <6>1, <6>2
      <4> QED
        BY <4>1, <4>2, <4>3
    <3>6. Top' = b[1].id + Len(b) - 1
      BY <2>2 DEF Top
    <3>7. ASSUME flight' # <<>>, flight'[1].dropped = 0
          PROVE  flight'[1].messages[1].id = Top' + 1
      BY <1>3, <1>4, <3>6, <3>7
    <3>8. ASSUME flight' = <<>>, dropped' = 0
          PROVE  Top' = arrived' - Len(buffer')
      <4>1. After(flight[1]) = arrived - Len(buffer) + 1
        BY <1>1, <1>3, <3>8
      <4>2. arrived' = arrived /\ buffer' = buffer /\ Len(buffer) \in Nat
        BY <1>1, FeedFacts
      <4>3. /\ arrived \in Nat /\ Len(buffer) \in Nat /\ b[1].id \in Nat /\ Len(b) \in Nat
            /\ b[1].id + Len(b) = arrived - Len(buffer) + 1
        BY <1>4, <1>5, <4>1, <4>2
      <4>4. arrived' - Len(buffer') = arrived - Len(buffer)
        BY <4>2
      <4> QED
        BY SMTT(30), <3>6, <4>3, <4>4
    <3>9. Unbroken'
      BY <2>1, <3>2, <3>3, <3>4, <3>7, <3>8 DEF Unbroken, Shows, Falls
    <3> QED
      BY <1>3, <2>4, <3>9 DEF FeedInv
  <2> QED
    BY <2>5, <2>6
<1>7. CASE ~feedPaused
  <2>1. /\ messages' = Feed!Newest(Feed!Reverse(b) \o messages, MaxMessages) /\ pending' = pending
        /\ feedDropped' = d /\ pending = <<>>
    BY <1>2, <1>5, <1>7
  <2>2. /\ messages' \in Seq(Item) /\ messages' # <<>>
        /\ messages'[1].id = b[1].id + Len(b) - 1
    <3>1. b \in Seq(Item) /\ b # <<>> /\ Rises(b) /\ messages \in Seq(Item) /\ MaxMessages \in Nat \ {0}
      BY <1>4, <1>5
    <3>2. LET t == Feed!Newest(Feed!Reverse(b) \o messages, MaxMessages) IN
          /\ t \in Seq(Item) /\ t # <<>>
          /\ Len(Feed!Reverse(b) \o messages) = Len(b) + Len(messages)
          /\ Len(t) = IF Len(b) + Len(messages) <= MaxMessages THEN Len(b) + Len(messages) ELSE MaxMessages
          /\ t[1].id = b[1].id + Len(b) - 1
      BY <3>1, TopOf
    <3> QED
      BY <2>1, <3>2
  <2>3. FeedTypes'
    BY <1>1, <1>3, <1>4, <1>5, <1>7, <2>1, <2>2 DEF FeedTypes
  <2>4. CASE d # 0
    BY <1>1, <1>3, <1>4, <2>1, <2>3, <2>4, ToldLost DEF FeedInv, d
  <2>5. CASE d = 0
    <3>1. Unbroken
      BY <1>3, <2>5 DEF FeedInv, Lost, d
    <3>2. Falls(messages) /\ (messages # <<>> => b[1].id = messages[1].id + 1)
      BY <1>1, <2>1, <2>5, <3>1 DEF Unbroken, Shows, Top, b, d
    <3>3. Falls(messages')
      BY <1>4, <1>5, <2>1, <3>2, OnTop
    <3>4. Falls(pending')
      BY <2>1, <3>1 DEF Unbroken, Falls
    <3>5. Top' = b[1].id + Len(b) - 1
      BY <2>1, <2>2 DEF Top
    <3>6. ASSUME flight' # <<>>, flight'[1].dropped = 0
          PROVE  flight'[1].messages[1].id = Top' + 1
      BY <1>3, <1>4, <3>5, <3>6
    <3>7. ASSUME flight' = <<>>, dropped' = 0
          PROVE  Top' = arrived' - Len(buffer')
      <4>1. After(flight[1]) = arrived - Len(buffer) + 1
        BY <1>1, <1>3, <3>7
      <4>2. arrived' = arrived /\ buffer' = buffer /\ Len(buffer) \in Nat
        BY <1>1, FeedFacts
      <4>3. /\ arrived \in Nat /\ Len(buffer) \in Nat /\ b[1].id \in Nat /\ Len(b) \in Nat
            /\ b[1].id + Len(b) = arrived - Len(buffer) + 1
        BY <1>4, <1>5, <4>1, <4>2
      <4>4. arrived' - Len(buffer') = arrived - Len(buffer)
        BY <4>2
      <4> QED
        BY SMTT(30), <3>5, <4>3, <4>4
    <3>8. Unbroken'
      BY <2>1, <3>3, <3>4, <3>6, <3>7 DEF Unbroken, Shows
    <3> QED
      BY <1>3, <2>3, <3>8 DEF FeedInv
  <2> QED
    BY <2>4, <2>5
<1> QED
  BY <1>5, <1>6, <1>7

\* What was held back goes on top of the list.  If it does not continue the list, it fills it.
LEMMA PauseKeeps ==
    ASSUME FeedInv, Feed!togglePaused
    PROVE  FeedInv'
<1>1. /\ feedPaused' = ~feedPaused /\ UNCHANGED <<arrived, buffer, dropped, flight, feedDropped>>
      /\ IF feedPaused THEN messages' = Feed!Newest(pending \o messages, MaxMessages) /\ pending' = <<>>
                       ELSE UNCHANGED <<messages, pending>>
  BY DEF Feed!togglePaused, Feed!resumeFeed, Feed!backend
<1>2. /\ messages \in Seq(Item) /\ pending \in Seq(Item) /\ MaxMessages \in Nat \ {0}
      /\ Len(messages) \in Nat /\ Len(pending) \in Nat /\ feedPaused \in BOOLEAN
      /\ ~feedPaused => pending = <<>>
  BY FeedFacts, ListsAssumption DEF FeedInv, FeedTypes
<1>3. Staged' /\ Emitted' /\ (Lost => Lost')
  BY <1>1 DEF FeedInv, Staged, Emitted, Lost
<1>4. CASE ~feedPaused
  <2>1. UNCHANGED <<messages, pending>> /\ feedPaused' = TRUE
    BY <1>1, <1>2, <1>4
  <2>2. FeedTypes'
    BY <1>1, <2>1 DEF FeedInv, FeedTypes
  <2>3. Unbroken => Unbroken'
    BY <1>1, <2>1 DEF Unbroken, Falls, Shows, Top
  <2> QED
    BY <1>3, <2>2, <2>3 DEF FeedInv
<1>5. CASE feedPaused
  <2> DEFINE m == pending \o messages
             t == Feed!Newest(m, MaxMessages)
  <2>1. messages' = t /\ pending' = <<>> /\ feedPaused' = FALSE
    BY <1>1, <1>2, <1>5
  <2>2. /\ m \in Seq(Item) /\ Len(m) = Len(pending) + Len(messages)
        /\ \A i \in 1 .. Len(pending) + Len(messages) :
              m[i] = IF i <= Len(pending) THEN pending[i] ELSE messages[i - Len(pending)]
    BY <1>2, JoinOf
  <2>3. /\ t \in Seq(Item) /\ Len(t) = IF Len(m) <= MaxMessages THEN Len(m) ELSE MaxMessages
        /\ \A i \in 1 .. Len(t) : t[i] = m[i]
    <3> HIDE DEF m
    <3> QED
      BY <1>2, <2>2, NewestOf
  <2> HIDE DEF m, t
  <2>4. FeedTypes'
    BY <1>1, <2>1, <2>3, EmptySeq DEF FeedInv, FeedTypes
  <2>5. ASSUME Unbroken PROVE Unbroken'
    <3>1. Falls(messages) /\ Falls(pending)
      BY <2>5 DEF Unbroken
    <3>2. Len(t) \in Nat
      BY <2>3, LenProperties
    <3>3. CASE Len(t) = 0
      <4>1. Len(m) = 0 /\ Len(pending) = 0 /\ Len(messages) = 0
        <5>1. Len(m) = Len(pending) + Len(messages) /\ Len(m) \in Nat
          BY <1>2, <2>2
        <5>2. Len(m) = 0
          BY <1>2, <2>3, <3>3, <5>1
        <5>3. Len(pending) \in Nat /\ Len(messages) \in Nat
          BY <1>2
        <5>4. Len(pending) + Len(messages) = 0
          BY <5>1, <5>2
        <5>5. Len(pending) = 0
          BY <5>3, <5>4
        <5>6. Len(messages) = 0
          BY <5>3, <5>4
        <5> QED
          BY <5>2, <5>5, <5>6, Zenon
      <4>2. pending = <<>> /\ messages = <<>> /\ t = <<>>
        BY <1>2, <2>3, <3>3, <4>1, EmptySeq
      <4> QED
        BY <1>1, <2>1, <2>5, <4>2 DEF Unbroken, Falls, Shows, Top
    <3>4. CASE Len(t) # 0
      <4>1. t # <<>> /\ 1 \in 1 .. Len(t)
        BY <3>2, <3>4, NoRows
      <4>2. Shows /\ t[1].id = Top
        <5>1. t[1] = m[1] /\ 1 \in 1 .. Len(pending) + Len(messages)
          BY <1>2, <2>2, <2>3, <4>1
        <5>2. CASE pending = <<>>
          <6>1. Len(pending) = 0 /\ messages # <<>>
            BY <1>2, <5>1, <5>2, NoRows
          <6>2. m[1] = messages[1]
            BY <1>2, <2>2, <5>1, <6>1
          <6> QED
            BY <5>1, <5>2, <6>1, <6>2 DEF Shows, Top
        <5>3. CASE pending # <<>>
          <6>1. Len(pending) >= 1
            BY <1>2, <5>3, EmptySeq
          <6>2. m[1] = pending[1]
            BY <1>2, <2>2, <5>1, <6>1
          <6> QED
            BY <5>1, <5>3, <6>2 DEF Shows, Top
        <5> QED
          BY <5>2, <5>3
      <4>3. ASSUME NEW i \in 1 .. Len(t)
            PROVE  t[i].id = t[1].id + 1 - i
        <5>1. /\ t[i] = m[i] /\ i \in 1 .. Len(pending) + Len(messages) /\ i <= MaxMessages /\ i \in Nat
          BY <1>2, <2>2, <2>3
        <5>2. CASE i <= Len(pending)
          <6>1. m[i] = pending[i] /\ i \in 1 .. Len(pending) /\ pending # <<>>
            BY <1>2, <2>2, <5>1, <5>2, NoRows
          <6>2. pending[i].id = pending[1].id + 1 - i
            BY <3>1, <6>1 DEF Falls
          <6> QED
            BY <4>2, <5>1, <6>1, <6>2 DEF Top
        <5>3. CASE ~(i <= Len(pending))
          <6>1. m[i] = messages[i - Len(pending)] /\ i - Len(pending) \in 1 .. Len(messages)
            BY <1>2, <2>2, <5>1, <5>3
          <6>2. messages # <<>> /\ 1 \in 1 .. Len(messages)
            BY <1>2, <6>1, NoRows
          <6>3. messages[i - Len(pending)].id = messages[1].id + 1 - (i - Len(pending)) /\ messages[1].id \in Nat
            BY <1>2, <3>1, <6>1, <6>2, IdOf DEF Falls
          <6>4. CASE pending = <<>>
            <7>1. Len(pending) = 0 /\ Top = messages[1].id
              BY <6>4, NoRows DEF Top
            <7> QED
              BY <4>2, <5>1, <6>1, <6>3, <7>1
          <6>5. CASE pending # <<>>
            <7>1. Len(pending) # MaxMessages
              BY <1>2, <5>1, <5>3
            <7>2. pending[1].id = messages[1].id + Len(pending) /\ Top = pending[1].id
              BY <2>5, <6>2, <6>5, <7>1 DEF Unbroken, Top
            <7> QED
              BY <1>2, <4>2, <5>1, <6>1, <6>3, <7>2
          <6> QED
            BY <6>4, <6>5
        <5> QED
          BY <5>2, <5>3
      <4>4. Falls(pending')
        BY <2>1, NoRows DEF Falls
      <4> QED
        BY <1>1, <2>1, <2>5, <4>1, <4>2, <4>3, <4>4 DEF Unbroken, Shows, Top, Falls
    <3> QED
      BY <3>3, <3>4
  <2> QED
    BY <1>3, <2>4, <2>5 DEF FeedInv
<1> QED
  BY <1>2, <1>4, <1>5

\* A list that is cleared has no hole; what is held back stays.
LEMMA ClearKeeps ==
    ASSUME FeedInv, Feed!clearMessages
    PROVE  FeedInv'
<1>1. /\ UNCHANGED <<arrived, buffer, dropped, flight, pending, feedPaused, feedDropped>>
      /\ messages' = <<>> \/ messages' = messages
  BY DEF Feed!clearMessages, Feed!backend
<1>2. FeedTypes' /\ Staged' /\ Emitted' /\ (Lost => Lost')
  BY <1>1, EmptySeq DEF FeedInv, FeedTypes, Staged, Emitted, Lost
<1>3. Unbroken => Unbroken'
  <2>1. CASE messages' = messages
    BY <1>1, <2>1 DEF Unbroken, Falls, Shows, Top
  <2>2. CASE messages' = <<>>
    <3>1. Falls(messages')
      BY <2>2, NoRows DEF Falls
    <3> QED
      BY <1>1, <2>2, <3>1 DEF Unbroken, Falls, Shows, Top
  <2> QED
    BY <1>1, <2>1, <2>2
<1> QED
  BY <1>2, <1>3 DEF FeedInv

\* The filter, the comparison and the tools leave the feed as it is.
FeedStill == UNCHANGED <<arrived, buffer, dropped, flight, messages, pending, feedPaused, feedDropped>>

LEMMA ToolsLeave ==
    /\ \A t \in Feed!Texts : Feed!setSearch(t) => FeedStill
    /\ \A d \in {"all", "in", "out"} : Feed!setDirection(d) => FeedStill
    /\ \A i \in DOMAIN filterPresets : Feed!removePreset(i) => FeedStill
    /\ \A m \in Feed!Range(Feed!filteredMessages) : Feed!pick(m) => FeedStill
    /\ \A ok \in BOOLEAN : Feed!ClearedOne(ok) => FeedStill
<1>1. \A t \in Feed!Texts : Feed!setSearch(t) => FeedStill
  BY Zenon DEF Feed!setSearch, FeedStill, Feed!feed, Feed!backend
<1>2. \A d \in {"all", "in", "out"} : Feed!setDirection(d) => FeedStill
  BY Zenon DEF Feed!setDirection, FeedStill, Feed!feed, Feed!backend
<1>3. \A i \in DOMAIN filterPresets : Feed!removePreset(i) => FeedStill
  BY Zenon DEF Feed!removePreset, FeedStill, Feed!feed, Feed!backend
<1>4. \A m \in Feed!Range(Feed!filteredMessages) : Feed!pick(m) => FeedStill
  BY Zenon DEF Feed!pick, FeedStill, Feed!feed, Feed!backend
<1>5. \A ok \in BOOLEAN : Feed!ClearedOne(ok) => FeedStill
  BY Zenon DEF Feed!ClearedOne, FeedStill, Feed!feed, Feed!backend
<1> QED
  BY <1>1, <1>2, <1>3, <1>4, <1>5, Zenon

LEMMA ButtonsLeave ==
    /\ Feed!clearFilter \/ Feed!savePreset \/ Feed!toggleCompare => FeedStill
    /\ Feed!Timeout \/ Feed!toggleRetained \/ Feed!handleClearRetained => FeedStill
    /\ Feed!handleExport \/ Feed!Exported => FeedStill
<1>1. Feed!clearFilter => FeedStill
  BY Zenon DEF Feed!clearFilter, FeedStill, Feed!feed, Feed!backend
<1>2. Feed!savePreset => FeedStill
  BY Zenon DEF Feed!savePreset, FeedStill, Feed!feed, Feed!backend
<1>3. Feed!toggleCompare => FeedStill
  BY Zenon DEF Feed!toggleCompare, FeedStill, Feed!feed, Feed!backend
<1>4. Feed!Timeout => FeedStill
  BY Zenon DEF Feed!Timeout, FeedStill, Feed!feed, Feed!backend
<1>5. Feed!toggleRetained => FeedStill
  BY Zenon DEF Feed!toggleRetained, FeedStill, Feed!feed, Feed!backend
<1>6. Feed!handleClearRetained => FeedStill
  BY Zenon DEF Feed!handleClearRetained, FeedStill, Feed!feed, Feed!backend
<1>7. Feed!handleExport => FeedStill
  BY Zenon DEF Feed!handleExport, FeedStill, Feed!feed, Feed!backend
<1>8. Feed!Exported => FeedStill
  BY Zenon DEF Feed!Exported, FeedStill, Feed!feed, Feed!backend
<1> QED
  BY <1>1, <1>2, <1>3, <1>4, <1>5, <1>6, <1>7, <1>8, Zenon

LEMMA StillKeeps ==
    ASSUME FeedInv, FeedStill
    PROVE  FeedInv'
BY DEF FeedInv, FeedStill, FeedTypes, Staged, Emitted, Lost, Unbroken, Falls, Rises, Shows, Top, After

-----------------------------------------------------------------------------
(* The feed as a part of the desk                                          *)

LEMMA FeedInit ==
    ASSUME Feed!Init
    PROVE  FeedInv
<1>1. /\ arrived = 0 /\ buffer = <<>> /\ dropped = 0 /\ flight = <<>>
      /\ messages = <<>> /\ pending = <<>> /\ feedPaused = FALSE /\ feedDropped = 0
  BY Zenon DEF Feed!Init
<1>2. FeedTypes
  BY <1>1, EmptySeq DEF FeedTypes
<1>3. Staged /\ Emitted /\ Unbroken
  BY <1>1 DEF Staged, Emitted, Unbroken, Falls, Shows
<1> QED
  BY <1>2, <1>3 DEF FeedInv

LEMMA FeedStep ==
    ASSUME FeedInv, Feed!Next
    PROVE  FeedInv'
<1>1. ASSUME NEW k \in MessageKinds, Feed!push_feed(k) PROVE FeedInv'
  BY <1>1, PushKeeps
<1>2. CASE Feed!flush_feed
  BY <1>2, FlushKeeps
<1>3. CASE Feed!OnBatch
  BY <1>3, OnBatchKeeps
<1>4. CASE Feed!togglePaused
  BY <1>4, PauseKeeps
<1>5. CASE Feed!clearMessages
  BY <1>5, ClearKeeps
<1>6. CASE FeedStill
  BY <1>6, StillKeeps
<1>7. \/ \E k \in MessageKinds : Feed!push_feed(k)
      \/ Feed!flush_feed \/ Feed!OnBatch \/ Feed!togglePaused \/ Feed!clearMessages
      \/ FeedStill
  BY ToolsLeave, ButtonsLeave, Zenon DEF Feed!Next
<1> QED
  BY <1>1, <1>2, <1>3, <1>4, <1>5, <1>6, <1>7, Zenon

\* A list with a hole comes with the notice.
LEMMA FeedTold ==
    ASSUME FeedInv
    PROVE  Feed!GapIsTold
<1> DEFINE h == pending \o messages
<1>1. SUFFICES ASSUME NEW i \in 1 .. Len(h) - 1, h[i].id # h[i + 1].id + 1
               PROVE  feedDropped > 0
  <2>1. feedDropped > 0 => "dropped" \in Feed!Notices
    BY DEF Feed!Notices
  <2> QED
    BY <2>1, Zenon DEF Feed!GapIsTold
<1>2. CASE Lost
  BY <1>2 DEF Lost
<1>3. CASE Unbroken
  <2>1. /\ messages \in Seq(Item) /\ pending \in Seq(Item)
        /\ Len(messages) \in Nat /\ Len(pending) \in Nat
    BY FeedFacts DEF FeedInv, FeedTypes
  <2>2. /\ Len(h) = Len(pending) + Len(messages)
        /\ \A j \in 1 .. Len(pending) + Len(messages) :
              h[j] = IF j <= Len(pending) THEN pending[j] ELSE messages[j - Len(pending)]
    BY <2>1, JoinOf
  <2> HIDE DEF h
  <2>3. i \in Nat /\ i >= 1 /\ i + 1 <= Len(pending) + Len(messages)
    BY <2>1, <2>2
  <2>4. CASE i + 1 <= Len(pending)
    <3>1. h[i] = pending[i] /\ h[i + 1] = pending[i + 1]
      BY <2>1, <2>2, <2>3, <2>4
    <3>2. i \in 1 .. Len(pending) /\ i + 1 \in 1 .. Len(pending) /\ 1 \in 1 .. Len(pending)
      BY <2>1, <2>3, <2>4
    <3>3. pending[i].id = pending[1].id + 1 - i /\ pending[i + 1].id = pending[1].id + 1 - (i + 1)
      BY <1>3, <3>2 DEF Unbroken, Falls
    <3>4. pending[1].id \in Nat
      BY <2>1, <3>2, IdOf
    <3> QED
      BY <1>1, <2>3, <3>1, <3>3, <3>4
  <2>5. CASE i > Len(pending)
    <3>1. h[i] = messages[i - Len(pending)] /\ h[i + 1] = messages[i + 1 - Len(pending)]
      BY <2>1, <2>2, <2>3, <2>5
    <3>2. /\ i - Len(pending) \in 1 .. Len(messages) /\ i + 1 - Len(pending) \in 1 .. Len(messages)
          /\ 1 \in 1 .. Len(messages)
      BY <2>1, <2>3, <2>5
    <3>3. /\ messages[i - Len(pending)].id = messages[1].id + 1 - (i - Len(pending))
          /\ messages[i + 1 - Len(pending)].id = messages[1].id + 1 - (i + 1 - Len(pending))
      BY <1>3, <3>2 DEF Unbroken, Falls
    <3>4. messages[1].id \in Nat
      BY <2>1, <3>2, IdOf
    <3> QED
      BY SMTT(30), <1>1, <2>1, <2>3, <3>1, <3>3, <3>4
  <2>6. CASE i = Len(pending)
    <3>1. h[i] = pending[i] /\ h[i + 1] = messages[1]
      BY <2>1, <2>2, <2>3, <2>6
    <3>2. i \in 1 .. Len(pending) /\ 1 \in 1 .. Len(messages)
      BY <2>1, <2>3, <2>6
    <3>3. pending # <<>> /\ messages # <<>>
      BY <3>2, NoRows
    <3>4. pending[i].id = pending[1].id + 1 - i
      BY <1>3, <3>2 DEF Unbroken, Falls
    <3>5. messages[1].id \in Nat
      BY <2>1, <3>2, IdOf
    <3>6. pending[1].id = messages[1].id + Len(pending) \/ feedDropped > 0
      BY <1>3, <3>3 DEF Unbroken
    <3> QED
      BY <1>1, <2>1, <2>6, <3>1, <3>4, <3>5, <3>6
  <2> QED
    BY <2>1, <2>3, <2>4, <2>5, <2>6
<1> QED
  BY <1>2, <1>3 DEF FeedInv

\* A step of another part leaves the feed closed.
LEMMA FeedMoves ==
    ASSUME ListsStep
    PROVE  part' = part /\ (part = "feed" => Feed!Next)
BY Zenon DEF ListsStep, ListsNext, ListsParts

\* Of these parts alone: see HolesAreTold in Desk_proofs.
LEMMA HolesAreToldInLists ==
    ListsSpec => []GapIsTold
<1> DEFINE Holds == part = "feed" => FeedInv
<1>1. ListsInit => Holds
  BY FeedInit DEF ListsInit
<1>2. Holds /\ [ListsStep]_<<part, clicks, listVars>> => Holds'
  <2>1. CASE UNCHANGED <<part, clicks, listVars>>
    BY <2>1, StillKeeps DEF listVars, feed, FeedStill
  <2> QED
    BY <2>1, FeedStep, FeedMoves
<1>3. Holds => GapIsTold
  BY FeedTold DEF GapIsTold
<1> QED
  BY <1>1, <1>2, <1>3, PTL DEF ListsSpec
=============================================================================
