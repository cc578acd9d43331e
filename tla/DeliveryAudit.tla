--------------------------- MODULE DeliveryAudit ---------------------------
(***************************************************************************)
(* The delivery audit of the rows on the history page (utils/deliveryAudit *)
(* shown by DeliveryAuditCard): a publisher numbers what it sends, and the *)
(* audit tells from the stored numbers what is missing, came twice or came *)
(* late, and how long it took.                                             *)
(*                                                                         *)
(* The way from the publisher to the archive is external: a message may be *)
(* lost, come again, be overtaken, or be stored in a form nobody can read. *)
(***************************************************************************)
EXTENDS Integers, Sequences, FiniteSets, SequencesExt, FiniteSetsExt

CONSTANTS
    Topics,     \* how many topics there are; they are numbers, listed in this order
    Limits,     \* how many rows the list may show
    Ahead,      \* how far the publishers' clock is ahead of ours
    ListCap,    \* listCap (200): the missing numbers that are listed
    Forms,      \* the forms a copy may have: "dated", "numbered", "truncated" or "other"
    MaxSent,    \* bound: messages of all publishers
    MaxStored,  \* bound: rows of the archive
    MaxClock,   \* bound: milliseconds
    MaxClicks   \* bound: what the user does

VARIABLES
    clock,
    sent,       \* when each publisher sent what it numbered
    stored,     \* the archive, in the order it was written
    rows,       \* the list, newest first
    run,        \* what is audited, as a sequence of at most one
    clicks

vars == <<clock, sent, stored, rows, run, clicks>>

None == <<>>
Topic == 1 .. Topics

-----------------------------------------------------------------------------
(* Lists                                                                   *)

\* The numbers of a set, in ascending order; and the members of a list that stand at these places.
Ascending(S) == CHOOSE s \in [1 .. Cardinality(S) -> S] : \A i, j \in DOMAIN s : i < j => s[i] < s[j]
At(list, S) == LET order == Ascending(S) IN [n \in DOMAIN order |-> list[order[n]]]

\* A list by its keys; those of one key stay as they are listed.
Place(keys, i) == Cardinality({j \in DOMAIN keys : keys[j] < keys[i] \/ (keys[j] = keys[i] /\ j <= i)})
SortedBy(list, keys) == [n \in DOMAIN list |-> list[CHOOSE i \in DOMAIN list : Place(keys, i) = n]]

-----------------------------------------------------------------------------
(* The audit of one topic                                                  *)

\* A row has a number if it is whole, a document, and holds an integer at the path; it has a time
\* if there is a number at the other path as well.
Usable(r) == r.form \in {"dated", "numbered"}
Dated(r) == r.form = "dated"
Truncated(r) == r.form = "truncated"

Read(list) == At(list, {i \in DOMAIN list : Usable(list[i])})
\* Variant: the rows are taken as they are listed.
SamplesAsListed(list) == Read(list)
\* By time; rows of one instant stay as they are listed.
Samples(list) == LET us == Read(list) IN SortedBy(us, [i \in DOMAIN us |-> us[i].ts])

percentile(sorted, q) ==
    IF sorted = <<>> THEN None ELSE <<sorted[(q * (Len(sorted) - 1) + 50) \div 100 + 1]>>

\* What was late: its number is below one that was seen before.
OutOfOrder(samples) == Cardinality({i \in DOMAIN samples : \E j \in 1 .. i - 1 : samples[j].seq > samples[i].seq})

\* Of the samples that say when they were sent; a negative time is a disagreement of the clocks.
Latency(samples, timed) ==
    LET dated == IF timed THEN At(samples, {i \in DOMAIN samples : Dated(samples[i])}) ELSE <<>>
        took == [i \in DOMAIN dated |-> dated[i].ts - dated[i].sentAt]
        skewed == {i \in DOMAIN took : took[i] < 0}
        measured == At(took, DOMAIN took \ skewed)
        sorted == SortedBy(measured, measured)
    IN  [reason |-> IF ~timed THEN "noTimePath" ELSE IF sorted = <<>> THEN "noSamples" ELSE "none",
         p50 |-> percentile(sorted, 50), p95 |-> percentile(sorted, 95),
         max |-> IF sorted = <<>> THEN None ELSE <<sorted[Len(sorted)]>>,
         clockSkew |-> Cardinality(skewed), samples |-> Len(sorted)]

auditOne(topic, list, timed) ==
    LET samples == Samples(list)
        of(n) == {i \in DOMAIN samples : samples[i].seq = n}
        times(n) == {samples[i].ts : i \in of(n)}
        uniq == {samples[i].seq : i \in DOMAIN samples}
        gone == IF uniq = {} THEN {} ELSE Min(uniq) .. Max(uniq) \ uniq
        unusable == {i \in DOMAIN list : ~Usable(list[i])}
        span == IF samples = <<>> THEN {0} ELSE samples[1].ts .. samples[Len(samples)].ts
        jumps == {n - Max({m \in uniq : m < n}) : n \in {k \in uniq : k > Min(uniq)}}
    IN  [topic |-> topic, rowsScanned |-> Len(list), usable |-> Len(samples), unusable |-> Cardinality(unusable),
         truncated |-> Cardinality({i \in DOMAIN list : Truncated(list[i])}),
         unusableInSpan |-> Cardinality({i \in unusable : list[i].ts \in span}),
         first |-> IF uniq = {} THEN None ELSE <<Min(uniq)>>, last |-> IF uniq = {} THEN None ELSE <<Max(uniq)>>,
         missing |-> SubSeq(Ascending(gone), 1, Min({ListCap, Cardinality(gone)})), missingCount |-> Cardinality(gone),
         expected |-> IF uniq = {} THEN None ELSE <<Max(uniq) - Min(uniq) + 1>>,
         duplicates |-> {[seq |-> n, count |-> Cardinality(of(n)), firstTs |-> Min(times(n)), lastTs |-> Max(times(n))] :
                            n \in {k \in uniq : Cardinality(of(k)) > 1}},
         outOfOrder |-> OutOfOrder(samples), maxJump |-> IF jumps = {} THEN None ELSE <<Max(jumps)>>,
         latency |-> Latency(samples, timed)]

\* Every topic of the list by itself; who has most to say comes first.
OfTopic(list, t) == At(list, {i \in DOMAIN list : list[i].topic = t})
auditDelivery(list, timed) ==
    LET topics == Ascending({list[i].topic : i \in DOMAIN list})
        audits == [k \in DOMAIN topics |-> auditOne(topics[k], OfTopic(list, topics[k]), timed)]
    IN  SortedBy(audits, [k \in DOMAIN audits |-> -audits[k].usable])

-----------------------------------------------------------------------------
(* The card                                                                *)

audits == IF run = None THEN <<>> ELSE auditDelivery(rows, run[1].timed)

\* A topic without a number has nothing to say.
Speaking(all) == At(all, {k \in DOMAIN all : all[k].usable > 0})
auditable == Speaking(audits)

Click == clicks < MaxClicks /\ clicks' = clicks + 1

start(timed) ==
    /\ Click /\ run' = <<[timed |-> timed]>>
    /\ UNCHANGED <<clock, sent, stored, rows>>

-----------------------------------------------------------------------------
(* Where the rows come from                                                *)

Publish(t) ==
    /\ Cardinality(UNION {{x} \X DOMAIN sent[x] : x \in Topic}) < MaxSent
    /\ sent' = [sent EXCEPT ![t] = Append(@, clock + Ahead)]
    /\ UNCHANGED <<clock, stored, rows, run, clicks>>

\* A copy of a message is stored, in the form it came in: now, later, again, or never.
Arrive(t, n, form) ==
    /\ Len(stored) < MaxStored
    /\ stored' = Append(stored, [topic |-> t, ts |-> clock, seq |-> n, sentAt |-> sent[t][n], form |-> form])
    /\ UNCHANGED <<clock, sent, rows, run, clicks>>

Tick == clock < MaxClock /\ clock' = clock + 1 /\ UNCHANGED <<sent, stored, rows, run, clicks>>

\* The newest rows: by time, those of one instant by when they were written, both downwards.
query_history(limit) ==
    /\ Click /\ rows' = SubSeq(Reverse(stored), 1, Min({limit, Len(stored)}))
    /\ UNCHANGED <<clock, sent, stored, run>>

Init ==
    /\ clock = 1 /\ sent = [t \in Topic |-> <<>>]
    /\ stored = <<>> /\ rows = <<>> /\ run = None /\ clicks = 0

Next ==
    \/ \E t \in Topic : Publish(t) \/ \E n \in DOMAIN sent[t], form \in Forms : Arrive(t, n, form)
    \/ \E limit \in Limits : query_history(limit)
    \/ \E timed \in BOOLEAN : start(timed)
    \/ Tick

Spec == Init /\ [][Next]_vars

-----------------------------------------------------------------------------
\* The readable rows of a topic, in the order they came.
Came(t) ==
    LET came == Reverse(rows)
    IN  At(came, {i \in DOMAIN came : came[i].topic = t /\ Usable(came[i])})

\* How many came after one with a higher number.
Late(came) == Cardinality({i \in DOMAIN came : \E j \in 1 .. i - 1 : came[j].seq > came[i].seq})

Apart(came) == \A i, j \in DOMAIN came : came[i].ts = came[j].ts => i = j

\* The copies of a number after the first.
Extra(duplicates) == UNION {{d.seq} \X (2 .. d.count) : d \in duplicates}

\* What an audit says of a topic, and the readable rows that came.
Tells(a, came) ==
    LET held == {came[i].seq : i \in DOMAIN came}
    IN  /\ \A i \in DOMAIN a.missing : a.missing[i] \in DOMAIN sent[a.topic] /\ a.missing[i] \notin held
        /\ Cardinality(held) + a.missingCount = a.expected[1]
        /\ a.usable = Cardinality(held) + Cardinality(Extra(a.duplicates))
        /\ a.usable + a.unusable = Cardinality({i \in DOMAIN rows : rows[i].topic = a.topic})
        /\ run[1].timed => a.latency.samples + a.latency.clockSkew = Cardinality({i \in DOMAIN came : Dated(came[i])})
        /\ Apart(came) => a.outOfOrder = Late(came)

(* The audit accuses nobody: what it calls missing was numbered by the     *)
(* publisher and no readable row has it; what it calls twice is there that *)
(* often; the sums agree (held once + missing = expected); every row is    *)
(* accounted for; the time of every readable row that has one is a latency *)
(* or a disagreement of the clocks, the others are in neither;             *)
(* and of messages that came in different milliseconds it calls late those *)
(* that were overtaken (deliveryAudit.ts: "Answers did everything arrive,  *)
(* in order, exactly once").                                               *)
AuditTells == LET cards == auditable IN \A k \in DOMAIN cards : Tells(cards[k], Came(cards[k].topic))
=============================================================================
