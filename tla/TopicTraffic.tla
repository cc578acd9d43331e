---------------------------- MODULE TopicTraffic ----------------------------
(***************************************************************************)
(* The traffic table of the console: the backend's counters per topic      *)
(* (mqtt_manager.rs), the poll that copies them into the front end         *)
(* (useTopicStats.ts), and the list, the tree and the device cards drawn   *)
(* from the copy (topicTree.ts, TopicTrafficPanel.tsx, TopicTreePanel.tsx, *)
(* DevicePanel.tsx).  A topic is a sequence of segments, a segment a       *)
(* number, so that paths have an order, with 0 for the empty one: a topic  *)
(* with a leading slash starts with it.  Bytes follow messages and are     *)
(* left out.                                                               *)
(***************************************************************************)
EXTENDS Integers, Sequences, FiniteSets, SequencesExt, FiniteSetsExt

CONSTANTS
    Topic,       \* topics that carry traffic
    Caps,        \* values of the tracking cap the panel offers
    MaxVisible,  \* MAX_VISIBLE_ROWS (80)
    MaxNodes,    \* MAX_RENDERED_NODES (300)
    SeriesCap,   \* SERIES_CAP (60)
    StaleAfter,  \* seconds after which a card counts as silent (60)
    Depths,      \* grouping levels of the device cards
    MaxSeconds,  \* bound on the clock
    MaxMessages, \* bound on the messages of a behaviour
    MaxClicks    \* bound on what the user does

VARIABLES
    clock,    \* seconds
    stats,    \* topic_stats: counters of the tracked topics
    tableCap, \* topic_stats_cap of the backend
    cap,      \* the cap as the panel has it
    closure,  \* the cap the polling effect was created with
    flight,   \* answers of polls under way
    rows, series,    \* what the last answer left in the front end
    clearing, \* resets the backend has done and the front end has not heard of
    snapshot, needle, open, \* the panel: snapshot, topics the filter matches, open branches
    clicks

panel == <<snapshot, needle, open, clicks>>
vars == <<clock, stats, tableCap, cap, closure, flight, rows, series, clearing, panel>>

None == <<>>

----------------------------------------------------------------------------
(* The backend's counters.                                                 *)

Fresh == [count |-> 0, window |-> 0, second |-> 0, prev |-> 0, peak |-> 0, seen |-> 0]

\* The topics that make room for a new one: the least recently active tenth, one at least.
Victims(tracked) ==
    IF Cardinality(DOMAIN tracked) < tableCap THEN {}
    ELSE LET older(a, b) == tracked[a].seen < tracked[b].seen
             n == Max({tableCap \div 10, 1})
         IN  ToSet(SubSeq(SetToSortSeq(DOMAIN tracked, older), 1, n))

Roll(e) ==
    IF e.second = clock THEN e
    ELSE [e EXCEPT !.peak = Max({@, e.window}), !.prev = e.window, !.window = 0, !.second = clock]

record_topic(t) ==
    LET kept == DOMAIN stats \ (IF t \in DOMAIN stats THEN {} ELSE Victims(stats))
        e == Roll(IF t \in DOMAIN stats THEN stats[t] ELSE Fresh)
    IN  /\ FoldFunction(LAMBDA x, n : x.count + n, 0, stats) < MaxMessages
        /\ stats' = [x \in kept \cup {t} |->
                        IF x = t THEN [e EXCEPT !.count = @ + 1, !.window = @ + 1, !.seen = clock]
                        ELSE stats[x]]
        /\ UNCHANGED <<clock, tableCap, cap, closure, flight, rows, series, clearing, panel>>

\* Two quiet seconds and the rate is shown as zero.
Row(e) == [count |-> e.count, rate |-> IF clock - e.second <= 2 THEN e.prev ELSE 0,
           peak |-> e.peak, seen |-> e.seen]

get_topic_stats == [t \in DOMAIN stats |-> Row(stats[t])]

----------------------------------------------------------------------------
(* The tree built from a copy of the counters.                             *)

\* The index starts with the root under the empty path: so a leading empty segment has no node of
\* its own, and what follows it hangs under the root at its own depth.
Root == <<>>
Blank == 0
Path(t, i) == IF i = 1 /\ t[1] = Blank THEN Root ELSE SubSeq(t, 1, i)
Nodes(table) == UNION {{Path(t, i) : i \in 1 .. Len(t)} : t \in DOMAIN table} \ {Root}

Children(nodes, p) == {n \in nodes : Path(n, Len(n) - 1) = p}

EmptyAgg == [count |-> 0, rate |-> 0, peak |-> 0, seen |-> 0, topics |-> 0]

Join(a, b) == [count |-> a.count + b.count, rate |-> a.rate + b.rate, peak |-> Max({a.peak, b.peak}),
               seen |-> Max({a.seen, b.seen}), topics |-> a.topics + b.topics]

Own(table, p) ==
    IF p \notin DOMAIN table THEN EmptyAgg
    ELSE [count |-> table[p].count, rate |-> table[p].rate, peak |-> table[p].peak,
          seen |-> table[p].seen, topics |-> 1]

aggregate(table) ==
    LET nodes == Nodes(table)
        agg[p \in nodes \cup {Root}] ==
            FoldSet(LAMBDA c, acc : Join(agg[c], acc), Own(table, p), Children(nodes, p))
    IN  agg

\* Siblings in the order of their names, each branch before the next.
PathLess(a, b) ==
    \/ IsStrictPrefix(a, b)
    \/ \E i \in 1 .. Min({Len(a), Len(b)}) :
          a[i] < b[i] /\ \A j \in 1 .. i - 1 : a[j] = b[j]

flattenTree(table, isOpen) ==
    LET seen == {n \in Nodes(table) : \A i \in 1 .. Len(n) - 1 : Path(n, i) \in isOpen \cup {Root}}
    IN  SetToSortSeq(seen, PathLess)

\* A node deeper than the level, under the root, is neither taken nor walked.
nodesAtDepth(table, depth) ==
    LET nodes == Nodes(table)
        target == Max({1, depth})
    IN  {n \in nodes : Len(n) = target \/ (Len(n) < target /\ Children(nodes, n) = {})}

leafPaths(table, p) ==
    {n \in Nodes(table) : IsPrefix(p, n) /\ Children(Nodes(table), n) = {}}

\* Series are aligned on their newest samples.
sumSeries(list) ==
    LET n == Max({0} \cup {Len(s) : s \in Range(list)})
        At(s, i) == IF i > n - Len(s) THEN s[i - (n - Len(s))] ELSE 0
    IN  [i \in 1 .. n |-> FoldFunction(LAMBDA s, acc : At(s, i) + acc, 0, list)]

\* Variant: a topic that has left the table keeps the tail it had.
sampleRatesKeeping(prev, table) ==
    [t \in DOMAIN table \cup DOMAIN prev |->
        LET tail == IF t \in DOMAIN prev THEN prev[t] ELSE <<>>
            s == IF t \in DOMAIN table THEN Append(tail, table[t].rate) ELSE tail
        IN  SubSeq(s, Max({1, Len(s) - SeriesCap + 1}), Len(s))]

sampleRates(prev, table) ==
    [t \in DOMAIN table |->
        LET tail == IF t \in DOMAIN prev THEN prev[t] ELSE <<>>
            s == Append(tail, table[t].rate)
        IN  SubSeq(s, Max({1, Len(s) - SeriesCap + 1}), Len(s))]

Expandable(table) == {n \in Nodes(table) : Children(Nodes(table), n) # {}}

----------------------------------------------------------------------------
(* useTopicStats: one poll a second, the cap pushed and read back.         *)

tick == [rows |-> get_topic_stats, cap |-> tableCap]

\* A second passes and the timer polls.
Second ==
    /\ clock < MaxSeconds
    /\ clock' = clock + 1
    /\ flight' = Append(flight, tick)
    /\ UNCHANGED <<clearing, stats, tableCap, cap, closure, rows, series, panel>>

\* Answers come in any order; the cap read back is compared with the one of the closure.
Answer(i) ==
    /\ rows' = flight[i].rows
    /\ series' = sampleRates(series, flight[i].rows)
    /\ cap' = IF flight[i].cap # closure THEN flight[i].cap ELSE cap
    /\ flight' = RemoveAt(flight, i)
    /\ UNCHANGED <<clearing, clock, stats, tableCap, closure, panel>>

Click == clicks < MaxClicks /\ clicks' = clicks + 1

\* The console is hidden and shown again: late answers are dropped, the effect starts anew.
Reactivate ==
    /\ flight' = <<tick>> /\ closure' = cap /\ Click
    /\ UNCHANGED <<clearing, clock, stats, tableCap, cap, rows, series, snapshot, needle, open>>

setCap(c) ==
    /\ cap' = c /\ Click
    /\ UNCHANGED <<clearing, clock, stats, tableCap, closure, flight, rows, series, snapshot, needle, open>>

PushCap ==
    /\ tableCap # cap
    /\ tableCap' = cap
    /\ UNCHANGED <<clearing, clock, stats, cap, closure, flight, rows, series, panel>>

\* The backend forgets its counters; when that is answered the copy is cleared, whatever polls
\* have answered since, or will from before.
resetTopicStats ==
    /\ rows # None
    /\ stats' = None /\ clearing' = clearing + 1 /\ Click
    /\ UNCHANGED <<clock, tableCap, cap, closure, flight, rows, series, snapshot, needle, open>>

Cleared ==
    /\ clearing > 0 /\ clearing' = clearing - 1
    /\ rows' = None /\ series' = None
    /\ UNCHANGED <<clock, stats, tableCap, cap, closure, flight, panel>>

----------------------------------------------------------------------------
(* TopicTrafficPanel, TopicTreePanel, DevicePanel.                         *)

Louder(a, b) == \/ rows[a].rate > rows[b].rate
                \/ rows[a].rate = rows[b].rate /\ rows[a].count > rows[b].count

sortedRows == SetToSortSeq(DOMAIN rows, Louder)
filteredRows == SelectSeq(sortedRows, LAMBDA t : t \in needle)
filterBar == Len(sortedRows) > MaxVisible
Filtered == [t \in ToSet(filteredRows) |-> rows[t]]

\* Since the snapshot; below zero for a topic that was counted anew after it.
deltaOf(t) == rows[t].count - (IF t \in DOMAIN snapshot THEN snapshot[t] ELSE 0)
visibleRows == [i \in 1 .. Min({MaxVisible, Len(filteredRows)}) |->
                   [topic |-> filteredRows[i], delta |-> deltaOf(filteredRows[i])]]

setTopicFilter(matching) ==
    /\ filterBar
    /\ needle' = matching /\ Click
    /\ UNCHANGED <<clearing, clock, stats, tableCap, cap, closure, flight, rows, series, snapshot, open>>

takeSnapshot ==
    /\ rows # None /\ snapshot = None
    /\ snapshot' = [t \in DOMAIN rows |-> rows[t].count] /\ Click
    /\ UNCHANGED <<clearing, clock, stats, tableCap, cap, closure, flight, rows, series, needle, open>>

clearSnapshot ==
    /\ snapshot # None
    /\ snapshot' = None /\ Click
    /\ UNCHANGED <<clearing, clock, stats, tableCap, cap, closure, flight, rows, series, needle, open>>

flat == flattenTree(Filtered, open)
shown == SubSeq(flat, 1, Min({MaxNodes, Len(flat)}))
anyClosed == \E n \in ToSet(flat) \cap Expandable(Filtered) : n \notin open

toggle(n) ==
    /\ n \in ToSet(shown) \cap Expandable(Filtered)
    /\ open' = IF n \in open THEN open \ {n} ELSE open \cup {n}
    /\ Click
    /\ UNCHANGED <<clearing, clock, stats, tableCap, cap, closure, flight, rows, series, snapshot, needle>>

toggleAll ==
    /\ Filtered # None
    /\ open' = IF anyClosed THEN Expandable(Filtered) ELSE {}
    /\ Click
    /\ UNCHANGED <<clearing, clock, stats, tableCap, cap, closure, flight, rows, series, snapshot, needle>>

branchSeries(n) ==
    LET leaves == leafPaths(Filtered, n)
    IN  sumSeries([t \in leaves |-> IF t \in DOMAIN series THEN series[t] ELSE <<>>])

devices(depth) == nodesAtDepth(rows, depth)

\* The age of a card counts from the newest observation of the table.
now == Max({0} \cup {rows[t].seen : t \in DOMAIN rows})

violationsFor(n, recent) == {v \in recent : IsPrefix(n, v)}

cardState(n, recent) ==
    IF violationsFor(n, recent) # {} THEN "violating"
    ELSE IF now - aggregate(rows)[n].seen > StaleAfter THEN "silent" ELSE "talking"
----------------------------------------------------------------------------
Init ==
    /\ clock = 0 /\ stats = None /\ cap \in Caps /\ tableCap = Max(Caps) /\ closure = cap
    /\ flight = <<tick>> /\ clicks = 0 /\ rows = None /\ series = None /\ clearing = 0
    /\ snapshot = None /\ needle = Topic /\ open = {}

Next ==
    \/ \E t \in Topic : record_topic(t)
    \/ Second \/ Reactivate \/ PushCap \/ resetTopicStats \/ Cleared
    \/ \E i \in DOMAIN flight : Answer(i)
    \/ \E c \in Caps : setCap(c)
    \/ \E m \in {Topic, {CHOOSE t \in Topic : TRUE}} : setTopicFilter(m)
    \/ takeSnapshot \/ clearSnapshot
    \/ \E n \in Nodes(rows) : toggle(n)
    \/ toggleAll

Spec == Init /\ [][Next]_vars

\* The list hides no topic louder than one it shows.  What a branch of the tree says is what the
\* rows below it say together (its peak the highest of theirs); every topic is drawn once or lies
\* below exactly one drawn branch that is closed; at every depth a topic is on one device card, or
\* is the parent of topics that are, or has a leading slash and is on none at the first level; and
\* a topic that left the table left the series with it, so a sparkline ends with the rates of now.
TreeTellsTable ==
    LET agg == aggregate(Filtered)
        Under(p) == {t \in DOMAIN Filtered : IsPrefix(p, t)}
        Hides(p, t) == p = t \/ (p \notin open /\ IsStrictPrefix(p, t))
        Cards(d, t) == {n \in devices(d) : IsPrefix(n, t)}
        listed == {r.topic : r \in Range(visibleRows)}
    IN  /\ \A t \in DOMAIN Filtered \ listed, u \in listed : ~Louder(t, u)
        /\ \A p \in Nodes(Filtered) \cup {Root} :
              /\ agg[p].topics = Cardinality(Under(p))
              /\ agg[p].count = MapThenSumSet(LAMBDA t : rows[t].count, Under(p))
              /\ agg[p].peak = Max({0} \cup {rows[t].peak : t \in Under(p)})
        /\ \A t \in DOMAIN Filtered : \E i \in DOMAIN flat :
              Hides(flat[i], t) /\ \A j \in DOMAIN flat \ {i} : ~Hides(flat[j], t)
        /\ \A d \in Depths, t \in DOMAIN rows :
              \/ /\ Cardinality(Cards(d, t)) = 1
                 /\ {n \in devices(d) : cardState(n, {t}) = "violating"} = Cards(d, t)
                 /\ \A n \in Cards(d, t) : cardState(n, {}) = "silent" => now - rows[t].seen > StaleAfter
              \/ Cards(d, t) = {} /\ Len(t) < d /\ t \in Expandable(rows)
              \/ Cards(d, t) = {} /\ d <= 1 /\ t[1] = Blank
        /\ DOMAIN series = DOMAIN rows
        /\ \A p \in Nodes(Filtered) : branchSeries(p) # <<>> =>
              Last(branchSeries(p)) = MapThenSumSet(LAMBDA t : rows[t].rate, leafPaths(Filtered, p))
=============================================================================
