------------------------------- MODULE Replay -------------------------------
(***************************************************************************)
(* A capture of the rows on the history page (utils/capture) and its       *)
(* replay (ReplayPanel): the file is read back, and one loop publishes     *)
(* what it holds again, with the gaps it was recorded with.                *)
(*                                                                         *)
(* The panel comes and goes with the console mode; a loop that runs knows  *)
(* the queue it was started with and the panel it was started in.          *)
(***************************************************************************)
EXTENDS Integers, Sequences, FiniteSets, SequencesExt, FiniteSetsExt

CONSTANTS
    Recorded,   \* what the archive may hold, in the order it was written
    Speeds,     \* SPEEDS (1, 2, 5, 10)
    GapCaps,    \* the longest gap the user allows; 0 is any
    MaxLoops,   \* bound: replays
    MaxClicks   \* bound: what the user does

VARIABLES
    archive,
    mount,      \* how often the panel was opened; it is open if odd
    panel,      \* what it shows
    reading,    \* the files that are being read, and for which panel
    loops,      \* the replays ever started
    session,    \* whether it is connected, and is v5
    clicks

vars == <<archive, mount, panel, reading, loops, session, clicks>>

None == <<>>

\* A stored message is [id, ts, topic, direction, props].

\* The numbers of a set, in ascending order; and what a choice of the direction leaves.
Ascending(S) == CHOOSE s \in [1 .. Cardinality(S) -> S] : \A i, j \in DOMAIN s : i < j => s[i] < s[j]
Picked(list, which) ==
    LET order == Ascending({i \in DOMAIN list : which \in {"both", list[i].direction}})
    IN  [n \in DOMAIN order |-> list[order[n]]]

-----------------------------------------------------------------------------
(* The file.  A line is a header, an event, or what neither can be.        *)

Header(events, capped) ==
    [format |-> "dropqtt-capture/1", capped |-> capped, count |-> Len(events),
     spanMs |-> IF events = <<>> THEN 0 ELSE Last(events).t,
     inbound |-> Len(Picked(events, "in")), outbound |-> Len(Picked(events, "out")),
     topics |-> {e.topic : e \in ToSet(events)}]

EventAt(row, first) ==
    [t |-> Max({0, row.ts - first}), ts |-> row.ts, topic |-> row.topic, id |-> row.id,
     direction |-> row.direction, props |-> row.props]

\* Variant: the rows stay as they are listed.
AsListed(rows) == rows
\* By time; rows of one instant stay as they are listed.
Place(rows, i) == Cardinality({j \in DOMAIN rows : rows[j].ts < rows[i].ts \/ (rows[j].ts = rows[i].ts /\ j <= i)})
Ordered(rows) == [n \in DOMAIN rows |-> rows[CHOOSE i \in DOMAIN rows : Place(rows, i) = n]]

buildCapture(rows, capped) ==
    LET ordered == Ordered(rows)
        events == [n \in DOMAIN rows |-> EventAt(ordered[n], ordered[1].ts)]
    IN  <<[kind |-> "header", of |-> Header(events, capped)]>>
        \o [n \in DOMAIN events |-> [kind |-> "event", of |-> events[n]]]

\* A reason for every rejection; one line that is no event is enough.
Reject(why, line) == [error |-> <<[why |-> why, line |-> line]>>, header |-> None, events |-> <<>>]
parseCapture(text) ==
    LET Bad == {i \in 2 .. Len(text) : text[i].kind # "event"}
    IN  CASE text = <<>> -> Reject("empty", 0)
          [] text # <<>> /\ text[1].kind # "header" -> Reject("noHeader", 1)
          [] text # <<>> /\ text[1].kind = "header" /\ text[1].of.format # "dropqtt-capture/1" -> Reject("format", 1)
          [] text # <<>> /\ text[1].kind = "header" /\ text[1].of.format = "dropqtt-capture/1" ->
                IF Bad # {} THEN Reject(text[Min(Bad)].kind, Min(Bad))
                ELSE IF Len(text) = 1 THEN Reject("noEvents", 1)
                ELSE [error |-> None, header |-> <<text[1].of>>,
                      events |-> [n \in 1 .. Len(text) - 1 |-> text[n + 1].of]]

summarizeCapture(events) ==
    [count |-> Len(events), spanMs |-> Last(events).t, topics |-> Cardinality({e.topic : e \in ToSet(events)}),
     inbound |-> Len(Picked(events, "in")), outbound |-> Len(Picked(events, "out")),
     maxGapMs |-> Max({0} \cup {events[i].t - events[i - 1].t : i \in 2 .. Len(events)}),
     withProps |-> Cardinality({i \in DOMAIN events : events[i].props # {}})]

\* The file of the newest n rows, as it was written; the page holds a window of the archive.
Written(n) == buildCapture(SubSeq(Reverse(archive), 1, n), n < Len(archive))

\* A file of which lines were cut off, taken out or moved; one of which a time was lost.
Places(m, n) == {p \in [1 .. m -> 2 .. n] : \A i, j \in 1 .. m : p[i] = p[j] => i = j}
Rearranged(f) ==
    UNION {{<<f[1]>> \o [i \in 1 .. m |-> f[p[i]]] : p \in Places(m, Len(f))} : m \in 1 .. Len(f) - 1}
Untimed(f) == {[f EXCEPT ![i].of.t = 0] : i \in 2 .. Len(f)}

\* What a ticket may carry: the rows on the page; the file cut in a line or between two, or edited
\* by hand; or no capture.
Files ==
    LET all == Written(Len(archive))
    IN  {Written(n) : n \in 1 .. Len(archive)} \cup Rearranged(all) \cup Untimed(all)
        \cup {SubSeq(all, 1, m) \o <<[kind |-> "incomplete", of |-> all[2].of]>> : m \in 1 .. Len(archive)}
        \cup {<<>>, <<all[1]>>, Tail(all), <<[all[1] EXCEPT !.of.format = "another"]>> \o Tail(all),
              <<all[1], [kind |-> "noTopic", of |-> all[2].of]>>}

-----------------------------------------------------------------------------
(* The panel                                                               *)

Fresh == [capture |-> None, error |-> None, which |-> "in", speed |-> 1, gapCap |-> Max(GapCaps), sent |-> 0, failed |-> 0]

Open == mount % 2 = 1

queue == IF panel.capture = None THEN <<>> ELSE Picked(panel.capture[1].events, panel.which)

\* The gaps as they were recorded, the multiplier, and the ceiling.
paceFor(events, speed, cap) ==
    [i \in DOMAIN events |->
        LET gap == IF i = 1 THEN 0 ELSE Max({0, events[i].t - events[i - 1].t}) \div speed
        IN  IF cap > 0 THEN Min({gap, cap}) ELSE gap]

\* What the panel says of its file.
summary == IF panel.capture = None THEN None ELSE <<summarizeCapture(panel.capture[1].events)>>

Running == \E k \in DOMAIN loops : loops[k].mount = mount /\ loops[k].at # "ended"

\* Why the start button is off.
runTitle ==
    IF ~session.connected THEN "disconnected"
    ELSE IF queue # <<>> THEN "none"
    ELSE IF panel.which = "out" THEN "noOut" ELSE "empty"

Click == clicks < MaxClicks /\ clicks' = clicks + 1

\* Opened, it is a new one; closed, its loop is told nothing.
SwitchMode ==
    /\ Click /\ mount' = mount + 1 /\ panel' = Fresh
    /\ UNCHANGED <<archive, reading, loops, session>>

load(text) ==
    /\ Click /\ Open
    /\ reading' = reading \cup {[text |-> text, mount |-> mount]}
    /\ UNCHANGED <<archive, mount, panel, loops, session>>

\* A file can not be read, or not be taken for a capture; else it is what the panel shows.
FileRead(r, readable) ==
    LET parsed == IF readable THEN parseCapture(r.text) ELSE Reject("unreadable", 0)
    IN  /\ r \in reading /\ reading' = reading \ {r}
        /\ panel' = IF r.mount # mount THEN panel
                    ELSE IF parsed.error # None THEN [panel EXCEPT !.capture = None, !.error = parsed.error]
                    ELSE [panel EXCEPT !.capture = <<parsed>>, !.error = None, !.sent = 0, !.failed = 0]
        /\ UNCHANGED <<archive, mount, loops, session, clicks>>

Choose(which, speed, cap) ==
    /\ Click /\ Open /\ panel.capture # None
    /\ panel' = [panel EXCEPT !.which = which, !.speed = speed, !.gapCap = cap]
    /\ UNCHANGED <<archive, mount, reading, loops, session>>

-----------------------------------------------------------------------------
(* The loop                                                                *)

\* A v3 session sends none of the properties.
toParams(e, isV5) == [e EXCEPT !.props = IF isV5 THEN @ ELSE {}]

Sends(l) == [l EXCEPT !.at = "sending", !.out = Append(@, [of |-> toParams(l.queue[l.i], l.isV5), waited |-> l.waited, stopped |-> l.stop])]

\* The next of the queue, or the end of it.
Turn(l) ==
    IF l.i > Len(l.queue) \/ l.stop THEN [l EXCEPT !.at = "ended"]
    ELSE IF l.gaps[l.i] > 0 THEN [l EXCEPT !.at = "waiting", !.waited = @ + l.gaps[l.i]]
    ELSE Sends(l)

\* The gap is over.
Waited(l) == IF l.stop THEN [l EXCEPT !.at = "ended"] ELSE Sends(l)

run ==
    /\ Click /\ Open /\ ~Running /\ panel.capture # None /\ runTitle = "none" /\ Len(loops) < MaxLoops
    /\ loops' = Append(loops, Turn([mount |-> mount, stop |-> FALSE, queue |-> queue, isV5 |-> session.isV5, i |-> 1,
                                    gaps |-> paceFor(queue, panel.speed, panel.gapCap), waited |-> 0, out |-> <<>>,
                                    at |-> "waiting", done |-> 0, bad |-> 0,
                                    asked |-> [panel EXCEPT !.error = None]]))
    /\ panel' = [panel EXCEPT !.sent = 0, !.failed = 0]
    /\ UNCHANGED <<archive, mount, reading, session>>

GapOver(k) ==
    /\ loops[k].at = "waiting" /\ loops' = [loops EXCEPT ![k] = Waited(@)]
    /\ UNCHANGED <<archive, mount, panel, reading, session, clicks>>

\* One rejected topic does not abandon the rest.
Published(k, ok) ==
    LET l == IF ok THEN [loops[k] EXCEPT !.done = @ + 1] ELSE [loops[k] EXCEPT !.bad = @ + 1]
    IN  /\ loops[k].at = "sending" /\ (ok => session.connected)
        /\ loops' = [loops EXCEPT ![k] = Turn([l EXCEPT !.i = @ + 1])]
        /\ panel' = IF l.mount # mount THEN panel
                    ELSE [panel EXCEPT !.sent = l.done, !.failed = l.bad,
                                       !.error = IF ok THEN @ ELSE <<[why |-> "rejected", line |-> 0]>>]
        /\ UNCHANGED <<archive, mount, reading, session, clicks>>

stop ==
    /\ Click /\ Open /\ Running
    /\ loops' = [k \in DOMAIN loops |-> IF loops[k].mount = mount THEN [loops[k] EXCEPT !.stop = TRUE] ELSE loops[k]]
    /\ UNCHANGED <<archive, mount, panel, reading, session>>

\* The session drops, or comes as what the profile says.
SwitchSession(connected, isV5) ==
    /\ Click /\ session' = [connected |-> connected, isV5 |-> isV5]
    /\ session' # session
    /\ UNCHANGED <<archive, mount, panel, reading, loops>>

-----------------------------------------------------------------------------
Init ==
    /\ archive \in Recorded /\ mount = 1 /\ panel = Fresh /\ reading = {} /\ loops = <<>> /\ clicks = 0
    /\ session \in [connected : {TRUE}, isV5 : BOOLEAN]

Next ==
    \/ \E text \in Files : load(text)
    \/ \E r \in reading, readable \in BOOLEAN : FileRead(r, readable)
    \/ \E which \in {"in", "out", "both"}, speed \in Speeds, cap \in GapCaps : Choose(which, speed, cap)
    \/ \E k \in DOMAIN loops : GapOver(k) \/ \E ok \in BOOLEAN : Published(k, ok)
    \/ \E connected, isV5 \in BOOLEAN : SwitchSession(connected, isV5)
    \/ run \/ stop \/ SwitchMode

Spec == Init /\ [][Next]_vars

-----------------------------------------------------------------------------
\* The archive is in the order of the page, turned around: by time, then as it was written.
InOrder(a) ==
    /\ a \in Seq(ToSet(a)) /\ a # <<>>
    /\ \A i, j \in DOMAIN a : a[i].ts \in Nat /\ (i < j => a[i].ts <= a[j].ts)

Apart == \A i, j \in DOMAIN archive : archive[i].ts = archive[j].ts => i = j

\* A file as it was written, or with its tail cut off between two lines: nothing tells them apart.
AsWritten(file) ==
    \E n \in Len(file.events) .. Len(archive) : file = parseCapture(SubSeq(Written(n), 1, Len(file.events) + 1))

\* What a replay was asked to play, and the recorded messages that this is if nobody edited it.
Script(l) == Picked(l.asked.capture[1].events, l.asked.which)
Source(l) ==
    LET file == l.asked.capture[1]
        first == Len(archive) - file.header[1].count
    IN  Picked(SubSeq(archive, first + 1, first + Len(file.events)), l.asked.which)

\* The messages of a list and no other, in its order, these gaps scaled and capped between them.
Plays(l, list, gap) ==
    /\ Len(l.out) <= Len(list) /\ (l.at = "ended" /\ ~l.stop => Len(l.out) = Len(list))
    /\ \A i \in DOMAIN l.out :
          /\ l.out[i].of.id = list[i].id
          /\ l.out[i].of.props = IF l.isV5 THEN list[i].props ELSE {}
          /\ i > 1 => LET due == gap[i] \div l.asked.speed
                      IN  l.out[i].waited - l.out[i - 1].waited
                             = IF l.asked.gapCap > 0 THEN Min({due, l.asked.gapCap}) ELSE due

(* What a replay publishes is what its file holds, whatever became of the  *)
(* file: the events of the chosen direction in the order of the lines, the *)
(* gaps between their times scaled and capped as asked, the properties if  *)
(* the session can carry them, nothing once it was told to stop, and all   *)
(* of it otherwise; the counts are what was answered.  If nobody edited    *)
(* the file that is what was recorded, in the order it came, up to where   *)
(* the file was cut: the summary and the header tell a cut file apart.     *)
PlaysAsRecorded ==
    /\ panel.capture # None /\ AsWritten(panel.capture[1]) =>
        LET header == panel.capture[1].header[1]
        IN  /\ summary[1].count <= header.count
            /\ summary[1].count = header.count => summary[1].spanMs = header.spanMs
    /\ \A k \in DOMAIN loops :
        LET l == loops[k]
            script == Script(l)
            source == Source(l)
        IN  /\ Len(l.out) - (l.done + l.bad) \in {0, 1} /\ \A i \in DOMAIN l.out : ~l.out[i].stopped
            /\ Plays(l, script, [i \in 2 .. Len(script) |-> Max({0, script[i].t - script[i - 1].t})])
            /\ Apart /\ AsWritten(l.asked.capture[1]) =>
                  Plays(l, source, [i \in 2 .. Len(source) |-> source[i].ts - source[i - 1].ts])

(* "Unmounting must not leave a loop publishing into a broker nobody is    *)
(* watching" (ReplayPanel.tsx:73).                                         *)
Watched == \A k \in DOMAIN loops : loops[k].mount # mount => loops'[k].out = loops[k].out
NobodyUnwatched == [][Watched]_vars
=============================================================================
