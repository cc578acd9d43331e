---------------------------- MODULE MessageDiff ----------------------------
(***************************************************************************)
(* The comparison of two stored messages (utils/messageDiff, shown by      *)
(* MessageDiffCard) and the probe that follows one field through the list  *)
(* (utils/fieldSeries, shown by FieldProbeCard).                           *)
(*                                                                         *)
(* A JSON value is a tree; a payload is its lines, of which a document has *)
(* one.  The comparison prints a path as it walks, and the probe takes the *)
(* print apart again: a path is a text, and so is a key.  A text is a      *)
(* sequence of characters, which are numbers; a number in brackets is one  *)
(* character.                                                              *)
(***************************************************************************)
EXTENDS Integers, Sequences, FiniteSets, SequencesExt, FiniteSetsExt

CONSTANTS
    Stored,         \* what the archive may hold, oldest first
    MaxDepth,       \* MAX_DEPTH (6)
    MaxChanges,     \* MAX_CHANGES (200)
    MaxLineProduct, \* MAX_LINE_PRODUCT (200,000)
    GapFloor,       \* gapFloorMs (60,000)
    MaxClicks       \* bound: what the user does

VARIABLES
    stored,
    rows,       \* the list on the screen: what the window leaves of it, newest first
    compareIds, \* the messages picked, in the order they were
    path,       \* the path the probe runs on, as a sequence of at most one
    clicks

vars == <<stored, rows, compareIds, path, clicks>>

None == <<>>

-----------------------------------------------------------------------------
(* Values, messages, paths                                                 *)

\* A value is [t, v, keys, els]: its type, a scalar's value, an object's keys, what is inside.
\* A message is [id, ts, meta, lines, json, form, bytes, truncated]: how it was carried, its lines,
\* whether they are one document and how that is written, its bytes where they are no text.
shapeOf(v) == IF v.t \in {"array", "object"} THEN v.t ELSE "scalar"

Dot == -1
Open == -2
Close == -3
Numeral(i) == 100 + i
Before(x, y) == \E i \in 1 .. Len(y) : /\ SubSeq(x, 1, i - 1) = SubSeq(y, 1, i - 1)
                                       /\ i > Len(x) \/ x[i] < y[i]

Key(k) == [key |-> k, index |-> -1]
Index(i) == [key |-> <<>>, index |-> i]

\* The print of a path, one step further.
Further(p, s) ==
    IF s.index >= 0 THEN p \o <<Open, Numeral(s.index), Close>>
    ELSE IF p = <<>> THEN s.key ELSE p \o <<Dot>> \o s.key

\* One step into a value: what is there, as a sequence of at most one.
Step(v, s) ==
    IF s.index >= 0
    THEN IF v.t = "array" /\ s.index < Len(v.els) THEN <<v.els[s.index + 1]>> ELSE None
    ELSE IF v.t = "object" /\ Contains(v.keys, s.key)
         THEN <<v.els[CHOOSE i \in DOMAIN v.keys : v.keys[i] = s.key]>> ELSE None

-----------------------------------------------------------------------------
(* The comparison of two documents                                         *)

Full(sink) == Len(sink.fields) >= MaxChanges
markCap(sink) == [sink EXCEPT !.notes = @ \cup {"cap"}]
push(sink, p, type, before, after) ==
    IF Full(sink) THEN markCap(sink)
    ELSE [sink EXCEPT !.fields = Append(@, [path |-> p, type |-> type, before |-> before, after |-> after])]

\* Variant: what only the second has is not looked at.
StepsOfFirst(a, b) ==
    IF a.t = "array" THEN [i \in DOMAIN a.els |-> Index(i - 1)] ELSE [i \in DOMAIN a.keys |-> Key(a.keys[i])]
\* The steps to what either side has, in the order they are walked.
Steps(a, b) ==
    IF a.t = "array" THEN [i \in 1 .. Max({Len(a.els), Len(b.els)}) |-> Index(i - 1)]
    ELSE LET keys == SetToSortSeq(ToSet(a.keys) \cup ToSet(b.keys), Before)
         IN  [i \in DOMAIN keys |-> Key(keys[i])]

RECURSIVE walk(_, _, _, _, _)
walk(a, b, p, sink, depth) ==
    IF shapeOf(a) # shapeOf(b) \/ (shapeOf(a) = "scalar" /\ a # b) THEN push(sink, p, "changed", <<a>>, <<b>>)
    ELSE IF shapeOf(a) = "scalar" THEN sink
    ELSE IF depth >= MaxDepth THEN [sink EXCEPT !.notes = @ \cup {"depth"}]
    ELSE FoldLeft(LAMBDA acc, s :
            LET x == Step(a, s)
                y == Step(b, s)
            IN  IF Full(acc) THEN markCap(acc)
                ELSE IF x = None THEN push(acc, Further(p, s), "added", x, y)
                ELSE IF y = None THEN push(acc, Further(p, s), "removed", x, y)
                ELSE walk(x[1], y[1], Further(p, s), acc, depth + 1),
            sink, Steps(a, b))

-----------------------------------------------------------------------------
(* The comparison of two texts                                             *)

Op(type, line) == [type |-> type, line |-> line]
Same(ls) == [i \in DOMAIN ls |-> Op("same", <<ls[i]>>)]

\* Longest common subsequence, from i and j on.
Table(a, b) ==
    LET table[i \in 1 .. Len(a) + 1, j \in 1 .. Len(b) + 1] ==
            IF i > Len(a) \/ j > Len(b) THEN 0
            ELSE IF a[i] = b[j] THEN table[i + 1, j + 1] + 1
            ELSE Max({table[i + 1, j], table[i, j + 1]})
    IN  table

Ops(a, b) ==
    LET table == Table(a, b)
        from[i \in 1 .. Len(a) + 1, j \in 1 .. Len(b) + 1] ==
            IF i > Len(a) /\ j > Len(b) THEN <<>>
            ELSE IF i <= Len(a) /\ j <= Len(b) /\ a[i] = b[j] THEN <<Op("same", <<a[i]>>)>> \o from[i + 1, j + 1]
            ELSE IF j > Len(b) \/ (i <= Len(a) /\ table[i + 1, j] >= table[i, j + 1])
                 THEN <<Op("removed", <<a[i]>>)>> \o from[i + 1, j]
            ELSE <<Op("added", <<b[j]>>)>> \o from[i, j + 1]
    IN  from[1, 1]

\* The lines both sides agree on at the head and at the tail, then the middle.
diffText(a, b) ==
    LET head == Max({h \in 0 .. Min({Len(a), Len(b)}) : \A i \in 1 .. h : a[i] = b[i]})
        tail == Max({t \in 0 .. Min({Len(a), Len(b)}) - head : \A i \in 0 .. t - 1 : a[Len(a) - i] = b[Len(b) - i]})
        midA == SubSeq(a, head + 1, Len(a) - tail)
        midB == SubSeq(b, head + 1, Len(b) - tail)
        wide == Len(midA) * Len(midB) > MaxLineProduct
    IN  [wide |-> wide,
         ops |-> Same(SubSeq(a, 1, head)) \o (IF wide THEN <<Op("uncompared", None)>> ELSE Ops(midA, midB))
                     \o Same(SubSeq(b, Len(b) - tail + 1, Len(b)))]

-----------------------------------------------------------------------------
Identical(a, b) == <<a.lines, a.json, a.form, a.bytes>> = <<b.lines, b.json, b.form, b.bytes>>

\* A truncated document does not parse.
IsDoc(m) == m.json /\ ~m.truncated

finish(kind, a, b, sink, lines) ==
    [kind |-> kind, identical |-> Identical(a, b), fields |-> sink.fields, notes |-> sink.notes, lines |-> lines,
     unreliable |-> a.truncated \/ b.truncated]

diffMessages(a, b) ==
    LET sink == [fields |-> <<>>, notes |-> {}]
        text == diffText(a.lines, b.lines)
        changed == SelectSeq(text.ops, LAMBDA op : op.type \in {"added", "removed"})
        noted == IF text.wide THEN [sink EXCEPT !.notes = {"wide"}] ELSE sink
        \* The line list, once more as fields: the counts come from them.
        listed == FoldLeft(LAMBDA acc, op : IF op.type = "added" THEN push(acc, <<>>, "added", None, op.line)
                                            ELSE push(acc, <<>>, "removed", op.line, None),
                           noted, changed)
    IN  IF a.bytes # None \/ b.bytes # None
        THEN finish("binary", a, b, IF Identical(a, b) THEN sink ELSE push(sink, <<>>, "changed", None, None), <<>>)
        ELSE IF IsDoc(a) /\ IsDoc(b)
             THEN finish("json", a, b, walk(a.lines[1], b.lines[1], <<>>, sink, 0), <<>>)
        ELSE finish("text", a, b, IF Identical(a, b) THEN noted ELSE listed, text.ops)

diffMetadata(a, b) ==
    [fields |-> {l \in DOMAIN a.meta : a.meta[l] # b.meta[l]},
     gapMs |-> IF a.ts > b.ts THEN a.ts - b.ts ELSE b.ts - a.ts]

-----------------------------------------------------------------------------
(* The probe                                                               *)

\* What stands between the dots.
Parts(p) ==
    FoldLeft(LAMBDA acc, c : IF c = Dot THEN Append(acc, <<>>) ELSE [acc EXCEPT ![Len(acc)] = Append(@, c)], <<<<>>>>, p)

\* A part is a key and numbers in brackets after it; the last number counts, the others become
\* keys no document has.
KeyLen(part) == Max({n \in 0 .. Len(part) : \A i \in 1 .. n : part[i] \notin {Open, Close}})
Readable(part) ==
    LET n == KeyLen(part) IN
    /\ n > 0 /\ (Len(part) - n) % 3 = 0
    /\ \A i \in n + 1 .. Len(part) :
          CASE (i - n) % 3 = 1 -> part[i] = Open [] (i - n) % 3 = 2 -> part[i] >= Numeral(0) [] OTHER -> part[i] = Close
Segments(part) ==
    LET n == KeyLen(part)
        key == SubSeq(part, 1, n)
        many == (Len(part) - n) \div 3
        number(i) == part[n + 3 * i - 1] - Numeral(0)
    IN  <<[key |-> key, index |-> IF many = 0 THEN -1 ELSE number(many)]>>
            \o [i \in 1 .. Max({0, many - 1}) |-> [key |-> Further(key, Index(number(i))), index |-> number(i)]]

parseFieldPath(p) ==
    LET parts == Parts(p)
    IN  IF \E i \in DOMAIN parts : ~Readable(parts[i]) THEN None
        ELSE FlattenSeq([i \in DOMAIN parts |-> Segments(parts[i])])

pick(doc, segs) ==
    FoldLeft(LAMBDA cur, seg :
        LET inside == IF cur = None THEN None ELSE Step(cur[1], Key(seg.key))
        IN  IF inside = None \/ seg.index < 0 THEN inside ELSE Step(inside[1], Index(seg.index)),
        <<doc>>, segs)

Sampled(m, segs) ==
    LET hit == IF IsDoc(m) THEN pick(m.lines[1], segs) ELSE None
    IN  [id |-> m.id, ts |-> m.ts, value |-> hit,
         state |-> IF m.truncated THEN "truncated" ELSE IF ~m.json THEN "notJson"
                   ELSE IF hit = None THEN "missing" ELSE "value"]

\* By time; rows of one instant stay as they are listed.
ByTime(list) ==
    LET order == SetToSortSeq(DOMAIN list, LAMBDA i, j : list[i].ts < list[j].ts \/ (list[i].ts = list[j].ts /\ i < j))
    IN  [n \in DOMAIN list |-> list[order[n]]]

sampleField(list, p) ==
    IF parseFieldPath(p) = None THEN <<>>
    ELSE LET byTime == ByTime(list) IN [i \in DOMAIN list |-> Sampled(byTime[i], parseFieldPath(p))]

Valued(samples) == SelectSeq(samples, LAMBDA s : s.state = "value")

\* Transitions between consecutive valued samples.
buildChanges(samples) ==
    LET vs == Valued(samples)
    IN  {[ts |-> vs[i + 1].ts, from |-> vs[i].value, to |-> vs[i + 1].value] :
            i \in {j \in 1 .. Len(vs) - 1 : vs[j].value # vs[j + 1].value}}

\* The median interval of three valued samples or more, 0 if there are fewer.
medianDelta(samples) ==
    LET vs == Valued(samples)
        deltas == SortSeq([i \in 1 .. Len(vs) - 1 |-> vs[i + 1].ts - vs[i].ts], LAMBDA x, y : x < y)
    IN  IF Len(vs) < 3 THEN 0 ELSE deltas[Len(deltas) \div 2 + 1]

Points(samples) == SelectSeq(Valued(samples), LAMBDA s : s.value[1].t = "number")

\* Where the line of the points is cut: after the i-th.
buildSeries(samples) ==
    LET ps == Points(samples)
        median == medianDelta(samples)
    IN  {i \in 1 .. Len(ps) - 1 : median > 0 /\ ps[i + 1].ts - ps[i].ts >= Max({GapFloor, 3 * median})}

buildValueCounts(samples) ==
    [v \in {s.value[1] : s \in ToSet(Valued(samples))} |-> Len(SelectSeq(samples, LAMBDA s : s.value = <<v>>))]

fieldReport(list, p) ==
    LET samples == sampleField(list, p)
        vs == Valued(samples)
    IN  [samples |-> samples, changes |-> buildChanges(samples),
         counts |-> [st \in {"value", "missing", "notJson", "truncated"} |->
                        Len(SelectSeq(samples, LAMBDA s : s.state = st))],
         lastValue |-> IF vs = <<>> THEN None ELSE Last(vs).value,
         cuts |-> buildSeries(samples), values |-> buildValueCounts(samples),
         chartable |-> Len(Points(samples)) >= 2 /\ Len(Points(samples)) = Len(vs)]

-----------------------------------------------------------------------------
(* The page                                                                *)

Row(id) == CHOOSE m \in ToSet(rows) : m.id = id
OnScreen == {m.id : m \in ToSet(rows)}

\* What was picked and is still on the screen.
compareRows ==
    LET there == SelectSeq(compareIds, LAMBDA id : id \in OnScreen)
    IN  [i \in DOMAIN there |-> Row(there[i])]
Comparing == Len(compareRows) = 2
Card == [diff |-> diffMessages(compareRows[1], compareRows[2]), meta |-> diffMetadata(compareRows[1], compareRows[2])]
comparedPaths == IF Comparing THEN {Card.diff.fields[i].path : i \in DOMAIN Card.diff.fields} ELSE {}
Report == fieldReport(rows, path[1])

Click == clicks < MaxClicks /\ clicks' = clicks + 1

\* A third pick drops the oldest.
toggleCompare(id) ==
    /\ Click /\ id \in OnScreen
    /\ compareIds' = IF Contains(compareIds, id) THEN SelectSeq(compareIds, LAMBDA x : x # id)
                     ELSE SubSeq(Append(compareIds, id), Max({1, Len(compareIds)}), Len(compareIds) + 1)
    /\ UNCHANGED <<stored, rows, path>>
clearCompare == Click /\ Comparing /\ compareIds' = <<>> /\ UNCHANGED <<stored, rows, path>>

\* One of the paths the comparison offers is followed.
run(p) == Click /\ path' = <<p>> /\ UNCHANGED <<stored, rows, compareIds>>

load ==
    /\ Click /\ \E k \in DOMAIN stored : rows' = Reverse(SubSeq(stored, k, Len(stored)))
    /\ UNCHANGED <<stored, compareIds, path>>

Init == stored \in Stored /\ rows = Reverse(stored) /\ compareIds = <<>> /\ path = None /\ clicks = 0

Next ==
    \/ \E id \in OnScreen : toggleCompare(id)
    \/ \E p \in comparedPaths \ {<<>>} : run(p)
    \/ clearCompare \/ load

Spec == Init /\ [][Next]_vars

-----------------------------------------------------------------------------
RECURSIVE Paths(_)
\* Every path into a value as its steps, the print of one, and what is at it.
Paths(v) ==
    {<<>>} \cup UNION {{<<s>> \o p : p \in Paths(Step(v, s)[1])} : s \in ToSet(Steps(v, v))}
PrintOf(p) == FoldLeft(Further, <<>>, p)
At(v, p) == FoldLeft(LAMBDA cur, s : IF cur = None THEN None ELSE Step(cur[1], s), <<v>>, p)

\* The paths at which two documents part.
Differences(a, b) ==
    {p \in Paths(a) \cup Paths(b) :
        /\ \A n \in 0 .. Len(p) - 1 :
              LET x == At(a, SubSeq(p, 1, n))
                  y == At(b, SubSeq(p, 1, n))
              IN  x # None /\ y # None /\ shapeOf(x[1]) = shapeOf(y[1])
        /\ LET x == At(a, p)
               y == At(b, p)
           IN  \/ (x = None) # (y = None)
               \/ /\ x # None /\ y # None
                  /\ shapeOf(x[1]) # shapeOf(y[1]) \/ (shapeOf(x[1]) = "scalar" /\ x # y)}

LinesOf(ops, types) == LET kept == SelectSeq(ops, LAMBDA op : op.type \in types)
                       IN  [i \in DOMAIN kept |-> kept[i].line[1]]

\* Documents whose keys are not empty and hold no dot and no bracket.
Clean(v) == \A p \in Paths(v) : \A i \in DOMAIN p :
                p[i].index >= 0 \/ (p[i].key # <<>> /\ ToSet(p[i].key) \cap {Dot, Open, Close} = {})

(* A comparison that notes no limit is the whole truth: the fields are     *)
(* where the documents part, each once, with its path and what stands on   *)
(* each side, and paths of different places differ if the keys are clean;  *)
(* the lines put together give either text, and as many as possible are    *)
(* shown as the same (messageDiff.ts: "Three honest constraints").         *)
DiffTells ==
    Comparing =>
        LET a == compareRows[1].lines
            b == compareRows[2].lines
            fields == Card.diff.fields
            differ == Differences(a[1], b[1])
        IN  /\ Card.diff.kind = "json" /\ Card.diff.notes = {} =>
                  /\ Len(fields) = Cardinality(differ)
                  /\ \A p \in differ : \E i \in DOMAIN fields :
                        fields[i].path = PrintOf(p) /\ fields[i].before = At(a[1], p) /\ fields[i].after = At(b[1], p)
                  /\ Clean(a[1]) /\ Clean(b[1]) =>
                        \A i, j \in DOMAIN fields : fields[i].path = fields[j].path => i = j
            /\ Card.diff.kind = "text" /\ "wide" \notin Card.diff.notes =>
                  /\ LinesOf(Card.diff.lines, {"same", "removed"}) = a /\ LinesOf(Card.diff.lines, {"same", "added"}) = b
                  /\ Len(LinesOf(Card.diff.lines, {"same"})) = Max({Len(c) : c \in AllSubSeqs(a) \cap AllSubSeqs(b)})

\* A path that starts with a key and has no two indices in a row.
Plain(p) == p # <<>> /\ p[1] # Open /\ \A i \in 1 .. Len(p) - 1 : p[i] # Close \/ p[i + 1] # Open

SampleOf(p, m) == CHOOSE s \in ToSet(sampleField(rows, p)) : s.id = m.id

(* What the comparison found can be followed: the probe finds at that path *)
(* of either message the very value the comparison showed, and tells the   *)
(* change if nothing with the field came between.  So fieldSeries.ts:9-10  *)
(* ("so one can be copied out of a comparison straight into here"), but    *)
(* only for plain paths in documents whose keys are clean: the print of    *)
(* another key is not taken apart into the steps it stands for.            *)
Followed(p) ==
    LET a == compareRows[1]
        b == compareRows[2]
        between == {m \in ToSet(rows) : m.ts \in a.ts + 1 .. b.ts - 1}
    IN  \A i \in DOMAIN Card.diff.fields : Card.diff.fields[i].path = p =>
            /\ sampleField(rows, p) # <<>>
            /\ SampleOf(p, a).value = Card.diff.fields[i].before /\ SampleOf(p, b).value = Card.diff.fields[i].after
            /\ Card.diff.fields[i].type = "changed" /\ a.ts < b.ts
                 /\ (\A m \in between : SampleOf(p, m).state # "value") =>
                 [ts |-> b.ts, from |-> Card.diff.fields[i].before, to |-> Card.diff.fields[i].after]
                    \in fieldReport(rows, p).changes
ProbeFollowsDiff ==
    Comparing /\ Card.diff.kind = "json" /\ (\A i \in 1 .. 2 : Clean(compareRows[i].lines[1]))
        => \A p \in comparedPaths : Plain(p) => Followed(p)

(* The report counts every message listed once, and every value it met.    *)
ReportAddsUp ==
    path # None /\ Report.samples # <<>> =>
        /\ FoldFunction(+, 0, Report.counts) = Len(rows)
        /\ FoldFunction(+, 0, Report.values) = Report.counts["value"]
        /\ Report.lastValue # None => Report.lastValue[1] \in DOMAIN Report.values

(* The three together: what either card says of two stored messages is so, *)
(* and they agree with each other.                                         *)
CardsAgree == DiffTells /\ ProbeFollowsDiff /\ ReportAddsUp
=============================================================================
