------------------------------- MODULE MCDesk -------------------------------
(***************************************************************************)
(* The parts of the desktop window, for model checking.                    *)
(***************************************************************************)
EXTENDS Desk

Clicks ==
    [settings |-> 3, queue |-> 2, history |-> 2, links |-> 2, rules |-> 3, feed |-> 3, row |-> 3,
     bridge |-> 3, replay |-> 3, scenario |-> 4, audit |-> 2]

\* Settings: a config of an older build, its password in it.
LeftConfigs == {[host |-> "h1", plain |-> TRUE, ref |-> NoValue]}

\* Feed: two topics, one of them the broker's.
Messages == {[topic |-> "a", dir |-> "in", retain |-> TRUE], [topic |-> "$SYS", dir |-> "out", retain |-> FALSE]}

\* Rows: a document, a SenML pack in CBOR, a truncated text, a broken one.
MessageOf(contentType, parses, units, corr, prop, truncated) ==
    [contentType |-> contentType, parses |-> parses, braced |-> parses = "json", units |-> units,
     truncated |-> truncated, corr |-> corr, prop |-> prop, reply |-> prop, retain |-> truncated,
     format |-> "unset", matched |-> "us", overflow |-> TRUE]
ShownMessages ==
    {MessageOf("none", "json", <<"a">>, "none", "none", FALSE),
     MessageOf("senml+cbor", "senmlCbor", <<"ctl", "bad">>, "hex", "ctl", FALSE),
     MessageOf("json", "no", <<"a">>, "text", "a", TRUE),
     MessageOf("ctl", "no", <<"bad">>, "text", "a", FALSE)}
ViewModes == {"auto", "senml", "json", "text", "md", "html", "cbor", "base64", "hex"}
\* Two of one length.
CodecScripts == {[id |-> 1, len |-> 0], [id |-> 2, len |-> 5], [id |-> 3, len |-> 5], [id |-> 4, len |-> 6]}

\* Bridge: one rule of an older build, with two headers in plain text.
OldRule ==
    [source |-> "src", target |-> "dst", http |-> TRUE, filter |-> "f", enabled |-> TRUE,
     sinks |-> [k \in 1 .. 2 |-> [url |-> TRUE, plain |-> {"a"}, secrets |-> <<>>]]]
OldRuleSets == {<<OldRule, NoValue>>}

\* Replay: a gap to be scaled, one to be capped, and two messages of one instant.
Taken(id, ts, topic, way, props) ==
    [id |-> id, ts |-> ts, topic |-> topic, direction |-> way, props |-> props]
Recordings ==
    {<<Taken(1, 2, 1, "in", {}), Taken(2, 4, 1, "out", {}), Taken(3, 10, 2, "in", {"response"})>>,
     <<Taken(1, 2, 1, "in", {}), Taken(2, 2, 1, "in", {})>>}

\* Scenarios: one with everything in it, broken entries among it, one without a bar, one without rules.
File(read, subs, responders, assertions, silence, bench) ==
    [read |-> read, subs |-> subs, responders |-> responders, assertions |-> assertions, silence |-> silence,
     bench |-> bench]
Scenarios ==
    {File("scenario", {"t", "broken"}, {"r"}, {"broken"}, {[webhook |-> FALSE]}, <<[expect |-> <<1>>]>>),
     File("scenario", {}, {"broken"}, {"r"}, {}, <<[expect |-> <<>>]>>),
     File("scenario", {"t"}, {}, {}, {[webhook |-> FALSE]}, <<>>),
     File("noMarker", {}, {}, {}, {}, <<>>)}
Counts ==
    {[matched |-> 0, violated |-> 0, unevaluable |-> 0], [matched |-> 1, violated |-> 0, unevaluable |-> 0],
     [matched |-> 2, violated |-> 1, unevaluable |-> 0]}

\* SenML: every base field with and without the values it holds for, over two and three records,
\* and packs of two in which one field is not of its type (a vd in JSON is a text).
Texts == {"n", "bn", "u", "bu", "vs"}
ValueOf(label, other) ==
    CASE label \in Texts -> [type |-> "text", of |-> IF other THEN <<2>> ELSE <<1>>]
      [] label \in {"t", "bt"} -> [type |-> "number", of |-> IF other THEN 12 ELSE 3]
      [] label = "vd" -> [type |-> "bytes", of |-> <<3>>]
      [] OTHER -> [type |-> "number", of |-> 2]
Record(labels, other) == [l \in labels |-> ValueOf(l, other)]
Mistyped(rec, label) ==
    [rec EXCEPT ![label] = IF @.type = "text" THEN [type |-> "number", of |-> 5] ELSE [type |-> "text", of |-> <<4>>]]
First ==
    {d \in SUBSET {"bn", "bt", "bv", "bu", "bs", "v", "t", "n"} : Cardinality(d) \in 1 .. 4}
    \cup {{"s"}, {"s", "u"}, {"vb", "n"}, {"x_"}, {"bver", "v"}, {"zz"}, {"vd", "n"}, {"vs", "bn"}}
Then ==
    {{"v"}, {"v", "n", "t"}, {"s"}, {"vb", "v"}, {"u", "v"}, {"bn", "bt"}, {"bver", "v"}, {"bv", "t"}, {"v", "zz"},
     {"vd", "vs"}}
Pairs == {<<Record(a, x), Record(b, ~x)>> : a \in First, b \in Then, x \in BOOLEAN}
SenmlPacks ==
    Pairs
    \cup UNION {{<<Mistyped(q[1], l), q[2]>> : l \in DOMAIN q[1]} \cup {<<q[1], Mistyped(q[2], l)>> : l \in DOMAIN q[2]} :
                q \in {q \in Pairs : Cardinality(DOMAIN q[1]) \in 1 .. 3 /\ q[2] = Record(DOMAIN q[2], FALSE)}}
    \cup {<<Record(a, FALSE), Record(b, TRUE), Record(c, FALSE)>> : a, b, c \in Then}
=============================================================================
