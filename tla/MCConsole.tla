----------------------------- MODULE MCConsole ------------------------------
(***************************************************************************)
(* What the console makes of what it receives (codecs, counters, cards) and*)
(* the panels that must catch up with the backend, for model checking.     *)
(* They share no variable and every property is about one of them, so a    *)
(* behaviour is that of one panel, chosen at the start, and one run checks *)
(* them side by side; v1, v2, ... are the variables of the panel that runs.*)
(***************************************************************************)
EXTENDS Integers, Sequences, FiniteSets

CONSTANTS
    Panels

VARIABLES
    panel, \* the part that runs
    v1, v2, v3, v4, v5, v6, v7, v8, v9, v10, v11, v12, v13, v14, v15, v16, v17, v18, v19, v20,
    v21, v22, v23, v24

vars == <<panel, v1, v2, v3, v4, v5, v6, v7, v8, v9, v10, v11, v12, v13, v14, v15, v16, v17, v18, v19,
          v20, v21, v22, v23, v24>>

\* Traffic: a topic, its parent, a stranger and a topic with a leading slash.
Traffic == {<<1>>, <<1, 1>>, <<2, 1>>, <<0, 1>>}

\* CBOR: numbers and lengths at every boundary of the width of an argument, and what is nested;
\* from elsewhere also bytes, undefined and keys that are no strings.
Item(k, n, b, c) == [k |-> k, n |-> n, b |-> b, c |-> c]
Int_(n) == Item("int", n, <<>>, <<>>)
Text(b) == Item("str", 0, b, <<>>)
List(c) == Item("arr", 0, <<>>, c)
Dict(c) == Item("map", 0, <<>>, c)
Word(k) == Item(k, 0, <<>>, <<>>)
Tag(n, v) == Item("tag", n, <<>>, <<v>>)
Scalars ==
    {Int_(n) : n \in {0, 3, 4, 95, 96, 9215, 9216, 84934655, 84934656, -1, -4, -5, -97}}
    \cup {Word(k) : k \in {"null", "true", "false"}}
    \cup {Text(<<>>), Text(<<1, 2, 3, 4, 5>>), Item("float", 0, <<1, 2, 3, 4, 5, 6, 7, 8>>, <<>>)}
Tagged == {Tag(n, x) : n \in {0, 1, 2, 96}, x \in {Int_(5), Text(<<>>), Word("undefined")}}
Lists == {List(<<x, y>>) : x \in {Int_(4), Text(<<>>)}, y \in Scalars}
Values ==
    Scalars \cup Tagged \cup Lists \cup {List(<<>>), Dict(<<>>)}
    \cup {Dict(<<Text(<<>>), x, Text(<<9>>), y>>) : x \in Scalars, y \in {Int_(96), Text(<<7>>)}}
    \cup {List(<<x, x, x, x, x>>) : x \in Tagged} \cup {Dict(<<Text(<<9>>), x>>) : x \in Lists}
Odd ==
    {Word("undefined"), Item("bin", 0, <<7>>, <<>>), Item("bin", 0, <<1, 2, 3, 4, 5>>, <<>>)}
    \cup {Item("float", 0, b \o <<0, 0, 0, 0>>, <<>>) : b \in {<<1, 2, 0, 0>>, <<1, 2, 3, 4>>}}
Abroad ==
    Scalars \cup Tagged \cup Odd \cup {List(<<x, y>>) : x \in Odd, y \in {Int_(96), Text(<<1, 2, 3, 4, 5>>)}}
    \cup {Dict(<<k, x>>) : k \in {Int_(1), Int_(-5), Word("null"), Text(<<9>>)}, x \in Odd \cup {Dict(<<Int_(96), Int_(4)>>)}}

\* Cards: documents of every shape against each other, texts, bytes and a truncated one; keys a and
\* b, and keys that read as paths: "a.a", "a[0]", "" and "a]".
Value(t, v, keys, els) == [t |-> t, v |-> v, keys |-> keys, els |-> els]
Num(n) == Value("number", n, <<>>, <<>>)
Str(n) == Value("string", n, <<>>, <<>>)
Arr(els) == Value("array", 0, <<>>, els)
Obj(keys, els) == Value("object", 0, keys, els)
A == <<1>>
B == <<2>>
In(x) == Obj(<<A>>, <<x>>)
Documents ==
    {In(x) : x \in {Num(1), Num(2), Str(1), Arr(<<Num(1)>>), In(Num(1))}}
    \cup {Obj(<<A, B>>, <<x, y>>) : x \in {Num(1), Arr(<<Num(1), Num(2)>>), Arr(<<Num(2)>>)},
                                    y \in {Num(1), Str(1), In(Num(2))}}
    \cup {Arr(<<Num(1)>>), Arr(<<Num(2)>>), Obj(<<>>, <<>>)}
    \cup {In(Arr(<<Arr(<<Num(n)>>)>>)) : n \in {1, 2}} \cup {In(In(In(Num(n)))) : n \in {1, 2}}
Dotted == <<1, -1, 1>>
Numbered == <<1, -2, 100, -3>>
Misread ==
    {Obj(<<A, k>>, <<x, Num(n)>>) : k \in {Dotted, Numbered, <<>>, <<1, -3>>}, n \in {1, 2},
                                    x \in {In(Num(1)), Arr(<<Num(2)>>)}}
    \cup {Obj(<<<<>>>>, <<In(Num(1))>>)}
Lines == UNION {[1 .. n -> {Num(1), Num(2)}] : n \in 1 .. 3}
Entry(id, ts, lines, json, bytes, truncated) ==
    [id |-> id, ts |-> ts, meta |-> [topic |-> 1], lines |-> lines, json |-> json, form |-> 0, bytes |-> bytes,
     truncated |-> truncated]
Document(id, ts, d) == Entry(id, ts, <<d>>, TRUE, <<>>, FALSE)
Plain(id, ts, lines) == Entry(id, ts, lines, FALSE, <<>>, FALSE)
Between ==
    {Entry(2, 3, <<d>>, TRUE, <<>>, cut) : d \in {In(Num(3)), Obj(<<B>>, <<Num(3)>>)}, cut \in BOOLEAN}
    \cup {Plain(2, 3, <<Num(1)>>), Entry(2, 3, <<Num(0)>>, FALSE, <<1>>, FALSE)}
Listed ==
    {<<Document(1, 1, a), Document(3, 9, b)>> : a, b \in Documents}
    \cup {<<Document(1, 1, a), m, Document(3, 9, b)>> : a, b \in {In(Num(1)), In(Num(2))}, m \in Between}
    \cup {<<Document(1, 1, a), Document(3, 9, b)>> : a \in Misread, b \in Misread \cup {In(In(Num(2)))}}
    \cup {<<Plain(1, 1, a), Plain(3, 9, b)>> : a, b \in Lines}
    \cup {<<Document(1, 1, In(Num(1))), Document(2, 3, In(Num(1))), Document(3, 5, In(Num(2))), Document(4, 15, In(Num(3)))>>}

\* Subscriptions: one filter, shared or not; the broker refuses one and grants the other less.
Shared == [group |-> "g", raw |-> "a"]
Unshared == [group |-> "none", raw |-> "a"]

TrafficPanel == INSTANCE TopicTraffic
    WITH Topic <- Traffic, Caps <- {2, 3}, MaxVisible <- 1, MaxNodes <- 3, StaleAfter <- 0,
         SeriesCap <- 2, Depths <- {1, 2}, MaxSeconds <- 1, MaxMessages <- 2, MaxClicks <- 2,
         clock <- v1, stats <- v2, tableCap <- v3, cap <- v4, closure <- v5, flight <- v6,
         rows <- v7, series <- v8, snapshot <- v9, needle <- v10, open <- v11, clicks <- v12, clearing <- v13

RunPanel == INSTANCE RunPanels
    WITH Ids <- {1, 2}, MaxRuns <- 1, MaxCount <- 1, MaxWaiting <- 2, MaxClicks <- 3,
         kind <- v1, runs <- v2, starting <- v3, waiting <- v4, calls <- v5, lastError <- v6,
         active <- v7, openBody <- v8, clicks <- v9

Cbor == INSTANCE CborCodec
    WITH Short <- 4, MaxHigh <- 20, MaxDepth <- 4, Trees <- Values, Foreign <- Abroad,
         value <- v1, bytes <- v2, decoded <- v3, stage <- v4

Cards == INSTANCE MessageDiff
    WITH Stored <- Listed, MaxDepth <- 3, MaxChanges <- 2, MaxLineProduct <- 6, GapFloor <- 4,
         MaxClicks <- 3,
         stored <- v1, rows <- v2, compareIds <- v3, path <- v4, clicks <- v5

Link == INSTANCE Connection
    WITH Raw <- {"a"}, Group <- {"g"}, Refused <- {Shared}, Capped <- {Unshared},
         MaxConnects <- 2, MaxPolls <- 1, MaxEvents <- 3, MaxDrops <- 1,
         Saved <- {{Shared, Unshared}}, MaxClicks <- 2,
         config <- v1, status <- v2, isConnecting <- v3, connectionError <- v4, connects <- v5,
         subscriptions <- v6, form <- v7, calls <- v8, console <- v9, caps <- v10, ack <- v11,
         seen <- v12, polls <- v13, warned <- v14, link <- v15, protocol <- v16, offered <- v17,
         registry <- v18, asked <- v19, refused <- v20, capped <- v21, events <- v22,
         drops <- v23, clicks <- v24

\* The variables a panel leaves unused are zero.
Past13 == <<v14, v15, v16, v17, v18, v19, v20, v21, v22, v23, v24>>
Past9 == <<v10, v11, v12, v13, Past13>>
Past5 == <<v6, v7, v8, v9, Past9>>
Past4 == <<v5, Past5>>
Zero13 == /\ v14 = 0 /\ v15 = 0 /\ v16 = 0 /\ v17 = 0 /\ v18 = 0
          /\ v19 = 0 /\ v20 = 0 /\ v21 = 0 /\ v22 = 0 /\ v23 = 0 /\ v24 = 0
Zero9 == v10 = 0 /\ v11 = 0 /\ v12 = 0 /\ v13 = 0 /\ Zero13
Zero5 == v6 = 0 /\ v7 = 0 /\ v8 = 0 /\ v9 = 0 /\ Zero9
Zero4 == v5 = 0 /\ Zero5

Init ==
    /\ panel \in Panels
    /\ \/ panel = "traffic" /\ TrafficPanel!Init /\ Zero13
       \/ panel = "runs" /\ RunPanel!Init /\ Zero9
       \/ panel = "cbor" /\ Cbor!Init /\ Zero4
       \/ panel = "cards" /\ Cards!Init /\ Zero5
       \/ panel = "links" /\ Link!Init

Next ==
    /\ panel' = panel
    /\ \/ panel = "traffic" /\ TrafficPanel!Next /\ UNCHANGED Past13
       \/ panel = "runs" /\ RunPanel!Next /\ UNCHANGED Past9
       \/ panel = "cbor" /\ Cbor!Next /\ UNCHANGED Past4
       \/ panel = "cards" /\ Cards!Next /\ UNCHANGED Past5
       \/ panel = "links" /\ Link!Next

Spec == Init /\ [][Next]_vars
    /\ WF_vars(panel = "runs" /\ RunPanel!Refresh /\ UNCHANGED <<panel, Past9>>)
    /\ WF_vars(panel = "runs" /\ RunPanel!DeliverFirst /\ UNCHANGED <<panel, Past9>>)
    /\ WF_vars(panel = "links" /\ Link!Poll /\ UNCHANGED panel)
    /\ WF_vars(panel = "links" /\ Link!AnswerFirst /\ UNCHANGED panel)
    /\ WF_vars(panel = "links" /\ Link!Deliver /\ UNCHANGED panel)

-----------------------------------------------------------------------------
\* The list, the tree and the device cards say together what the table of counters holds.
TreeTellsTable == panel = "traffic" => TrafficPanel!TreeTellsTable

\* A list of runs that is watched ends up as the backend has it, whatever answers overtook each other.
ListCatchesUp ==
    (<>[](panel = "runs" /\ RunPanel!OnScreen) /\ <>[][panel = "runs" => RunPanel!NothingHappens]_vars)
        => <>[](panel = "runs" => RunPanel!CaughtUp)

\* What is encoded is decoded to what it was.
RoundTrip == panel = "cbor" => Cbor!RoundTrip

\* The comparison of two messages and the probe of one field say what is so, and agree.
CardsAgree == panel = "cards" => Cards!CardsAgree

\* What the chips of the subscriptions say comes back to what the backend remembers.
VerdictCatchesUp == []<>(panel = "links" => Link!ChipsTell)
=============================================================================
