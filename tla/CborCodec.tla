----------------------------- MODULE CborCodec -----------------------------
(***************************************************************************)
(* The CBOR encoder and decoder of the console (cbor.ts).  The layout of a *)
(* byte follows from Short, the number of arguments that fit into the      *)
(* initial byte: with Short = 24 it is that of RFC 8949, where a byte has  *)
(* 256 values; TLC takes a smaller one, so that every width of argument is *)
(* within reach of its integers.                                           *)
(* A value is a tree of nodes [k, n, b, c]: its kind, a number, bytes, and *)
(* the nodes under it (a map has them as key, value, key, value...).       *)
(* What is composed here is JSON; other senders are external: they may use *)
(* wider arguments than they need, leave lengths open, and send what JSON  *)
(* cannot say.                                                             *)
(***************************************************************************)
EXTENDS Integers, Sequences, FiniteSets, SequencesExt

CONSTANTS
    Short,    \* arguments below it stand in the initial byte (24)
    MaxHigh,  \* upper half of Number.MAX_SAFE_INTEGER (2^21 - 1)
    MaxDepth, \* bound on the nesting of a value
    Trees,    \* the values that are composed; an object with a "__tag" is a tag
    Foreign   \* the values other senders send

VARIABLES value, bytes, decoded, stage

vars == <<value, bytes, decoded, stage>>

Infos == Short + 8
Base == 8 * Infos  \* values of an octet
Break == Base - 1

Node(k, n, b, c) == [k |-> k, n |-> n, b |-> b, c |-> c]
Int_(n) == Node("int", n, <<>>, <<>>)
Simple(k) == Node(k, 0, <<>>, <<>>)
Str(b) == Node("str", 0, b, <<>>)
Bin(b) == Node("bin", 0, b, <<>>)
Arr(c) == Node("arr", 0, <<>>, c)
Obj(c) == Node("map", 0, <<>>, c)
Tag(n, v) == Node("tag", n, <<>>, <<v>>)
\* A float is its bits; a narrow one is widened on the right.
Float(b) == Node("float", 0, b \o [i \in 1 .. 8 - Len(b) |-> 0], <<>>)
Fail == Simple("error")

----------------------------------------------------------------------------
(* Encoder.                                                                *)

\* n in w octets, most significant first.
BigEndian(n, w) ==
    LET part[i \in 0 .. w] == IF i = 0 THEN n ELSE part[i - 1] \div Base
    IN  [i \in 1 .. w |-> part[w - i] % Base]

\* Variant: the first argument a width cannot hold is given that width.
WidthAtLimit(arg) ==
    IF arg <= Base THEN 0 ELSE IF arg <= Base ^ 2 THEN 1 ELSE IF arg <= Base ^ 4 THEN 2 ELSE 3

\* The argument takes 2 ^ Width octets.
Width(arg) == IF arg < Base THEN 0 ELSE IF arg < Base ^ 2 THEN 1 ELSE IF arg < Base ^ 4 THEN 2 ELSE 3

head(major, arg) ==
    IF arg < Short THEN <<major * Infos + arg>>
    ELSE LET w == Width(arg) IN <<major * Infos + Short + w>> \o BigEndian(arg, 2 ^ w)

\* Entries of a map whose value is not undefined.
Entries(c) ==
    FlattenSeq([i \in 1 .. Len(c) \div 2 |->
        IF c[2 * i].k = "undefined" THEN <<>> ELSE <<c[2 * i - 1], c[2 * i]>>])

\* A value and everything under it.
Nodes(tree) ==
    LET level[i \in 0 .. MaxDepth] ==
            IF i = 0 THEN {tree} ELSE UNION {Range(v.c) : v \in level[i - 1]}
    IN  UNION Range(level)

encodeCbor(tree) ==
    LET enc[v \in Nodes(tree)] ==
            LET under(c) == FlattenSeq([i \in DOMAIN c |-> enc[c[i]]]) IN
            CASE v.k = "null" -> <<7 * Infos + Short - 2>>
              [] v.k = "undefined" -> <<7 * Infos + Short - 1>>
              [] v.k = "false" -> <<7 * Infos + Short - 4>>
              [] v.k = "true" -> <<7 * Infos + Short - 3>>
              [] v.k = "int" -> IF v.n >= 0 THEN head(0, v.n) ELSE head(1, -v.n - 1)
              [] v.k = "float" -> <<7 * Infos + Short + 3>> \o v.b
              [] v.k = "str" -> head(3, Len(v.b)) \o v.b
              [] v.k = "bin" -> head(2, Len(v.b)) \o v.b
              [] v.k = "arr" -> head(4, Len(v.c)) \o under(v.c)
              [] v.k = "tag" -> head(6, v.n) \o under(v.c)
              [] v.k = "map" -> head(5, Len(Entries(v.c)) \div 2) \o under(Entries(v.c))
    IN  enc[tree]

----------------------------------------------------------------------------
(* Decoder.  Every reader returns [v, at]: a node and the next offset.     *)

Got(v, at) == [v |-> v, at |-> at]
Bad == Got(Fail, 0)
IsBad(r) == r.v.k = "error"
FromBigEndian(s) == FoldLeft(LAMBDA n, o : n * Base + o, 0, s)

\* The argument of an initial byte; -1 when it is cut off, too large or undefined.
readArg(s, info, at) ==
    IF info < Short THEN Got(Int_(info), at)
    ELSE IF info > Short + 3 THEN Bad
    ELSE LET w == 2 ^ (info - Short)
             octets == SubSeq(s, at, at + w - 1)
         IN  IF at + w - 1 > Len(s) THEN Bad
             ELSE IF w = 8 /\ FromBigEndian(SubSeq(octets, 1, 4)) > MaxHigh THEN Bad
             ELSE Got(Int_(FromBigEndian(octets)), at + w)

\* A key that is not a string is printed: characters below 0 stand for what is printed.
Printed == <<"int", "bin", "arr", "map", "tag", "float", "null", "undefined", "true", "false">>
keyToProp(k) ==
    IF k.k = "str" THEN k
    ELSE Str(<<-SelectInSeq(Printed, LAMBDA x : x = k.k), k.n>> \o k.b)

\* Keys and values of a map; a key that comes again replaces what it stood for.
ToObject(c) ==
    LET put(acc, i) ==
            LET key == keyToProp(c[2 * i - 1])
                at == {j \in 1 .. Len(acc) \div 2 : acc[2 * j - 1] = key}
            IN  IF at = {} THEN acc \o <<key, c[2 * i]>>
                ELSE [acc EXCEPT ![2 * (CHOOSE j \in at : TRUE)] = c[2 * i]]
    IN  Obj(FoldLeft(put, <<>>, [i \in 1 .. Len(c) \div 2 |-> i]))

Joined(parts, kind) == FlattenSeq([i \in DOMAIN parts |-> IF parts[i].k = kind THEN parts[i].b ELSE <<>>])

Until == -1 \* as many items as there are before the break

decodeItem(s) ==
    LET n == Len(s)
        \* read[<<at, left>>]: one item when left is 0, else a list of left items.
        read[p \in (1 .. n + 1) \X ({Until, -2} \cup 0 .. 2 * n + 2)] ==
            LET at == p[1]
                left == p[2]
            IN
            IF left = Until \/ left = -2 THEN \* items up to the break, single or in pairs
                IF at <= n /\ s[at] = Break THEN Got(Arr(<<>>), at + 1)
                ELSE LET one == read[<<at, 0>>]
                         two == IF left = Until \/ IsBad(one) THEN one ELSE read[<<one.at, 0>>]
                         rest == IF IsBad(two) THEN Bad ELSE read[<<two.at, left>>]
                         these == IF left = Until THEN <<one.v>> ELSE <<one.v, two.v>>
                     IN  IF IsBad(rest) THEN Bad ELSE Got(Arr(these \o rest.v.c), rest.at)
            ELSE IF left > 0 THEN \* left - 1 more items
                IF left = 1 THEN Got(Arr(<<>>), at)
                ELSE LET one == read[<<at, 0>>]
                         rest == IF IsBad(one) THEN Bad ELSE read[<<one.at, left - 1>>]
                     IN  IF IsBad(rest) THEN Bad ELSE Got(Arr(<<one.v>> \o rest.v.c), rest.at)
            ELSE IF at > n THEN Bad
            ELSE
                LET major == s[at] \div Infos
                    info == s[at] % Infos
                    open == info = Infos - 1
                    arg == readArg(s, info, at + 1)
                    many(k) == IF arg.v.n * k > n - arg.at + 1 THEN Bad ELSE read[<<arg.at, arg.v.n * k + 1>>]
                    items(k) == IF open THEN read[<<at + 1, IF k = 2 THEN -2 ELSE Until>>]
                                ELSE IF IsBad(arg) THEN Bad ELSE many(k)
                    text(Make(_), kind) ==
                        IF open THEN LET r == read[<<at + 1, Until>>]
                                     IN IF IsBad(r) THEN Bad ELSE Got(Make(Joined(r.v.c, kind)), r.at)
                        ELSE IF IsBad(arg) \/ arg.at + arg.v.n - 1 > n THEN Bad
                        ELSE Got(Make(SubSeq(s, arg.at, arg.at + arg.v.n - 1)), arg.at + arg.v.n)
                IN
                CASE major = 0 -> arg
                  [] major = 1 -> IF IsBad(arg) THEN Bad ELSE Got(Int_(-1 - arg.v.n), arg.at)
                  [] major = 2 -> text(Bin, "bin")
                  [] major = 3 -> text(Str, "str")
                  [] major = 4 -> items(1)
                  [] major = 5 -> LET r == items(2) IN IF IsBad(r) THEN Bad ELSE Got(ToObject(r.v.c), r.at)
                  [] major = 6 -> LET r == IF IsBad(arg) THEN Bad ELSE read[<<arg.at, 0>>]
                                  IN  IF IsBad(r) THEN Bad
                                      ELSE Got(IF arg.v.n \in {0, 1} THEN r.v ELSE Tag(arg.v.n, r.v), r.at)
                  [] OTHER -> CASE info = Short - 4 -> Got(Simple("false"), at + 1)
                                [] info = Short - 3 -> Got(Simple("true"), at + 1)
                                [] info = Short - 2 -> Got(Simple("null"), at + 1)
                                [] info = Short - 1 -> Got(Simple("undefined"), at + 1)
                                [] info \in Short + 1 .. Short + 3 ->
                                     LET to == at + 2 ^ (info - Short)
                                     IN  IF to > n THEN Bad ELSE Got(Float(SubSeq(s, at + 1, to)), to + 1)
                                [] OTHER -> Got(Int_(info), at + 1)
    IN  read[<<1, 0>>]

\* What follows the first item is not looked at.
decodeCbor(s) == IF s = <<>> THEN Fail ELSE decodeItem(s).v

----------------------------------------------------------------------------
(* Other senders.                                                          *)

WideHead(major, arg, w) ==
    LET wide == IF Width(arg) < w THEN w ELSE Width(arg)
    IN  <<major * Infos + Short + wide>> \o BigEndian(arg, 2 ^ wide)

\* With arguments of 2 ^ w octets at least; a float as short as its bits allow.
Sent(tree, w, open) ==
    LET sent[v \in Nodes(tree)] ==
            LET under == FlattenSeq([i \in DOMAIN v.c |-> sent[v.c[i]]])
                sized(major, n, inside) == WideHead(major, n, w) \o inside
                group(major, n, inside) ==
                    IF open THEN <<major * Infos + Infos - 1>> \o inside \o <<Break>> ELSE sized(major, n, inside)
                text(major) ==
                    LET chunk == sized(major, Len(v.b), v.b) IN IF open THEN group(major, 0, chunk) ELSE chunk
                narrow == CHOOSE f \in 1 .. 3 : /\ \A i \in 2 ^ f + 1 .. 8 : v.b[i] = 0
                                                /\ f = 1 \/ \E i \in 2 ^ (f - 1) + 1 .. 8 : v.b[i] # 0
            IN  CASE v.k = "int" -> IF v.n >= 0 THEN WideHead(0, v.n, w) ELSE WideHead(1, -v.n - 1, w)
                  [] v.k = "str" -> text(3)
                  [] v.k = "bin" -> text(2)
                  [] v.k = "arr" -> group(4, Len(v.c), under)
                  [] v.k = "map" -> group(5, Len(v.c) \div 2, under)
                  [] v.k = "tag" -> sized(6, v.n, under)
                  [] v.k = "float" -> <<7 * Infos + Short + narrow>> \o SubSeq(v.b, 1, 2 ^ narrow)
                  [] OTHER -> encodeCbor(v)
    IN  sent[tree]

----------------------------------------------------------------------------
(* A payload is composed and shown, or arrives and is shown.               *)

payloadToBytes ==
    /\ stage = "compose"
    /\ bytes' = encodeCbor(value) /\ stage' = "show"
    /\ UNCHANGED <<value, decoded>>

Arrive(w, open) ==
    /\ stage = "abroad"
    /\ bytes' = Sent(value, w, open) /\ stage' = "show"
    /\ UNCHANGED <<value, decoded>>

Show ==
    /\ stage = "show"
    /\ decoded' = decodeCbor(bytes) /\ stage' = "shown"
    /\ UNCHANGED <<value, bytes>>

Init ==
    /\ decoded = Fail /\ bytes = <<>>
    /\ \/ value \in Trees /\ stage = "compose"
       \/ value \in Foreign /\ stage = "abroad"

Next == payloadToBytes \/ Show \/ \E w \in 0 .. 3, open \in BOOLEAN : Arrive(w, open)

Spec == Init /\ [][Next]_vars

----------------------------------------------------------------------------
\* A value as it is shown: a key is printed, the tags of time are not kept.
Carried(tree) ==
    LET seen[v \in Nodes(tree)] ==
            LET inside == [i \in DOMAIN v.c |-> seen[v.c[i]]]
                printed == [i \in DOMAIN inside |-> IF i % 2 = 1 THEN keyToProp(inside[i]) ELSE inside[i]]
            IN  IF v.k = "tag" /\ v.n \in {0, 1} THEN inside[1]
                ELSE [v EXCEPT !.c = IF v.k = "map" THEN printed ELSE inside]
    IN  seen[tree]

\* What is encoded is shown as it was, whatever the width of its lengths and numbers, here or by
\* any other sender (cbor.ts: encodeValue, decodeItem); and what arrives cut short, wherever it is
\* cut, is refused and not shown as something else (cbor.ts: "CBOR: unexpected end of input").
RoundTrip ==
    stage = "shown" =>
        /\ decoded = Carried(value)
        /\ \A n \in 0 .. Len(bytes) - 1 : decodeCbor(SubSeq(bytes, 1, n)) = Fail
=============================================================================
