------------------------------- MODULE Senml -------------------------------
(***************************************************************************)
(* The SenML reader (senml.ts): a pack is a sequence of records, each a    *)
(* function from labels to values; base fields hold for the record they    *)
(* stand in and all that follow.  A value has a type beside what it is,    *)
(* and a label is read only when its value has the type it must have; a    *)
(* vb is read by its truth whatever its type.  Names are sequences,        *)
(* numbers are scaled: a time of Threshold seconds or more is absolute,    *)
(* below it is relative to the base time.                                  *)
(***************************************************************************)
EXTENDS Integers, Sequences, FiniteSets, Functions, FiniteSetsExt

CONSTANTS
    Packs,     \* the packs that arrive
    Threshold, \* ABSOLUTE_EPOCH_THRESHOLD (2^28)
    Version,   \* SUPPORTED_VERSION (2)
    MaxPack,   \* records a pack may have to be taken for SenML (200)
    Now        \* the reader's clock, in seconds

VARIABLES pack, shown

vars == <<pack, shown>>

None == <<>>
BaseLabels == {"bver", "bn", "bt", "bu", "bv", "bs"}
Primaries == {"v", "vs", "vb", "vd"}
Known == BaseLabels \cup Primaries \cup {"n", "u", "s", "t", "ut"}
Critical == "x_"   \* a label that ends in an underscore

TypeOf(label) ==
    IF label \in {"bn", "bu", "n", "u", "vs"} THEN "text" ELSE IF label = "vd" THEN "bytes" ELSE "number"

\* The record has the label with a value it is read for.
Has(rec, label) == label \in DOMAIN rec /\ (label = "vb" \/ rec[label].type = TypeOf(label))
Get(rec, label, default) == IF Has(rec, label) THEN rec[label].of ELSE default

IsPack(p) ==
    /\ p \in Seq(Range(p))
    /\ \A i \in DOMAIN p : \A l \in DOMAIN p[i] : p[i][l].type = "number" => p[i][l].of \in Int

----------------------------------------------------------------------------
looksLikeSenml(p) ==
    /\ Len(p) \in 1 .. MaxPack
    /\ \A i \in DOMAIN p : DOMAIN p[i] \cap Known # {}
    /\ \E i \in DOMAIN p : /\ DOMAIN p[i] \cap (Primaries \cup {"s"}) # {}
                           /\ DOMAIN p[i] \cap {"n", "bn", "u", "t", "bt"} # {}

IsAbsolute(sec) == sec >= Threshold \/ -sec >= Threshold

resolveTime(base, sec) == IF IsAbsolute(sec) THEN sec ELSE base + sec

\* What the records so far have set.
Base0 == [name |-> <<>>, unit |-> None, time |-> Now, value |-> 0, ver |-> None,
          failed |-> FALSE, readings |-> <<>>, warnings |-> 0]

\* A critical label, a version mixed or too new and the pack is refused.
Refused(acc, rec) ==
    \/ Critical \in DOMAIN rec
    \/ Has(rec, "bver") /\ (rec["bver"].of > Version \/ acc.ver \notin {None, <<rec["bver"].of>>})

\* Variant: a base name holds for its own record only.
SetBaseForOne(acc, rec) ==
    [acc EXCEPT
        !.ver = IF Has(rec, "bver") THEN <<rec["bver"].of>> ELSE @,
        !.name = Get(rec, "bn", <<>>),
        !.unit = IF Has(rec, "bu") THEN <<rec["bu"].of>> ELSE @,
        !.value = Get(rec, "bv", @),
        !.time = IF Has(rec, "bt") THEN resolveTime(Now, rec["bt"].of) ELSE @]

SetBase(acc, rec) ==
    [acc EXCEPT
        !.ver = IF Has(rec, "bver") THEN <<rec["bver"].of>> ELSE @,
        !.name = Get(rec, "bn", @),
        !.unit = IF Has(rec, "bu") THEN <<rec["bu"].of>> ELSE @,
        !.value = Get(rec, "bv", @),
        !.time = IF Has(rec, "bt") THEN resolveTime(Now, rec["bt"].of) ELSE @]

Reading(acc, rec, kind, value) ==
    [name |-> acc.name \o Get(rec, "n", <<>>),
     unit |-> IF Has(rec, "u") THEN <<rec["u"].of>> ELSE acc.unit,
     kind |-> kind, value |-> value,
     time |-> resolveTime(acc.time, Get(rec, "t", 0))]

\* The readings of one record: its sum first, then its values; one of another type gives none.
ReadingsOf(acc, rec) ==
    LET value(label) == IF label = "v" THEN acc.value + rec["v"].of ELSE rec[label].of
        one(label, kind) == IF Has(rec, label) THEN <<Reading(acc, rec, kind, value(label))>> ELSE <<>>
    IN  one("s", "sum") \o one("v", "v") \o one("vs", "vs") \o one("vb", "vb") \o one("vd", "vd")

\* Warned of: labels the reader does not know, a record with nothing to read, more than one
\* primary value, a vd that is no byte string (but not a v or a vs of another type).
WarningsOf(rec) ==
    LET values == DOMAIN rec \cap Primaries
        reads == values # {} \/ Has(rec, "s") IN
    Cardinality(DOMAIN rec \ Known)
    + (IF ~reads /\ ~(DOMAIN rec \subseteq BaseLabels) THEN 1 ELSE 0)
    + (IF Cardinality(values) > 1 THEN 1 ELSE 0)
    + (IF "vd" \in values /\ ~Has(rec, "vd") THEN 1 ELSE 0)

Step(acc, rec) ==
    IF acc.failed \/ Refused(acc, rec) THEN [acc EXCEPT !.failed = TRUE]
    ELSE LET now == SetBase(acc, rec)
         IN  [now EXCEPT !.readings = @ \o ReadingsOf(now, rec), !.warnings = @ + WarningsOf(rec)]

\* Record after record.
parseSenmlPack(p) ==
    LET after[n \in 0 .. Len(p)] == IF n = 0 THEN Base0 ELSE Step(after[n - 1], p[n])
    IN  after[Len(p)]

\* A row of the table: the unit stands only beside a number.
senmlToTable(r) ==
    [i \in DOMAIN r.readings |->
        [r.readings[i] EXCEPT !.unit = IF r.readings[i].kind \in {"v", "sum"} THEN @ ELSE None]]

----------------------------------------------------------------------------
\* The row shows the pack as a table, or falls back when it cannot be read.
Show ==
    /\ shown = None
    /\ LET r == parseSenmlPack(pack)
       IN  shown' = <<[table |-> ~r.failed, rows |-> IF r.failed THEN <<>> ELSE senmlToTable(r),
                       warnings |-> r.warnings, auto |-> looksLikeSenml(pack)]>>
    /\ UNCHANGED pack

Init == pack \in Packs /\ shown = None

Next == Show

Spec == Init /\ [][Next]_vars

----------------------------------------------------------------------------
\* The last record up to i that sets a base field, 0 if none does.
SetAt(i, label) == Max({0} \cup {j \in 1 .. i : Has(pack[j], label)})
InForce(i, label, default) == IF SetAt(i, label) = 0 THEN default ELSE pack[SetAt(i, label)][label].of

TimeOf(i) == LET bt == InForce(i, "bt", 0)
                 t == Get(pack[i], "t", 0)
             IN  IF IsAbsolute(t) THEN t ELSE IF IsAbsolute(bt) THEN bt + t ELSE Now + bt + t

\* The row that a value of record i must stand in.
Resolved(i, kind, value) ==
    [name |-> InForce(i, "bn", <<>>) \o Get(pack[i], "n", <<>>),
     unit |-> IF kind \notin {"v", "sum"} THEN None
              ELSE IF Has(pack[i], "u") THEN <<pack[i]["u"].of>>
              ELSE IF SetAt(i, "bu") = 0 THEN None ELSE <<InForce(i, "bu", 0)>>,
     kind |-> kind, value |-> value, time |-> TimeOf(i)]

RowsOf(i) ==
    {Resolved(i, l, IF l = "v" THEN InForce(i, "bv", 0) + pack[i]["v"].of ELSE pack[i][l].of) :
        l \in {m \in Primaries : Has(pack[i], m)}}
    \cup {Resolved(i, "sum", pack[i]["s"].of) : l \in {m \in {"s"} : Has(pack[i], m)}}

\* The table of a pack that is shown has a row for every value and every sum in it that has the
\* type its label must have, and no other: each under the name, unit and time of the base fields
\* in force at its record, a number with the base value added (senml.ts:137: "base fields apply to
\* this record and every one after it").  A field of another type is as if it were not there: a
\* base field keeps what it was, a value has no row.
ValuesResolved ==
    shown # None /\ shown[1].table => Range(shown[1].rows) = UNION {RowsOf(i) : i \in DOMAIN pack}
=============================================================================
