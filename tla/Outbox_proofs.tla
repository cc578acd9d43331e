--------------------------- MODULE Outbox_proofs ---------------------------
(***************************************************************************)
(* What TLC checks of Outbox on small instances, proved for any messages,  *)
(* sinks, slots and attempts, and any number of restarts, disk errors and  *)
(* edits of the rule.                                                      *)
(***************************************************************************)
EXTENDS Outbox, SequenceTheorems, TLAPS

-----------------------------------------------------------------------------
(* Types *)

\* The rule a backend starts with is a rule.
LEMMA FirstRule == [mode |-> "on", sinks |-> [i \in Sink |-> i]] \in Rules
<1>1. [i \in Sink |-> i] \in [1 .. Width -> Sink \cup {Blank}]
  BY DEF Sink
<1>2. [i \in Sink |-> i] \in Seq(Sink \cup {Blank})
  BY <1>1, SeqDef, OutboxAssumption
<1> QED
  BY <1>2 DEF Rules

\* A sink that is there is an address.
LEMMA SinkType ==
    ASSUME rule \in Rules, NEW i, SinkAt(i) # Blank
    PROVE  SinkAt(i) \in Sink /\ i \in Nat
<1>1. i \in DOMAIN rule.sinks /\ rule.sinks \in Seq(Sink \cup {Blank})
  BY DEF SinkAt, Rules
<1>2. i \in 1 .. Len(rule.sinks)
  BY <1>1
<1>3. rule.sinks[i] \in Sink \cup {Blank}
  BY <1>1, <1>2, ElementOfSeq
<1> QED
  BY <1>1, <1>2, <1>3 DEF SinkAt

\* Taking a sink out leaves a list of sinks.
LEMMA RemoveAtType ==
    ASSUME NEW S, NEW s \in Seq(S), NEW i \in 1 .. Len(s)
    PROVE  RemoveAt(s, i) \in Seq(S)
<1>1. /\ SubSeq(s, 1, i - 1) \in Seq(S)
      /\ SubSeq(s, i + 1, Len(s)) \in Seq(S)
  <2>1. Len(s) \in Nat
    BY LenProperties
  <2>2. \A k \in 1 .. i - 1 : s[k] \in S
    BY <2>1, ElementOfSeq
  <2>3. \A k \in i + 1 .. Len(s) : s[k] \in S
    BY <2>1, ElementOfSeq
  <2> QED
    BY <2>1, <2>2, <2>3, SubSeqProperties
<1> QED
  BY <1>1, ConcatProperties DEF RemoveAt

\* A row is none, pending or dead.
LEMMA RowKinds ==
    ASSUME NEW r \in Rows
    PROVE  \/ r = NoRow
           \/ r.state = "pending" /\ r \in [state : {"pending"}, attempts : 0 .. MaxAttempts - 1,
                                           due : BOOLEAN]
           \/ r = [state |-> "dead", attempts |-> MaxAttempts, due |-> FALSE]
BY DEF Rows

\* Only a pending row becomes due.
LEMMA SetDue ==
    ASSUME NEW r \in Rows, NEW d \in BOOLEAN, d => r.state = "pending"
    PROVE  /\ [r EXCEPT !.due = d] \in Rows
           /\ [r EXCEPT !.due = d].state = r.state
           /\ [r EXCEPT !.due = d].attempts = r.attempts
<1>1. CASE r.state = "pending"
  <2>1. r \in [state : {"pending"}, attempts : 0 .. MaxAttempts - 1, due : BOOLEAN]
    BY <1>1, RowKinds DEF NoRow
  <2>2. [r EXCEPT !.due = d] \in
          [state : {"pending"}, attempts : 0 .. MaxAttempts - 1, due : BOOLEAN]
    BY <2>1
  <2> QED
    BY <2>1, <2>2 DEF Rows
<1>2. CASE r.state # "pending"
  <2>1. d = FALSE
    BY <1>2
  <2>2. r = NoRow \/ r = [state |-> "dead", attempts |-> MaxAttempts, due |-> FALSE]
    BY <1>2, RowKinds
  <2>3. [r EXCEPT !.due = FALSE] = r
    BY <2>2 DEF NoRow
  <2> QED
    BY <2>1, <2>3
<1> QED
  BY <1>1, <1>2

\* The failure of a delivery leaves a row, pending or dead.
LEMMA FailureType ==
    ASSUME TypeOK, NEW e \in Entry, NEW n \in 0 .. MaxAttempts - 1, RecordFailure(e, n)
    PROVE  row' \in [Entry -> Rows]
<1>1. CASE n + 1 >= MaxAttempts
  <2>1. n + 1 = MaxAttempts
    BY <1>1, OutboxAssumption
  <2>2. [state |-> "dead", attempts |-> MaxAttempts, due |-> FALSE] \in Rows
    BY DEF Rows
  <2> QED
    BY <1>1, <2>1, <2>2 DEF RecordFailure, TypeOK
<1>2. CASE ~(n + 1 >= MaxAttempts)
  <2>1. n + 1 \in 0 .. MaxAttempts - 1
    BY <1>2, OutboxAssumption
  <2>2. [state |-> "pending", attempts |-> n + 1, due |-> FALSE] \in Rows
    BY <2>1 DEF Rows
  <2> QED
    BY <1>2, <2>2 DEF RecordFailure, TypeOK
<1> QED
  BY <1>1, <1>2

\* Taking a permit, and giving one back, leaves counts.
LEMMA LaunchType ==
    ASSUME TypeOK, NEW f \in Flights, Launch(f)
    PROVE  permits' \in Nat /\ flying' \in [Flights -> Nat]
BY DEF TypeOK, Launch

LEMMA LandType ==
    ASSUME TypeOK, NEW f \in UnderWay, Land(f)
    PROVE  permits' \in Nat /\ flying' \in [Flights -> Nat]
BY DEF TypeOK, Land, UnderWay

\* Every step of a message's arrival, of the pump and of a delivery preserves the types.
LEMMA ArriveTypes ==
    ASSUME TypeOK, NEW e \in Entry, Arrive(e) \/ ArriveRefused(e) \/ Elapse(e)
    PROVE  TypeOK'
<1>1. CASE Arrive(e)
  <2>1. PICK i \in DOMAIN rule.sinks :
          /\ SinkAt(i) # Blank
          /\ target' = [target EXCEPT ![e] = i]
          /\ owed' = [owed EXCEPT ![e] = SinkAt(i)]
          /\ Launch([kind |-> "first", entry |-> e, attempts |-> 0, sink |-> SinkAt(i)])
    BY <1>1 DEF Arrive
  <2>2. SinkAt(i) \in Sink /\ i \in Nat
    BY <2>1, SinkType DEF TypeOK
  <2>3. [kind |-> "first", entry |-> e, attempts |-> 0, sink |-> SinkAt(i)] \in Flights
    BY <2>2, OutboxAssumption DEF Flights
  <2>4. permits' \in Nat /\ flying' \in [Flights -> Nat]
    BY <2>1, <2>3, LaunchType
  <2> QED
    BY <1>1, <2>1, <2>2, <2>4 DEF Arrive, TypeOK
<1>2. CASE ArriveRefused(e)
  BY <1>2 DEF ArriveRefused, TypeOK, history
<1>3. CASE Elapse(e)
  <2>1. [row[e] EXCEPT !.due = TRUE] \in Rows
    BY <1>3, SetDue DEF Elapse, TypeOK
  <2>2. row' \in [Entry -> Rows]
    BY <1>3, <2>1 DEF Elapse, TypeOK
  <2> QED
    BY <1>3, <2>2 DEF Elapse, TypeOK, tableSame
<1> QED
  BY <1>1, <1>2, <1>3

LEMMA PumpTypes ==
    ASSUME TypeOK, PumpStarts \/ \E b \in batch : Pump(b) \/ PumpUnfitUnwritten(b)
    PROVE  TypeOK'
<1>1. CASE PumpStarts
  <2>1. \A e \in Entry : row[e].due => row[e].attempts \in 0 .. MaxAttempts - 1
    BY RowKinds DEF TypeOK, NoRow
  <2>2. batch' \subseteq Copies
    BY <1>1, <2>1 DEF PumpStarts, Copies
  <2> QED
    BY <1>1, <2>2 DEF PumpStarts, TypeOK, history
<1>2. ASSUME NEW b \in batch, Pump(b) \/ PumpUnfitUnwritten(b)
      PROVE  TypeOK'
  <2>1. b.entry \in Entry /\ b.attempts \in 0 .. MaxAttempts - 1
    BY DEF TypeOK, Copies
  <2>2. CASE PumpUnfit(b)
    <3>1. row' \in [Entry -> Rows]
      <4>1. MaxAttempts - 1 \in 0 .. MaxAttempts - 1
        BY OutboxAssumption
      <4> QED
        BY <2>1, <2>2, <4>1, FailureType DEF PumpUnfit
    <3> QED
      BY <2>1, <2>2, <3>1 DEF PumpUnfit, TypeOK, Looked, pumpSame
  <2>3. CASE PumpSends(b)
    <3> DEFINE i == target[b.entry]
               f == [kind |-> "retry", entry |-> b.entry, attempts |-> b.attempts,
                     sink |-> SinkAt(i)]
    <3>1. SinkAt(i) \in Sink
      BY <2>3, SinkType DEF PumpSends, Fit, TypeOK
    <3>2. f \in Flights
      BY <2>1, <3>1 DEF Flights
    <3>3. permits' \in Nat /\ flying' \in [Flights -> Nat]
      BY <2>3, <3>2, LaunchType DEF PumpSends
    <3> QED
      BY <2>3, <3>3 DEF PumpSends, TypeOK, Looked, pumpSame
  <2>4. CASE PumpSkips(b)
    BY <2>4 DEF PumpSkips, TypeOK, Looked, pumpSame
  <2>5. CASE PumpUnfitUnwritten(b)
    BY <2>5, OutboxAssumption DEF PumpUnfitUnwritten, TypeOK, Looked, pumpSame, Mishap
  <2> QED
    BY <1>2, <2>2, <2>3, <2>4, <2>5 DEF Pump
<1> QED
  BY <1>1, <1>2

LEMMA EndTypes ==
    ASSUME TypeOK, NEW f \in UnderWay, End(f) \/ Unwritten(f)
    PROVE  TypeOK'
<1>1. f.entry \in Entry /\ f.attempts \in 0 .. MaxAttempts - 1
  BY DEF UnderWay, Flights
<1>2. Land(f) => permits' \in Nat /\ flying' \in [Flights -> Nat]
  BY LandType
<1>3. CASE FirstOk(f)
  BY <1>1, <1>2, <1>3 DEF FirstOk, landSame, TypeOK
<1>4. CASE FirstFails(f)
  <2>1. [state |-> "pending", attempts |-> 0, due |-> FALSE] \in Rows
    BY OutboxAssumption DEF Rows
  <2>2. row' \in [Entry -> Rows]
    BY <1>1, <1>4, <2>1 DEF FirstFails, TypeOK
  <2> QED
    BY <1>1, <1>2, <1>4, <2>2 DEF FirstFails, landSame, TypeOK
<1>5. CASE RetryOk(f)
  <2>1. row' \in [Entry -> Rows]
    BY <1>1, <1>5 DEF RetryOk, TypeOK, Rows
  <2>2. tries' \in [Entry -> 0 .. MaxAttempts]
    BY <1>1, <1>5, OutboxAssumption DEF RetryOk, TypeOK
  <2> QED
    BY <1>1, <1>2, <1>5, <2>1, <2>2 DEF RetryOk, landSame, TypeOK
<1>6. CASE RetryFails(f)
  <2>1. row' \in [Entry -> Rows]
    BY <1>1, <1>6, FailureType DEF RetryFails
  <2>2. tries' \in [Entry -> 0 .. MaxAttempts]
    BY <1>1, <1>6, OutboxAssumption DEF RetryFails, TypeOK
  <2> QED
    BY <1>2, <1>6, <2>1, <2>2 DEF RetryFails, landSame, TypeOK
<1>7. CASE Unwritten(f)
  BY <1>1, <1>2, <1>7, OutboxAssumption
     DEF Unwritten, FirstFailsUnqueued, RetryUnwritten, landSame, TypeOK, Mishap
<1> QED
  BY <1>3, <1>4, <1>5, <1>6, <1>7 DEF End

LEMMA OutsideTypes ==
    ASSUME TypeOK, Flush \/ DropDead \/ EditRule \/ SyncRules \/ Restart
    PROVE  TypeOK'
<1>1. CASE Flush
  <2>1. \A e \in Entry : [row[e] EXCEPT !.due = row[e].state = "pending"] \in Rows
    BY SetDue DEF TypeOK
  <2>2. row' \in [Entry -> Rows]
    BY <1>1, <2>1 DEF Flush
  <2> QED
    BY <1>1, <2>2 DEF Flush, tableSame, TypeOK
<1>2. CASE DropDead
  <2>1. row' \in [Entry -> Rows]
    BY <1>2 DEF DropDead, TypeOK, Rows
  <2> QED
    BY <1>2, <2>1, OutboxAssumption DEF DropDead, tableSame, TypeOK
<1>3. CASE EditRule
  <2>1. setting.sinks \in Seq(Sink \cup {Blank}) /\ Len(setting.sinks) \in Nat
    BY LenProperties DEF TypeOK, Rules
  <2>2. Len(setting.sinks) > 1 =>
          [setting.sinks EXCEPT ![1] = Blank] \in Seq(Sink \cup {Blank})
    BY <2>1, ExceptSeq
  <2>3. \A i \in 2 .. Len(setting.sinks) :
          RemoveAt(setting.sinks, i) \in Seq(Sink \cup {Blank})
    BY <2>1, RemoveAtType
  <2>4. setting' \in Rules
    BY <1>3, <2>2, <2>3 DEF EditRule, TypeOK, Rules
  <2> QED
    BY <1>3, <2>4, OutboxAssumption DEF EditRule, Mishap, TypeOK, history
<1>4. CASE SyncRules
  BY <1>4 DEF SyncRules, TypeOK, history
<1>5. CASE Restart
  <2>1. rule' \in Rules
    BY <1>5 DEF Restart, Rules
  <2> QED
    BY <1>5, <2>1, OutboxAssumption DEF Restart, Mishap, TypeOK, history
<1> QED
  BY <1>1, <1>2, <1>3, <1>4, <1>5

\* Whatever happens to the rows, the deliveries and the rule, each stays what it is meant to
\* be: a pending row has attempts left, and a dead one has used them up.
THEOREM TypeCorrect == Spec => []TypeOK
<1>1. Init => TypeOK
  BY FirstRule, OutboxAssumption DEF Init, TypeOK, Rows
<1>2. TypeOK /\ [Next]_vars => TypeOK'
  <2>1. TypeOK /\ UNCHANGED vars => TypeOK'
    BY DEF TypeOK, vars, history
  <2> QED
    BY <2>1, ArriveTypes, PumpTypes, EndTypes, OutsideTypes DEF Next
<1> QED
  BY <1>1, <1>2, PTL DEF Spec

\* A row of no state is no row.
LEMMA RowIsNone == \A r \in Rows : r = NoRow <=> r.state = "none"
BY RowKinds DEF NoRow

\* To make every row due changes nothing but that.
LEMMA FlushRows ==
    ASSUME TypeOK, Flush, NEW e \in Entry
    PROVE  /\ row[e] \in Rows /\ row'[e] \in Rows
           /\ row'[e].state = row[e].state /\ row'[e].attempts = row[e].attempts
<1> DEFINE d == row[e].state = "pending"
<1>1. row[e] \in Rows
  BY DEF TypeOK
<1>2. row'[e] = [row[e] EXCEPT !.due = d]
  BY DEF Flush
<1>3. d \in BOOLEAN /\ (d => row[e].state = "pending")
  OBVIOUS
<1> HIDE DEF d
<1> QED
  BY <1>1, <1>2, <1>3, SetDue

-----------------------------------------------------------------------------
(* Who knows of a message, and how many attempts he knows of *)

\* A row is in the table as long as the message is queued.
Queued == \A e \in Entry : row[e] # NoRow <=> fate[e] = "queued"

\* No count of attempts runs ahead of the retries that failed.
Counted == \A e \in Entry : row[e].attempts <= tries[e] \/ e \in excused

CopyOk(e, n) == /\ fate[e] \in {"queued", "delivered", "discarded"}
                /\ fate[e] = "queued" => n <= tries[e] \/ e \in excused

\* That goes for the copies too, of the pump and of the deliveries, as long as the row is there;
\* and whoever has a copy has it of a message that was queued.
Copied == /\ \A b \in batch : CopyOk(b.entry, b.attempts)
          /\ \A f \in UnderWay : f.kind = "retry" => CopyOk(f.entry, f.attempts)

\* A first delivery is under way once, and nobody else knows of its message.
First == \A f \in UnderWay : f.kind = "first" =>
            /\ fate[f.entry] = "trying" /\ flying[f] = 1
            /\ \A g \in UnderWay : g.kind = "first" /\ g.entry = f.entry => g = f

Custody == Queued /\ Counted /\ Copied /\ First

Inv == TypeOK /\ Custody

\* A delivery that starts is under way, and one that ends is under way once less.
LEMMA LaunchFlying ==
    ASSUME TypeOK, NEW f \in Flights, Launch(f)
    PROVE  /\ UnderWay' = UnderWay \cup {f}
           /\ \A g \in Flights : flying'[g] = IF g = f THEN flying[f] + 1 ELSE flying[g]
BY DEF TypeOK, Launch, UnderWay

LEMMA LandFlying ==
    ASSUME TypeOK, NEW f \in UnderWay, Land(f)
    PROVE  /\ UnderWay' \subseteq UnderWay
           /\ flying[f] = 1 => f \notin UnderWay'
           /\ \A g \in Flights : g # f => flying'[g] = flying[g]
           /\ \A g \in UnderWay' : g \in Flights
BY DEF TypeOK, Land, UnderWay

\* The failure of a delivery neither makes nor removes a row, and counts one attempt more
\* than the delivery knew of.
LEMMA FailureRow ==
    ASSUME TypeOK, NEW e \in Entry, NEW n \in 0 .. MaxAttempts - 1, RecordFailure(e, n)
    PROVE  \A d \in Entry :
              /\ row'[d] # NoRow <=> row[d] # NoRow
              /\ row'[d].attempts = IF d = e /\ row[e] # NoRow THEN n + 1 ELSE row[d].attempts
<1>1. \A k \in Nat, s \in {"pending", "dead"} :
        [state |-> s, attempts |-> k, due |-> FALSE] # NoRow
  BY DEF NoRow
<1> QED
  BY <1>1 DEF RecordFailure, TypeOK

LEMMA ArriveCustody ==
    ASSUME Inv, NEW e \in Entry, Arrive(e) \/ ArriveRefused(e) \/ Elapse(e)
    PROVE  Custody'
<1> USE DEF Inv, Custody
<1>1. CASE Arrive(e)
  <2>1. PICK i \in DOMAIN rule.sinks :
          /\ SinkAt(i) # Blank
          /\ Launch([kind |-> "first", entry |-> e, attempts |-> 0, sink |-> SinkAt(i)])
    BY <1>1 DEF Arrive
  <2> DEFINE f == [kind |-> "first", entry |-> e, attempts |-> 0, sink |-> SinkAt(i)]
  <2>2. f \in Flights
    BY <2>1, SinkType, OutboxAssumption DEF Flights, TypeOK
  <2>3. /\ UnderWay' = UnderWay \cup {f}
        /\ \A g \in Flights : flying'[g] = IF g = f THEN flying[f] + 1 ELSE flying[g]
    BY <2>1, <2>2, LaunchFlying
  <2>4. fate[e] = "new" /\ fate' = [fate EXCEPT ![e] = "trying"]
    BY <1>1 DEF Arrive
  <2>5. \A g \in UnderWay : g \in Flights /\ g.entry \in Entry /\ g.entry # e
    BY <2>4 DEF UnderWay, Flights, First, Copied, CopyOk
  <2>6. \A b \in batch : b.entry \in Entry /\ b.entry # e
    BY <2>4 DEF Copied, CopyOk, TypeOK, Copies
  <2>7. f \notin UnderWay /\ flying[f] = 0
    BY <2>2, <2>5 DEF UnderWay, TypeOK
  <2>8. Queued' /\ Counted'
    BY <1>1, <2>4 DEF Arrive, Queued, Counted, TypeOK
  <2>9. Copied'
    BY <1>1, <2>3, <2>4, <2>5, <2>6 DEF Arrive, Copied, CopyOk, TypeOK
  <2>10. First'
    BY <2>2, <2>3, <2>4, <2>5, <2>7 DEF First, TypeOK
  <2> QED
    BY <2>8, <2>9, <2>10
<1>2. CASE ArriveRefused(e)
  <2>1. UnderWay' = UnderWay
    BY <1>2 DEF ArriveRefused, UnderWay
  <2>2. \A g \in UnderWay : g.entry \in Entry /\ g.entry # e
    BY <1>2 DEF ArriveRefused, UnderWay, Flights, First, Copied, CopyOk
  <2>3. \A b \in batch : b.entry \in Entry /\ b.entry # e
    BY <1>2 DEF ArriveRefused, Copied, CopyOk, TypeOK, Copies
  <2> QED
    BY <1>2, <2>1, <2>2, <2>3
       DEF ArriveRefused, history, TypeOK, Queued, Counted, Copied, CopyOk, First
<1>3. CASE Elapse(e)
  <2>1. row' = [row EXCEPT ![e] = [row[e] EXCEPT !.due = TRUE]] /\ row[e].state = "pending"
    BY <1>3 DEF Elapse
  <2>2. /\ [row[e] EXCEPT !.due = TRUE] # NoRow /\ row[e] # NoRow
        /\ [row[e] EXCEPT !.due = TRUE].attempts = row[e].attempts
    BY <2>1, RowKinds DEF NoRow, TypeOK
  <2>3. UnderWay' = UnderWay
    BY <1>3 DEF Elapse, tableSame, UnderWay
  <2> QED
    BY <1>3, <2>1, <2>2, <2>3
       DEF Elapse, tableSame, TypeOK, Queued, Counted, Copied, CopyOk, First
<1> QED
  BY <1>1, <1>2, <1>3

LEMMA PumpCustody ==
    ASSUME Inv, PumpStarts \/ \E b \in batch : Pump(b) \/ PumpUnfitUnwritten(b)
    PROVE  Custody'
<1> USE DEF Inv, Custody
<1>1. CASE PumpStarts
  <2>1. UnderWay' = UnderWay
    BY <1>1 DEF PumpStarts, UnderWay
  <2>2. \A e \in Entry : row[e].due => row[e] # NoRow
    BY DEF NoRow
  <2>3. \A b \in batch' : CopyOk(b.entry, b.attempts)
    BY <1>1, <2>2 DEF PumpStarts, CopyOk, Queued, Counted
  <2> QED
    BY <1>1, <2>1, <2>3 DEF PumpStarts, history, Queued, Counted, Copied, CopyOk, First
<1>2. ASSUME NEW b \in batch, Pump(b) \/ PumpUnfitUnwritten(b)
      PROVE  Custody'
  <2>1. b.entry \in Entry /\ b.attempts \in 0 .. MaxAttempts - 1
    BY DEF TypeOK, Copies
  <2>2. CASE PumpUnfit(b)
    <3>1. PICK n \in 0 .. MaxAttempts - 1 : RecordFailure(b.entry, n)
      BY <2>1, <2>2, OutboxAssumption DEF PumpUnfit
    <3>2. UnderWay' = UnderWay /\ excused' = excused \cup {b.entry} /\ fate' = fate /\ tries' = tries
      BY <2>2 DEF PumpUnfit, UnderWay, pumpSame
    <3>3. Queued' /\ Counted'
      BY <2>1, <3>1, <3>2, FailureRow DEF Queued, Counted
    <3>4. Copied' /\ First'
      BY <2>2, <3>2 DEF PumpUnfit, Looked, Copied, CopyOk, First
    <3> QED
      BY <3>3, <3>4
  <2>3. CASE PumpSends(b)
    <3> DEFINE f == [kind |-> "retry", entry |-> b.entry, attempts |-> b.attempts,
                     sink |-> SinkAt(target[b.entry])]
    <3>1. f \in Flights
      BY <2>1, <2>3, SinkType DEF PumpSends, Fit, Flights, TypeOK
    <3>2. Launch(f)
      BY <2>3 DEF PumpSends
    <3>3. /\ UnderWay' = UnderWay \cup {f}
          /\ \A g \in Flights : flying'[g] = IF g = f THEN flying[f] + 1 ELSE flying[g]
      BY <3>1, <3>2, LaunchFlying
    <3>4. \A g \in UnderWay : g \in Flights
      BY DEF UnderWay
    <3>5. Copied'
      BY <2>3, <3>3 DEF PumpSends, Looked, pumpSame, Copied, CopyOk
    <3>6. First'
      BY <2>3, <3>3, <3>4 DEF PumpSends, pumpSame, First
    <3> QED
      BY <2>3, <3>5, <3>6 DEF PumpSends, pumpSame, Queued, Counted
  <2>4. CASE PumpSkips(b) \/ PumpUnfitUnwritten(b)
    <3>1. UnderWay' = UnderWay
      BY <2>4 DEF PumpSkips, PumpUnfitUnwritten, UnderWay
    <3> QED
      BY <2>4, <3>1
         DEF PumpSkips, PumpUnfitUnwritten, Looked, pumpSame, Queued, Counted, Copied, CopyOk, First
  <2> QED
    BY <1>2, <2>2, <2>3, <2>4 DEF Pump
<1> QED
  BY <1>1, <1>2

LEMMA EndCustody ==
    ASSUME Inv, NEW f \in UnderWay, End(f) \/ Unwritten(f)
    PROVE  Custody'
<1> USE DEF Inv, Custody
<1>1. f \in Flights /\ f.entry \in Entry /\ f.attempts \in 0 .. MaxAttempts - 1
  BY DEF UnderWay, Flights
<1>2. Land(f) /\ batch' = batch /\ excused' = excused
  BY DEF End, Unwritten, FirstOk, FirstFails, FirstFailsUnqueued, RetryOk, RetryFails,
         RetryUnwritten, landSame
<1>3. /\ UnderWay' \subseteq UnderWay
      /\ flying[f] = 1 => f \notin UnderWay'
      /\ \A g \in Flights : g # f => flying'[g] = flying[g]
      /\ \A g \in UnderWay' : g \in Flights
  BY <1>2, LandFlying
<1>4. \A g \in UnderWay : g.entry \in Entry
  BY DEF UnderWay, Flights
<1>5. \A b \in batch : b.entry \in Entry /\ b.attempts \in Nat
  BY DEF TypeOK, Copies
<1>6. CASE f.kind = "first"
  <2>1. /\ fate[f.entry] = "trying" /\ f \notin UnderWay'
        /\ \A g \in UnderWay' : g.entry # f.entry
    <3>1. fate[f.entry] = "trying" /\ f \notin UnderWay'
      BY <1>3, <1>6 DEF First
    <3>2. ASSUME NEW g \in UnderWay' PROVE g.entry # f.entry
      <4>1. g \in UnderWay /\ g # f /\ (g.kind = "first" \/ g.kind = "retry")
        BY <1>3, <3>1 DEF Flights
      <4> QED
        BY <1>6, <3>1, <4>1 DEF First, Copied, CopyOk
    <3> QED
      BY <3>1, <3>2
  <2>2. \A b \in batch : b.entry # f.entry
    BY <2>1 DEF Copied, CopyOk
  <2>3. \A e \in Entry : e # f.entry => fate'[e] = fate[e]
    BY <1>1, <1>6
       DEF End, Unwritten, FirstOk, FirstFails, FirstFailsUnqueued, RetryOk, RetryFails,
           RetryUnwritten, TypeOK
  <2>4. tries' = tries
    BY <1>6 DEF End, Unwritten, FirstOk, FirstFails, FirstFailsUnqueued, RetryOk, RetryFails,
                RetryUnwritten
  <2>5. Copied'
    BY <1>2, <1>3, <1>4, <1>5, <2>1, <2>2, <2>3, <2>4 DEF Copied, CopyOk
  <2>6. First'
    BY <1>3, <1>4, <2>1, <2>3 DEF First
  <2>7. Queued' /\ Counted'
    <3>1. row[f.entry] = NoRow
      BY <1>1, <2>1 DEF Queued
    <3>2. CASE FirstFails(f)
      <4>1. [state |-> "pending", attempts |-> 0, due |-> FALSE] # NoRow
        BY DEF NoRow
      <4> QED
        BY <1>1, <1>2, <2>4, <3>2, <4>1, OutboxAssumption DEF FirstFails, Queued, Counted, TypeOK
    <3>3. CASE FirstOk(f) \/ FirstFailsUnqueued(f)
      BY <1>1, <1>2, <2>1, <2>4, <3>1, <3>3
         DEF FirstOk, FirstFailsUnqueued, Queued, Counted, TypeOK
    <3> QED
      BY <1>6, <3>2, <3>3 DEF End, Unwritten, RetryOk, RetryFails, RetryUnwritten
  <2> QED
    BY <2>5, <2>6, <2>7
<1>7. CASE f.kind = "retry"
  <2>1. CopyOk(f.entry, f.attempts)
    BY <1>7 DEF Copied
  <2>2. CASE RetryOk(f)
    <3>1. /\ fate'[f.entry] \in {"delivered", "discarded"}
          /\ \A e \in Entry : e # f.entry => fate'[e] = fate[e] /\ tries'[e] = tries[e]
      BY <1>1, <2>1, <2>2 DEF RetryOk, TypeOK, CopyOk
    <3>2. Copied'
      BY <1>2, <1>3, <1>4, <1>5, <3>1 DEF Copied, CopyOk
    <3>3. First'
      BY <1>3, <1>4, <1>7, <2>1, <3>1 DEF First, CopyOk
    <3>4. /\ row'[f.entry] = NoRow /\ tries'[f.entry] = 0
          /\ \A e \in Entry : e # f.entry => row'[e] = row[e]
      BY <1>1, <2>2 DEF RetryOk, TypeOK
    <3>5. NoRow.attempts = 0
      BY DEF NoRow
    <3>6. Queued'
      BY <1>1, <3>1, <3>4 DEF Queued
    <3>7. Counted'
      BY <1>1, <1>2, <3>1, <3>4, <3>5 DEF Counted
    <3> QED
      BY <3>2, <3>3, <3>6, <3>7
  <2>3. CASE RetryFails(f)
    <3>1. /\ fate' = fate
          /\ \A e \in Entry : tries'[e] \in Nat /\ tries[e] \in Nat /\ tries'[e] >= tries[e]
      BY <2>3 DEF RetryFails, TypeOK
    <3>2. Copied'
      BY <1>2, <1>3, <1>4, <1>5, <3>1 DEF Copied, CopyOk, UnderWay, Flights
    <3>3. First'
      BY <1>3, <1>7, <3>1 DEF First
    <3>4. /\ RecordFailure(f.entry, f.attempts)
          /\ tries'[f.entry] = IF row[f.entry] # NoRow /\ tries[f.entry] < MaxAttempts
                                 THEN tries[f.entry] + 1 ELSE tries[f.entry]
      BY <1>1, <2>3 DEF RetryFails, TypeOK
    <3>5. Queued'
      BY <1>1, <3>1, <3>4, FailureRow DEF Queued
    <3>6. row[f.entry] # NoRow /\ f.entry \notin excused => f.attempts + 1 <= tries'[f.entry]
      BY <1>1, <2>1, <3>4, OutboxAssumption DEF CopyOk, Queued, TypeOK
    <3>7. \A e \in Entry : row[e].attempts \in Nat
      BY RowKinds, OutboxAssumption DEF TypeOK, NoRow
    <3>8. Counted'
      BY <1>1, <1>2, <3>1, <3>4, <3>6, <3>7, FailureRow DEF Counted
    <3> QED
      BY <3>2, <3>3, <3>5, <3>8
  <2>4. CASE RetryUnwritten(f)
    <3>1. fate' = fate /\ row' = row /\ tries' = tries
      BY <2>4 DEF RetryUnwritten
    <3> QED
      BY <1>2, <1>3, <1>7, <3>1 DEF Queued, Counted, Copied, CopyOk, First
  <2> QED
    BY <1>7, <2>2, <2>3, <2>4 DEF End, Unwritten, FirstOk, FirstFails, FirstFailsUnqueued
<1> QED
  BY <1>1, <1>6, <1>7 DEF Flights

LEMMA OutsideCustody ==
    ASSUME Inv, Flush \/ DropDead \/ EditRule \/ SyncRules \/ Restart
    PROVE  Custody'
<1> USE DEF Inv, Custody
<1>1. \A f \in UnderWay : f.entry \in Entry
  BY DEF UnderWay, Flights
<1>2. \A b \in batch : b.entry \in Entry /\ b.attempts \in Nat
  BY DEF TypeOK, Copies
<1>3. CASE Flush
  <2>1. UnderWay' = UnderWay
    BY <1>3 DEF Flush, tableSame, UnderWay
  <2>2. ASSUME NEW e \in Entry
        PROVE  /\ row'[e] # NoRow <=> row[e] # NoRow
               /\ row'[e].attempts = row[e].attempts
    <3>1. /\ row[e] \in Rows /\ row'[e] \in Rows
          /\ row'[e].state = row[e].state /\ row'[e].attempts = row[e].attempts
      BY <1>3, FlushRows
    <3> QED
      BY <3>1, RowIsNone
  <2> QED
    BY <1>3, <2>1, <2>2 DEF Flush, tableSame, Queued, Counted, Copied, CopyOk, First
<1>4. CASE DropDead
  <2>1. UnderWay' = UnderWay /\ batch' = batch /\ excused' = excused /\ flying' = flying
    BY <1>4 DEF DropDead, tableSame, UnderWay
  <2>2. ASSUME NEW e \in Entry
        PROVE  \/ /\ fate[e] = "queued" /\ fate'[e] = "discarded"
                  /\ row'[e] = NoRow /\ tries'[e] = 0
               \/ fate'[e] = fate[e] /\ row'[e] = row[e] /\ tries'[e] = tries[e]
    <3>1. row[e].state = "dead" => fate[e] = "queued"
      BY DEF NoRow, Queued
    <3> QED
      BY <1>4, <3>1 DEF DropDead
  <2>3. NoRow.attempts = 0
    BY DEF NoRow
  <2>4. Queued' /\ Counted'
    BY <2>1, <2>2, <2>3 DEF Queued, Counted
  <2>5. Copied'
    BY <1>1, <1>2, <2>1, <2>2 DEF Copied, CopyOk
  <2>6. First'
    BY <1>1, <2>1, <2>2 DEF First
  <2> QED
    BY <2>4, <2>5, <2>6
<1>5. CASE EditRule \/ SyncRules
  <2>1. UnderWay' = UnderWay
    BY <1>5 DEF EditRule, SyncRules, UnderWay
  <2> QED
    BY <1>5, <2>1 DEF EditRule, SyncRules, history, Queued, Counted, Copied, CopyOk, First
<1>6. CASE Restart
  <2>1. UnderWay' = {} /\ batch' = {}
    BY <1>6 DEF Restart, UnderWay
  <2>2. Copied' /\ First'
    BY <2>1 DEF Copied, First
  <2> QED
    BY <1>6, <2>2 DEF Restart, history, Queued, Counted, TypeOK
<1> QED
  BY <1>3, <1>4, <1>5, <1>6

\* The types and the custody of messages hold in every state.
THEOREM InvHolds == Spec => []Inv
<1>1. Init => Custody
  <2>1. Init => UnderWay = {} /\ batch = {}
    BY DEF Init, UnderWay
  <2> QED
    BY <2>1 DEF Init, Custody, Queued, Counted, Copied, First, NoRow
<1>2. Inv /\ [Next]_vars => Custody'
  <2>1. Inv /\ UNCHANGED vars => Custody'
    BY DEF Inv, Custody, vars, history, UnderWay, Queued, Counted, Copied, CopyOk, First
  <2> QED
    BY <2>1, ArriveCustody, PumpCustody, EndCustody, OutsideCustody DEF Next
<1> QED
  BY <1>1, <1>2, TypeCorrect, PTL DEF Inv, Spec

\* Nothing is given up on early: behind a dead letter are MAX_ATTEMPTS failed retries, or a rule
\* or a sink the pump did not find, or a rule that was off.
THEOREM DeadLettersAreEarned == Spec => []DeadHadItsTries
<1>1. Inv => DeadHadItsTries
  <2> SUFFICES ASSUME Inv, NEW e \in Entry, row[e].state = "dead"
               PROVE  tries[e] = MaxAttempts \/ e \in excused
    BY DEF DeadHadItsTries
  <2>1. row[e].attempts = MaxAttempts
    BY RowKinds DEF Inv, TypeOK, NoRow
  <2>2. MaxAttempts <= tries[e] \/ e \in excused
    BY <2>1 DEF Inv, Custody, Counted
  <2>3. tries[e] \in 0 .. MaxAttempts
    BY DEF Inv, TypeOK
  <2> QED
    BY <2>2, <2>3, OutboxAssumption
<1> QED
  BY <1>1, InvHolds, PTL

-----------------------------------------------------------------------------
(* The promise *)

\* A step that changes the phase of one message only, as WebhookDebt allows.
LEMMA OneMoves ==
    ASSUME NEW e \in Entry, NEW from, NEW to,
           phase[e] \in from, phase'[e] = to,
           \A d \in Entry : d # e => phase'[d] = phase[d]
    PROVE  Debt!Move(e, from, to)
BY DEF Debt!Move, phase

\* The phases stay when those of all messages do.
LEMMA PhaseStays ==
    ASSUME \A d \in Entry : phase'[d] = phase[d]
    PROVE  phase' = phase
BY DEF phase

\* A row and the row after it that say the same of a message.
LEMMA SamePhase ==
    ASSUME NEW e \in Entry, fate'[e] = fate[e],
           fate[e] = "queued" => row'[e].state = row[e].state
    PROVE  phase'[e] = phase[e]
BY DEF phase, PhaseOf

\* The failure of a delivery of a queued message: it is owed or dead, and nothing else.
LEMMA FailurePhase ==
    ASSUME Inv, fate' = fate, NEW e \in Entry, NEW n \in 0 .. MaxAttempts - 1, RecordFailure(e, n)
    PROVE  [Debt!Next]_phase
<1>1. \A d \in Entry : d # e => phase'[d] = phase[d]
  BY SamePhase DEF RecordFailure, Inv, TypeOK
<1>2. CASE fate[e] # "queued"
  <2>1. phase'[e] = phase[e]
    BY <1>2, SamePhase
  <2> QED
    BY <1>1, <2>1, PhaseStays
<1>3. CASE fate[e] = "queued"
  <2>1. phase[e] \in {"owed", "dead"} /\ phase'[e] \in {"owed", "dead"}
    BY <1>3 DEF phase, PhaseOf
  <2>2. CASE phase'[e] = phase[e]
    BY <1>1, <2>2, PhaseStays
  <2>3. CASE phase[e] = "owed" /\ phase'[e] = "dead"
    BY <1>1, <2>3, OneMoves DEF Debt!Next, Debt!GiveUp
  <2>4. CASE phase[e] = "dead" /\ phase'[e] = "owed"
    BY <1>1, <2>4, OneMoves DEF Debt!Next, Debt!Owe
  <2> QED
    BY <2>1, <2>2, <2>3, <2>4
<1> QED
  BY <1>2, <1>3

LEMMA ArriveKeeps ==
    ASSUME Inv, NEW e \in Entry, Arrive(e) \/ ArriveRefused(e) \/ Elapse(e)
    PROVE  [Debt!Next]_phase
<1>1. CASE Arrive(e)
  <2>1. phase[e] \in {"new"} /\ phase'[e] = "trying"
    BY <1>1 DEF Arrive, phase, PhaseOf, Inv, TypeOK
  <2>2. \A d \in Entry : d # e => phase'[d] = phase[d]
    BY <1>1, SamePhase DEF Arrive, Inv, TypeOK
  <2> QED
    BY <2>1, <2>2, OneMoves DEF Debt!Next, Debt!Accept
<1>2. CASE ArriveRefused(e)
  <2>1. phase[e] \in {"new"} /\ phase'[e] = "refused"
    BY <1>2 DEF ArriveRefused, phase, PhaseOf, Inv, TypeOK
  <2>2. \A d \in Entry : d # e => phase'[d] = phase[d]
    BY <1>2, SamePhase DEF ArriveRefused, Inv, TypeOK
  <2> QED
    BY <2>1, <2>2, OneMoves DEF Debt!Next, Debt!Refuse
<1>3. CASE Elapse(e)
  <2>1. row[e] \in Rows /\ row[e].state = "pending"
    BY <1>3 DEF Elapse, Inv, TypeOK
  <2>2. [row[e] EXCEPT !.due = TRUE].state = row[e].state
    BY <2>1, SetDue
  <2>3. row' = [row EXCEPT ![e] = [row[e] EXCEPT !.due = TRUE]] /\ fate' = fate
    BY <1>3 DEF Elapse
  <2>4. \A d \in Entry : row'[d].state = row[d].state
    BY <2>2, <2>3 DEF Inv, TypeOK
  <2> QED
    BY <2>3, <2>4, SamePhase, PhaseStays
<1> QED
  BY <1>1, <1>2, <1>3

LEMMA PumpKeeps ==
    ASSUME Inv, PumpStarts \/ \E b \in batch : Pump(b) \/ PumpUnfitUnwritten(b)
    PROVE  [Debt!Next]_phase
<1>1. ASSUME fate' = fate, row' = row
      PROVE  [Debt!Next]_phase
  BY <1>1, SamePhase, PhaseStays
<1>2. CASE PumpStarts
  BY <1>1, <1>2 DEF PumpStarts
<1>3. ASSUME NEW b \in batch, PumpUnfit(b)
      PROVE  [Debt!Next]_phase
  <2>1. b.entry \in Entry /\ b.attempts \in 0 .. MaxAttempts - 1
    BY DEF Inv, TypeOK, Copies
  <2>2. PICK n \in 0 .. MaxAttempts - 1 : RecordFailure(b.entry, n)
    BY <1>3, <2>1, OutboxAssumption DEF PumpUnfit
  <2>3. fate' = fate
    BY <1>3 DEF PumpUnfit, pumpSame
  <2> QED
    BY <2>1, <2>2, <2>3, FailurePhase
<1>4. ASSUME NEW b \in batch, PumpSends(b) \/ PumpSkips(b) \/ PumpUnfitUnwritten(b)
      PROVE  [Debt!Next]_phase
  BY <1>1, <1>4 DEF PumpSends, PumpSkips, PumpUnfitUnwritten, pumpSame
<1> QED
  BY <1>2, <1>3, <1>4 DEF Pump

LEMMA EndKeeps ==
    ASSUME Inv, NEW f \in UnderWay, End(f) \/ Unwritten(f)
    PROVE  [Debt!Next]_phase
<1> DEFINE e == f.entry
<1>1. e \in Entry /\ f.attempts \in 0 .. MaxAttempts - 1
  BY DEF UnderWay, Flights
<1>2. f.kind = "first" => fate[e] = "trying"
  BY DEF Inv, Custody, First
<1>3. f.kind = "retry" => fate[e] \in {"queued", "delivered", "discarded"}
  BY DEF Inv, Custody, Copied, CopyOk
<1>4. ASSUME fate' = fate, row' = row
      PROVE  [Debt!Next]_phase
  BY <1>4, SamePhase, PhaseStays
<1> HIDE DEF e
<1>5. CASE FirstOk(f)
  <2>1. phase[e] = "trying" /\ phase'[e] = "delivered"
    BY <1>1, <1>2, <1>5 DEF e, FirstOk, phase, PhaseOf, Inv, TypeOK
  <2>2. \A d \in Entry : d # e => phase'[d] = phase[d]
    BY <1>5, SamePhase DEF e, FirstOk, Inv, TypeOK
  <2> QED
    BY <1>1, <2>1, <2>2, OneMoves DEF Debt!Next, Debt!Deliver
<1>6. CASE FirstFails(f)
  <2>1. phase[e] = "trying" /\ phase'[e] = "owed"
    BY <1>1, <1>2, <1>6 DEF e, FirstFails, phase, PhaseOf, Inv, TypeOK
  <2>2. \A d \in Entry : d # e => phase'[d] = phase[d]
    BY <1>6, SamePhase DEF e, FirstFails, Inv, TypeOK
  <2> QED
    BY <1>1, <2>1, <2>2, OneMoves DEF Debt!Next, Debt!Owe
<1>7. CASE FirstFailsUnqueued(f)
  <2>1. phase[e] = "trying" /\ phase'[e] = "lost"
    BY <1>1, <1>2, <1>7 DEF e, FirstFailsUnqueued, phase, PhaseOf, Inv, TypeOK
  <2>2. \A d \in Entry : d # e => phase'[d] = phase[d]
    BY <1>7, SamePhase DEF e, FirstFailsUnqueued, Inv, TypeOK
  <2>3. \A d \in Entry : phase'[d] = IF d \in {e} THEN "lost" ELSE phase[d]
    BY <2>1, <2>2
  <2>4. phase' = [d \in Entry |-> IF d \in {e} THEN "lost" ELSE phase[d]]
    BY <2>3 DEF phase
  <2>5. Debt!Lose({e})
    BY <2>1, <2>4 DEF Debt!Lose
  <2> QED
    BY <1>1, <2>5 DEF Debt!Next
<1>8. CASE RetryOk(f)
  <2>1. \A d \in Entry : d # e => phase'[d] = phase[d]
    BY <1>8, SamePhase DEF e, RetryOk, Inv, TypeOK
  <2>2. CASE fate[e] = "queued"
    <3>1. phase[e] \in {"trying", "owed", "dead"} /\ phase'[e] = "delivered"
      BY <1>1, <1>8, <2>2 DEF e, RetryOk, phase, PhaseOf, Inv, TypeOK
    <3> QED
      BY <1>1, <2>1, <3>1, OneMoves DEF Debt!Next, Debt!Deliver
  <2>3. CASE fate[e] # "queued"
    <3>1. phase'[e] = phase[e]
      BY <1>1, <1>8, <2>3 DEF e, RetryOk, phase, PhaseOf, Inv, TypeOK
    <3> QED
      BY <2>1, <3>1, PhaseStays
  <2> QED
    BY <2>2, <2>3
<1>9. CASE RetryFails(f)
  <2>1. RecordFailure(e, f.attempts) /\ fate' = fate
    BY <1>9 DEF e, RetryFails
  <2> QED
    BY <1>1, <2>1, FailurePhase
<1>10. CASE RetryUnwritten(f)
  BY <1>4, <1>10 DEF RetryUnwritten
<1> QED
  BY <1>5, <1>6, <1>7, <1>8, <1>9, <1>10 DEF End, Unwritten

LEMMA OutsideKeeps ==
    ASSUME Inv, Flush \/ DropDead \/ EditRule \/ SyncRules \/ Restart
    PROVE  [Debt!Next]_phase
<1>1. CASE Flush
  <2>1. fate' = fate
    BY <1>1 DEF Flush
  <2> QED
    BY <1>1, <2>1, FlushRows, SamePhase, PhaseStays DEF Inv
<1>2. CASE DropDead
  <2>1. ASSUME NEW e \in Entry
        PROVE  phase'[e] = IF phase[e] = "dead" THEN "discarded" ELSE phase[e]
    <3>1. row[e].state = "dead" => fate[e] = "queued"
      BY DEF Inv, Custody, Queued, NoRow
    <3>2. fate[e] # "dead" /\ "discarded" # "queued"
      BY DEF Inv, TypeOK
    <3> QED
      BY <1>2, <3>1, <3>2 DEF DropDead, phase, PhaseOf
  <2>2. phase' = [e \in Entry |-> IF phase[e] = "dead" THEN "discarded" ELSE phase[e]]
    BY <2>1 DEF phase
  <2> QED
    BY <2>2 DEF Debt!Next, Debt!Discard
<1>3. CASE EditRule \/ SyncRules
  BY <1>3, SamePhase, PhaseStays DEF EditRule, SyncRules
<1>4. CASE Restart
  <2> DEFINE S == {e \in Entry : fate[e] = "trying"}
  <2>1. ASSUME NEW e \in Entry
        PROVE  phase'[e] = IF e \in S THEN "lost" ELSE phase[e]
    BY <1>4 DEF Restart, history, phase, PhaseOf
  <2>2. phase' = [e \in Entry |-> IF e \in S THEN "lost" ELSE phase[e]]
    BY <2>1 DEF phase
  <2>3. \A e \in S : phase[e] = "trying"
    BY DEF phase, PhaseOf
  <2>4. S \in SUBSET Entry
    OBVIOUS
  <2> HIDE DEF S
  <2>5. Debt!Lose(S)
    BY <2>2, <2>3 DEF Debt!Lose
  <2> QED
    BY <2>4, <2>5 DEF Debt!Next
<1> QED
  BY <1>1, <1>2, <1>3, <1>4

\* The queue keeps the promise of WebhookDebt: a message that is owed stays owed until it is
\* delivered or given up on, and what is over never comes back.
THEOREM DebtsAreKept == Spec => DebtSpec
<1>1. Init => Debt!Init
  BY DEF Init, Debt!Init, phase, PhaseOf
<1>2. Inv /\ [Next]_vars => [Debt!Next]_phase
  <2>1. UNCHANGED vars => UNCHANGED phase
    BY DEF vars, phase
  <2> QED
    BY <2>1, ArriveKeeps, PumpKeeps, EndKeeps, OutsideKeeps DEF Next
<1> QED
  BY <1>1, <1>2, InvHolds, PTL DEF Spec, DebtSpec, Debt!Spec
=============================================================================
