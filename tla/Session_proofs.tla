--------------------------- MODULE Session_proofs ---------------------------
(***************************************************************************)
(* Attribution by order is exact on a connection only the CONNACK handler  *)
(* uses: proved for any set of filters, any choice of refused ones and any *)
(* capacity of the channel.                                                *)
(***************************************************************************)
EXTENDS Session, FiniteSetTheorems, SequenceTheorems, TLAPS

-----------------------------------------------------------------------------
(* Sequences *)

\* Moving the head of one queue to the end of the other leaves their whole as it was.
LEMMA ShiftHead ==
    ASSUME NEW S, NEW s \in Seq(S), NEW t \in Seq(S), t # <<>>
    PROVE  Append(s, Head(t)) \o Tail(t) = s \o t
<1>1. Head(t) \in S /\ Tail(t) \in Seq(S) /\ Len(t) \in Nat \ {0}
  BY HeadTailProperties, EmptySeq
<1>2. Append(s, Head(t)) \in Seq(S)
  BY <1>1, AppendProperties
<1> DEFINE left == Append(s, Head(t)) \o Tail(t)
           right == s \o t
<1>3. /\ left \in Seq(S) /\ right \in Seq(S)
      /\ Len(left) = Len(right)
  BY <1>1, <1>2, ConcatProperties, HeadTailProperties, AppendProperties, LenProperties
<1>4. ASSUME NEW i \in 1 .. Len(left) PROVE left[i] = right[i]
  BY <1>1, <1>2, <1>3, <1>4
<1> QED
  BY <1>3, <1>4, SeqEqual

\* The head and the tail of a concatenation are those of its first part.
LEMMA ConcatHead ==
    ASSUME NEW S, NEW s \in Seq(S), NEW t \in Seq(S), s # <<>>
    PROVE  s \o t # <<>> /\ Head(s \o t) = Head(s) /\ Tail(s \o t) = Tail(s) \o t
<1>1. s \o t \in Seq(S) /\ s \o t # <<>> /\ Len(s) \in Nat \ {0}
  BY ConcatProperties, ConcatEqualIffEmpty, ConcatSimplifications, EmptySeq
<1>2. Head(s \o t) = Head(s)
  BY <1>1
<1> DEFINE left == Tail(s \o t)
           right == Tail(s) \o t
<1>3. left \in Seq(S) /\ right \in Seq(S) /\ Len(left) = Len(right)
  BY <1>1, ConcatProperties, HeadTailProperties
<1>4. ASSUME NEW i \in 1 .. Len(left) PROVE left[i] = right[i]
  BY <1>1, <1>3, <1>4
<1>5. left = right
  BY <1>3, <1>4, SeqEqual
<1> QED
  BY <1>1, <1>2, <1>5

\* Nor does it matter that a third queue stands before them.
LEMMA ShiftMiddle ==
    ASSUME NEW S, NEW s \in Seq(S), NEW t \in Seq(S), NEW u \in Seq(S), u # <<>>
    PROVE  (s \o Append(t, Head(u))) \o Tail(u) = (s \o t) \o u
<1> DEFINE x == Append(t, Head(u))
           y == Tail(u)
<1>1. x \in Seq(S) /\ y \in Seq(S)
  BY AppendProperties, HeadTailProperties
<1>2. x \o y = t \o u
  BY ShiftHead
<1> HIDE DEF x, y
<1>a. ASSUME NEW p \in Seq(S), NEW q \in Seq(S)
      PROVE  (s \o p) \o q = s \o (p \o q)
  BY ConcatAssociative
<1>3. (s \o x) \o y = s \o (x \o y)
  BY <1>1, <1>a, Zenon
<1>4. (s \o t) \o u = s \o (t \o u)
  BY ConcatAssociative
<1> QED
  BY <1>2, <1>3, <1>4 DEF x, y

\* The same of topics.
LEMMA ShiftTopics ==
    ASSUME NEW s \in Seq(Topic), NEW t \in Seq(Topic), NEW u \in Seq(Topic), u # <<>>
    PROVE  (s \o Append(t, Head(u))) \o Tail(u) = (s \o t) \o u
BY ShiftMiddle

\* Filters maps requests one to one.
LEMMA FiltersMap ==
    ASSUME NEW q \in Seq(Request)
    PROVE  /\ Filters(q) \in Seq(Topic) /\ Len(Filters(q)) = Len(q)
           /\ \A i \in 1 .. Len(q) : Filters(q)[i] = q[i].filter
           /\ Filters(<<>>) = <<>>
<1>1. Len(q) \in Nat /\ \A i \in 1 .. Len(q) : q[i] \in Request
  BY LenProperties, ElementOfSeq
<1>2. \A i \in 1 .. Len(q) : q[i].filter \in Topic
  BY <1>1 DEF Request
<1>3. Filters(q) \in [1 .. Len(q) -> Topic]
  BY <1>2 DEF Filters
<1>4. Filters(q) \in Seq(Topic) /\ Len(Filters(q)) = Len(q)
  BY <1>1, <1>3, LenProperties
<1>5. \A i \in 1 .. Len(q) : Filters(q)[i] = q[i].filter
  BY DEF Filters
<1>6. Filters(<<>>) = <<>>
  <2>1. Len(<<>>) = 0
    OBVIOUS
  <2>2. 1 .. 0 = {}
    OBVIOUS
  <2> QED
    BY <2>1, <2>2 DEF Filters
<1> QED
  BY <1>4, <1>5, <1>6

\* A request put at the end of a queue puts its filter at the end of the filters.
LEMMA FiltersAppend ==
    ASSUME NEW q \in Seq(Request), NEW r \in Request
    PROVE  Filters(Append(q, r)) = Append(Filters(q), r.filter)
<1> DEFINE f == Filters(q)
           g == Filters(Append(q, r))
           x == r.filter
<1>1. /\ Append(q, r) \in Seq(Request) /\ Len(Append(q, r)) = Len(q) + 1
      /\ \A i \in 1 .. Len(q) : Append(q, r)[i] = q[i]
      /\ Append(q, r)[Len(q) + 1] = r
      /\ Len(q) \in Nat
  BY AppendProperties, LenProperties
<1>2. x \in Topic
  BY DEF Request
<1>3. f \in Seq(Topic) /\ Len(f) = Len(q) /\ \A i \in 1 .. Len(q) : f[i] = q[i].filter
  BY FiltersMap
<1>4. g \in Seq(Topic) /\ Len(g) = Len(q) + 1
      /\ \A i \in 1 .. Len(q) + 1 : g[i] = Append(q, r)[i].filter
  BY <1>1, FiltersMap
<1>5. /\ Append(f, x) \in Seq(Topic) /\ Len(Append(f, x)) = Len(q) + 1
      /\ \A i \in 1 .. Len(q) : Append(f, x)[i] = f[i]
      /\ Append(f, x)[Len(q) + 1] = x
  <2> HIDE DEF f, x
  <2> QED
    BY <1>2, <1>3, AppendProperties
<1>6. ASSUME NEW i \in 1 .. Len(q) + 1 PROVE g[i] = Append(f, x)[i]
  <2> HIDE DEF f, g
  <2>1. CASE i \in 1 .. Len(q)
    BY <2>1, <1>1, <1>3, <1>4, <1>5
  <2>2. CASE i = Len(q) + 1
    BY <2>2, <1>1, <1>4, <1>5
  <2>3. i \in 1 .. Len(q) \/ i = Len(q) + 1
    <3> Len(q) \in Nat
      BY <1>1
    <3> QED
      OBVIOUS
  <2> QED
    BY <2>1, <2>2, <2>3
<1> HIDE DEF f, g, x
<1>7. g = Append(f, x)
  BY <1>4, <1>5, <1>6, SeqEqual
<1> QED
  BY <1>7 DEF f, g, x

\* A request taken from the head takes the first filter.
LEMMA FiltersTail ==
    ASSUME NEW q \in Seq(Request), q # <<>>
    PROVE  /\ Filters(q) # <<>> /\ Head(Filters(q)) = Head(q).filter
           /\ Filters(Tail(q)) = Tail(Filters(q))
<1> DEFINE f == Filters(q)
           g == Filters(Tail(q))
<1>1. /\ Tail(q) \in Seq(Request) /\ Len(q) \in Nat \ {0} /\ Len(Tail(q)) = Len(q) - 1
      /\ \A i \in 1 .. Len(q) - 1 : Tail(q)[i] = q[i + 1]
      /\ Head(q) = q[1]
  BY HeadTailProperties, EmptySeq
<1>2. f \in Seq(Topic) /\ Len(f) = Len(q) /\ \A i \in 1 .. Len(q) : f[i] = q[i].filter
  BY FiltersMap
<1>3. g \in Seq(Topic) /\ Len(g) = Len(q) - 1
      /\ \A i \in 1 .. Len(q) - 1 : g[i] = Tail(q)[i].filter
  BY <1>1, FiltersMap
<1> HIDE DEF f, g
<1>4. f # <<>> /\ Head(f) = Head(q).filter
  BY <1>1, <1>2, EmptySeq
<1>5. Tail(f) \in Seq(Topic) /\ Len(Tail(f)) = Len(q) - 1
      /\ \A i \in 1 .. Len(q) - 1 : Tail(f)[i] = f[i + 1]
  BY <1>1, <1>2, <1>4, HeadTailProperties
<1>6. ASSUME NEW i \in 1 .. Len(q) - 1 PROVE g[i] = Tail(f)[i]
  BY <1>1, <1>2, <1>3, <1>5, i + 1 \in 1 .. Len(q)
<1>7. g = Tail(f)
  BY <1>3, <1>5, <1>6, SeqEqual
<1> QED
  BY <1>4, <1>7 DEF f, g

-----------------------------------------------------------------------------
(* The invariant *)

\* The part of TypeOK the argument needs.
Sorted ==
    /\ link \in {"up", "down"}
    /\ restoring \in Seq(Topic)
    /\ chan \in Seq(Request) /\ wire \in Seq(Request)
    /\ registry \subseteq Filter
    /\ cmd \in [Task -> {Idle} \cup [at : CmdSteps, filter : Filter]]
    /\ clean \in BOOLEAN

Subs(q) == \A i \in 1 .. Len(q) : q[i].kind = "SUB"

\* Whatever a clean connection owes is the answer to a SUBSCRIBE that has its slot.
Attribution ==
    /\ loop # "poll" => link = "up"
    /\ (clean /\ loop = "expect") => wire = <<>> /\ chan = <<>>
    /\ (clean /\ link = "up") => Subs(wire) /\ Subs(chan)
    /\ (clean /\ loop = "quarantine") => verdict \in Denied

SlotsInv == Sorted /\ Attribution /\ SlotsMatchAnswers

\* The order the registry's map is walked in is a sequence of its topics.
LEMMA ReplayTypes ==
    ASSUME Sorted, NEW s \in SetToSeqs(registry \ quarantined)
    PROVE  s \in Seq(Topic)
<1> DEFINE S == registry \ quarantined
<1>1. S \subseteq Filter
  BY DEF Sorted
<1>2. Cardinality(S) \in Nat
  BY <1>1, FS_Subset, FS_CardinalityType, SessionAssumption
<1>3. s \in [1 .. Cardinality(S) -> S]
  BY DEF SetToSeqs
<1> HIDE DEF S
<1>4. s \in Seq(S)
  BY <1>2, <1>3
<1> QED
  BY <1>1, <1>4, SeqMonotonic, S \subseteq Topic DEF Topic

\* With the probe appended it still is one.
LEMMA ProbeTypes ==
    ASSUME Sorted
    PROVE  WithProbe(restoring) \in Seq(Topic)
<1>1. Probe \in Topic
  BY DEF Topic
<1> QED
  BY <1>1, AppendProperties DEF Sorted, WithProbe

\* On a clean connection the tracker takes a SUBACK to be about the filter it answers.
LEMMA BlamedIsAnswered ==
    ASSUME SlotsInv, clean, link = "up", loop = "poll", wire # <<>>
    PROVE  /\ pendingSub # <<>> /\ Blamed = Head(wire).filter
           /\ Tail(pendingSub) = Filters(Tail(wire)) \o Filters(chan) \o restoring
<1> DEFINE w == Filters(wire)
           c == Filters(chan)
<1>1. w \in Seq(Topic) /\ c \in Seq(Topic) /\ restoring \in Seq(Topic)
  BY FiltersMap DEF SlotsInv, Sorted
<1>2. w # <<>> /\ Head(w) = Head(wire).filter /\ Filters(Tail(wire)) = Tail(w)
  BY FiltersTail DEF SlotsInv, Sorted
<1>3. pendingSub = w \o c \o restoring
  BY DEF SlotsInv, SlotsMatchAnswers
<1> HIDE DEF w, c
<1>4. /\ w \o c # <<>> /\ Head(w \o c) = Head(w) /\ Tail(w \o c) = Tail(w) \o c
      /\ w \o c \in Seq(Topic)
  BY <1>1, <1>2, ConcatHead, ConcatProperties
<1>5. /\ pendingSub # <<>> /\ Head(pendingSub) = Head(w)
      /\ Tail(pendingSub) = Tail(w) \o c \o restoring
  <2> DEFINE s == w \o c
  <2>1. s \in Seq(Topic) /\ s # <<>> /\ pendingSub = s \o restoring
    BY <1>3, <1>4
  <2> HIDE DEF s
  <2>2. /\ s \o restoring # <<>> /\ Head(s \o restoring) = Head(s)
        /\ Tail(s \o restoring) = Tail(s) \o restoring
    BY <1>1, <2>1, ConcatHead
  <2> QED
    BY <1>4, <2>1, <2>2 DEF s
<1> QED
  BY <1>2, <1>5 DEF Blamed, c

-----------------------------------------------------------------------------
(* Every step keeps the invariant *)

\* Every variable starts in its set.
LEMMA SortedInit == Init => Sorted
BY EmptySeq DEF Init, Sorted, Idle

\* Whatever a lost link does to the requests under way, they stay requests.
LEMMA LinkLostTypes ==
    ASSUME Sorted, LinkLost
    PROVE  link' \in {"up", "down"} /\ chan' \in Seq(Request) /\ wire' \in Seq(Request)
BY EmptySeq DEF Sorted, LinkLost

\* The event loop's steps leave every variable in its set.
LEMMA SortedLoop ==
    ASSUME Sorted, EventLoop \/ Transmit \/ Dropped
    PROVE  Sorted'
<1>0. /\ link \in {"up", "down"} /\ restoring \in Seq(Topic) /\ chan \in Seq(Request)
      /\ wire \in Seq(Request) /\ registry \subseteq Filter
      /\ cmd \in [Task -> {Idle} \cup [at : CmdSteps, filter : Filter]] /\ clean \in BOOLEAN
  BY DEF Sorted
<1>1. CASE Connected
  <2>1. restoring' \in Seq(Topic)
    BY <1>1, ReplayTypes DEF Connected
  <2>2. clean' \in BOOLEAN
    <3> DEFINE c == wire = <<>> /\ chan = <<>> /\ AllIdle
    <3>1. c \in BOOLEAN
      BY DEF AllIdle
    <3> QED
      BY <1>1, <3>1 DEF Connected
  <2> QED
    BY <1>0, <1>1, <2>1, <2>2 DEF Sorted, Connected
<1>2. CASE ExpectAll
  BY <1>0, <1>2, ProbeTypes DEF Sorted, ExpectAll
<1>3. CASE RestoreOne
  <2>1. Head(restoring) \in Topic /\ Tail(restoring) \in Seq(Topic)
    BY <1>0, <1>3, HeadTailProperties DEF RestoreOne
  <2>2. Sub(Head(restoring)) \in Request
    BY <2>1 DEF Sub, Request
  <2>3. chan' \in Seq(Request)
    BY <1>0, <1>3, <2>2, AppendProperties DEF RestoreOne
  <2> QED
    BY <1>0, <1>3, <2>1, <2>3 DEF Sorted, RestoreOne
<1>4. CASE RestoreDone
  BY <1>0, <1>4 DEF Sorted, RestoreDone
<1>5. CASE Granted \/ RefusedV3 \/ UnsubAcked
  <2>1. Tail(wire) \in Seq(Request)
    BY <1>0, <1>5, HeadTailProperties DEF Granted, RefusedV3, UnsubAcked, Answered
  <2> QED
    BY <1>0, <1>5, <2>1 DEF Sorted, Granted, RefusedV3, UnsubAcked
<1>6. CASE Quarantine
  BY <1>0, <1>6 DEF Sorted, Quarantine
<1>7. CASE RefusedV5
  BY <1>0, <1>7, LinkLostTypes DEF Sorted, RefusedV5
<1>8. CASE Transmit
  <2>1. Head(chan) \in Request /\ Tail(chan) \in Seq(Request)
    BY <1>0, <1>8, HeadTailProperties DEF Transmit
  <2>2. wire' \in Seq(Request)
    BY <1>0, <1>8, <2>1, AppendProperties DEF Transmit
  <2> QED
    BY <1>0, <1>8, <2>1, <2>2 DEF Sorted, Transmit
<1>9. CASE Dropped
  BY <1>0, <1>9, LinkLostTypes DEF Sorted, Dropped
<1> QED
  BY <1>1, <1>2, <1>3, <1>4, <1>5, <1>6, <1>7, <1>8, <1>9 DEF EventLoop

\* So do the user's commands, and none of them keeps the connection clean.
LEMMA SortedCommand ==
    ASSUME Sorted, NEW t \in Task,
           \/ CommandStep(t)
           \/ \E f \in Filter : SubscribeTopic(t, f) \/ UnsubscribeTopic(t, f)
    PROVE  Sorted' /\ clean' = FALSE /\ UNCHANGED <<link, loop>>
<1>0. /\ link \in {"up", "down"} /\ restoring \in Seq(Topic) /\ chan \in Seq(Request)
      /\ wire \in Seq(Request) /\ registry \subseteq Filter
      /\ cmd \in [Task -> {Idle} \cup [at : CmdSteps, filter : Filter]] /\ clean \in BOOLEAN
  BY DEF Sorted
<1>1. ASSUME NEW f \in Filter, NEW step \in CmdSteps, Goto(t, step, f)
      PROVE  cmd' \in [Task -> {Idle} \cup [at : CmdSteps, filter : Filter]]
  BY <1>0, <1>1 DEF Goto
<1>2. ASSUME Return(t)
      PROVE  cmd' \in [Task -> {Idle} \cup [at : CmdSteps, filter : Filter]]
  BY <1>0, <1>2 DEF Return
<1>3. ASSUME cmd[t].at \in CmdSteps
      PROVE  /\ cmd[t].filter \in Filter
             /\ Sub(cmd[t].filter) \in Request /\ Unsub(cmd[t].filter) \in Request
  BY <1>0, <1>3 DEF Idle, CmdSteps, Sub, Unsub, Request, Topic
<1>4. CASE Enqueue(t)
  <2>1. cmd[t].at \in CmdSteps /\ "expect" \in CmdSteps
    BY <1>4 DEF Enqueue, At, CmdSteps
  <2>2. chan' \in Seq(Request)
    BY <1>0, <1>3, <1>4, <2>1, AppendProperties DEF Enqueue
  <2> QED
    BY <1>0, <1>1, <1>3, <1>4, <2>1, <2>2 DEF Sorted, Enqueue, loopSame
<1>5. CASE ExpectSub(t)
  BY <1>0, <1>2, <1>5 DEF Sorted, ExpectSub, loopSame
<1>6. CASE Forget(t)
  <2>1. cmd[t].at \in CmdSteps /\ "unsend" \in CmdSteps
    BY <1>6 DEF Forget, At, CmdSteps
  <2> QED
    BY <1>0, <1>1, <1>3, <1>6, <2>1 DEF Sorted, Forget, loopSame
<1>7. CASE Unsend(t)
  <2>1. cmd[t].at \in CmdSteps
    BY <1>7 DEF Unsend, At, CmdSteps
  <2>2. chan' \in Seq(Request)
    BY <1>0, <1>3, <1>7, <2>1, AppendProperties DEF Unsend
  <2> QED
    BY <1>0, <1>2, <1>7, <2>2 DEF Sorted, Unsend, loopSame
<1>8. ASSUME NEW f \in Filter, SubscribeTopic(t, f) \/ UnsubscribeTopic(t, f)
      PROVE  Sorted' /\ clean' = FALSE /\ UNCHANGED <<link, loop>>
  <2>1. "enqueue" \in CmdSteps /\ "forget" \in CmdSteps
    BY DEF CmdSteps
  <2> QED
    BY <1>0, <1>1, <1>8, <2>1 DEF Sorted, SubscribeTopic, UnsubscribeTopic, loopSame
<1> QED
  BY <1>4, <1>5, <1>6, <1>7, <1>8 DEF CommandStep

\* Moving requests along their way, or the CONNACK handler's list onto it, keeps the order.
LEMMA MovesKeepOrder ==
    ASSUME SlotsInv, Sorted', RestoreOne \/ Transmit
    PROVE  SlotsInv'
<1>0. /\ restoring \in Seq(Topic) /\ chan \in Seq(Request) /\ wire \in Seq(Request)
      /\ Filters(wire) \in Seq(Topic) /\ Filters(chan) \in Seq(Topic)
  BY FiltersMap DEF SlotsInv, Sorted
<1> DEFINE w == Filters(wire)
           c == Filters(chan)
<1>1. CASE RestoreOne
  <2>1. Head(restoring) \in Topic /\ Tail(restoring) \in Seq(Topic)
    BY <1>0, <1>1, HeadTailProperties DEF RestoreOne
  <2>2. Sub(Head(restoring)) \in Request /\ Sub(Head(restoring)).filter = Head(restoring)
        /\ Sub(Head(restoring)).kind = "SUB"
    BY <2>1 DEF Sub, Request
  <2>3. Filters(chan') = Append(c, Head(restoring))
    BY <1>0, <1>1, <2>2, FiltersAppend DEF RestoreOne
  <2>4. ASSUME clean, link = "up" PROVE Subs(chan')
    <3>1. Subs(chan)
      BY <2>4 DEF SlotsInv, Attribution
    <3>2. /\ Len(chan') = Len(chan) + 1 /\ Len(chan) \in Nat
          /\ \A i \in 1 .. Len(chan) : chan'[i] = chan[i]
          /\ chan'[Len(chan) + 1] = Sub(Head(restoring))
      BY <1>0, <1>1, <2>2, AppendProperties, LenProperties DEF RestoreOne
    <3>3. \A i \in 1 .. Len(chan') : i \in 1 .. Len(chan) \/ i = Len(chan) + 1
      BY <3>2
    <3> QED
      BY <2>2, <3>1, <3>2, <3>3 DEF Subs
  <2>5. (w \o Append(c, Head(restoring))) \o Tail(restoring) = (w \o c) \o restoring
    <3>1. w \in Seq(Topic) /\ c \in Seq(Topic) /\ restoring \in Seq(Topic) /\ restoring # <<>>
      BY <1>0, <1>1 DEF RestoreOne
    <3> HIDE DEF w, c
    <3> QED
      BY <3>1, ShiftTopics, Zenon
  <2>6. SlotsMatchAnswers'
    BY <1>1, <2>3, <2>5 DEF SlotsInv, SlotsMatchAnswers, RestoreOne, tracker
  <2> QED
    BY <1>1, <2>4, <2>6 DEF SlotsInv, Attribution, RestoreOne
<1>2. CASE Transmit
  <2>1. Head(chan) \in Request /\ Tail(chan) \in Seq(Request)
    BY <1>0, <1>2, HeadTailProperties DEF Transmit
  <2>2. /\ Filters(wire') = Append(w, Head(c)) /\ Filters(chan') = Tail(c) /\ c # <<>>
    BY <1>0, <1>2, <2>1, FiltersAppend, FiltersTail DEF Transmit
  <2>3. ASSUME clean, link = "up" PROVE Subs(wire') /\ Subs(chan')
    <3>1. Subs(wire) /\ Subs(chan)
      BY <2>3 DEF SlotsInv, Attribution
    <3>2. /\ Len(wire') = Len(wire) + 1 /\ Len(wire) \in Nat
          /\ \A i \in 1 .. Len(wire) : wire'[i] = wire[i]
          /\ wire'[Len(wire) + 1] = Head(chan)
      BY <1>0, <1>2, <2>1, AppendProperties, LenProperties DEF Transmit
    <3>3. /\ Len(chan) \in Nat \ {0} /\ Len(chan') = Len(chan) - 1
          /\ \A i \in 1 .. Len(chan') : chan'[i] = chan[i + 1]
          /\ Head(chan) = chan[1]
      BY <1>0, <1>2, HeadTailProperties, EmptySeq DEF Transmit
    <3>4. \A i \in 1 .. Len(wire') : i \in 1 .. Len(wire) \/ i = Len(wire) + 1
      BY <3>2
    <3>5. \A i \in 1 .. Len(chan') : i + 1 \in 1 .. Len(chan)
      BY <3>3
    <3>6. Subs(chan')
      BY <3>1, <3>3, <3>5 DEF Subs
    <3>7. chan[1].kind = "SUB"
      BY <3>1, <3>3 DEF Subs
    <3> QED
      BY <3>1, <3>2, <3>3, <3>4, <3>6, <3>7 DEF Subs
  <2>4. Append(w, Head(c)) \o Tail(c) = w \o c
    <3> HIDE DEF w, c
    <3> QED
      BY <1>0, <2>2, ShiftHead DEF w, c
  <2>5. SlotsMatchAnswers'
    BY <1>2, <2>2, <2>4 DEF SlotsInv, SlotsMatchAnswers, Transmit, tracker
  <2> QED
    BY <1>2, <2>3, <2>5 DEF SlotsInv, Attribution, Transmit
<1> QED
  BY <1>1, <1>2

\* An answer takes the slot of the filter it is about, and no other.
LEMMA AnswersKeepOrder ==
    ASSUME SlotsInv, Sorted', Granted \/ RefusedV3 \/ UnsubAcked
    PROVE  SlotsInv'
<1>0. /\ restoring \in Seq(Topic) /\ chan \in Seq(Request) /\ wire \in Seq(Request)
      /\ loop = "poll" /\ link = "up" /\ wire # <<>> /\ wire' = Tail(wire)
      /\ UNCHANGED <<link, chan, restoring, clean>>
  BY DEF SlotsInv, Sorted, Granted, RefusedV3, UnsubAcked, Answered
<1>1. ASSUME clean
      PROVE  /\ Subs(wire') /\ Subs(chan')
             /\ Head(wire).kind = "SUB"
  <2>1. Subs(wire) /\ Subs(chan)
    BY <1>0, <1>1 DEF SlotsInv, Attribution
  <2>2. /\ Len(wire) \in Nat \ {0} /\ Len(wire') = Len(wire) - 1
        /\ \A i \in 1 .. Len(wire') : wire'[i] = wire[i + 1]
        /\ Head(wire) = wire[1]
    BY <1>0, HeadTailProperties, EmptySeq
  <2>3. \A i \in 1 .. Len(wire') : i + 1 \in 1 .. Len(wire)
    BY <2>2
  <2>4. 1 \in 1 .. Len(wire)
    BY <2>2
  <2> QED
    BY <1>0, <2>1, <2>2, <2>3, <2>4 DEF Subs
<1>2. ASSUME clean
      PROVE  /\ SlotsMatchAnswers'
             /\ loop' = "quarantine" => verdict' \in Denied
             /\ loop' \in {"poll", "quarantine"}
  <2>1. ~UnsubAcked
    BY <1>1, <1>2 DEF UnsubAcked, Answered
  <2>2. /\ pendingSub # <<>> /\ Blamed = Head(wire).filter
        /\ Tail(pendingSub) = Filters(Tail(wire)) \o Filters(chan) \o restoring
    BY <1>0, <1>2, BlamedIsAnswered
  <2>3. pendingSub' = Tail(pendingSub)
    BY <2>1, <2>2 DEF Granted, RefusedV3
  <2>4. loop' = "poll" \/ (loop' = "quarantine" /\ verdict' \in Denied)
    BY <1>0, <2>1, <2>2 DEF Granted, RefusedV3, Refused
  <2> QED
    BY <1>0, <2>2, <2>3, <2>4 DEF SlotsMatchAnswers
<1>3. clean \in BOOLEAN
  BY DEF SlotsInv, Sorted
<1>4. SlotsMatchAnswers'
  BY <1>0, <1>2 DEF SlotsMatchAnswers
<1>5. Attribution'
  BY <1>0, <1>1, <1>2 DEF Attribution
<1> QED
  BY <1>4, <1>5 DEF SlotsInv

\* Before the first connection no slot waits and no answer is owed.
LEMMA SlotsInvInit == Init => SlotsInv
<1> SUFFICES ASSUME Init PROVE SlotsInv
  OBVIOUS
<1>1. Sorted
  BY SortedInit
<1>2. link = "down" /\ loop = "poll" /\ clean = FALSE
  BY DEF Init
<1> QED
  BY <1>1, <1>2 DEF SlotsInv, Attribution, SlotsMatchAnswers

\* Every step of the event loop, the broker and the user's commands preserves the invariant.
LEMMA SlotsInvStep == SlotsInv /\ [Next]_vars => SlotsInv'
<1> SUFFICES ASSUME SlotsInv, [Next]_vars PROVE SlotsInv'
  OBVIOUS
<1>0. Sorted /\ Attribution /\ SlotsMatchAnswers
  BY DEF SlotsInv
<1>1. CASE EventLoop \/ Transmit \/ Dropped
  <2>1. Sorted'
    BY <1>0, <1>1, SortedLoop
  <2>2. CASE Connected
    <3>1. link' = "up" /\ loop' = "expect" /\ UNCHANGED <<wire, chan>>
          /\ (clean' => wire = <<>> /\ chan = <<>>)
      BY <2>2 DEF Connected
    <3>2. Subs(<<>>)
      BY DEF Subs
    <3> QED
      BY <2>1, <3>1, <3>2 DEF SlotsInv, Attribution, SlotsMatchAnswers
  <2>3. CASE ExpectAll
    <3>1. /\ loop' = "restore" /\ link = "up" /\ UNCHANGED <<link, wire, chan, clean>>
          /\ restoring' = pendingSub' /\ restoring' \in Seq(Topic)
      BY <1>0, <2>1, <2>3 DEF ExpectAll, Attribution, Sorted
    <3>2. clean => wire = <<>> /\ chan = <<>>
      BY <1>0, <2>3 DEF ExpectAll, Attribution
    <3>3. Filters(<<>>) \o Filters(<<>>) \o restoring' = restoring'
      <4>1. Filters(<<>>) = <<>>
        BY FiltersMap, EmptySeq
      <4>2. <<>> \o <<>> = <<>>
        BY ConcatEmptySeq, EmptySeq
      <4> QED
        BY <3>1, <4>1, <4>2, ConcatEmptySeq
    <3> QED
      BY <1>0, <2>1, <3>1, <3>2, <3>3 DEF SlotsInv, Attribution, SlotsMatchAnswers
  <2>4. CASE RestoreOne \/ Transmit
    BY <2>1, <2>4, MovesKeepOrder
  <2>5. CASE RestoreDone
    BY <1>0, <2>1, <2>5 DEF RestoreDone, SlotsInv, Attribution, SlotsMatchAnswers, tracker
  <2>6. CASE Granted \/ RefusedV3 \/ UnsubAcked
    BY <2>1, <2>6, AnswersKeepOrder
  <2>7. CASE Quarantine
    BY <1>0, <2>1, <2>7 DEF Quarantine, SlotsInv, Attribution, SlotsMatchAnswers
  <2>8. CASE RefusedV5 \/ Dropped
    <3>1. link' = "down" /\ loop' = "poll"
      BY <2>8 DEF RefusedV5, Dropped, LinkLost, Answered
    <3> QED
      BY <2>1, <3>1 DEF SlotsInv, Attribution, SlotsMatchAnswers
  <2> QED
    BY <1>1, <2>2, <2>3, <2>4, <2>5, <2>6, <2>7, <2>8 DEF EventLoop
<1>2. ASSUME NEW t \in Task,
             \/ CommandStep(t)
             \/ \E f \in Filter : SubscribeTopic(t, f) \/ UnsubscribeTopic(t, f)
      PROVE  SlotsInv'
  <2>1. Sorted' /\ clean' = FALSE /\ UNCHANGED <<link, loop>>
    BY <1>0, <1>2, SortedCommand
  <2> QED
    BY <1>0, <2>1 DEF SlotsInv, Attribution, SlotsMatchAnswers
<1>3. CASE UNCHANGED vars
  BY <1>0, <1>3 DEF vars, tracker, SlotsInv, Sorted, Attribution, SlotsMatchAnswers, Subs, Filters
<1> QED
  BY <1>1, <1>2, <1>3 DEF Next

-----------------------------------------------------------------------------
(* Theorems *)

\* Whatever filters are registered, denied or quarantined, and however often the
\* connection is lost: on a connection only the CONNACK handler uses, the tracker's slots
\* are the answers the broker still owes (expect_sub before the first subscribe).
THEOREM SlotsAreAnswers == Spec => []SlotsMatchAnswers
<1>1. SlotsInv => SlotsMatchAnswers
  BY DEF SlotsInv
<1> QED
  BY <1>1, SlotsInvInit, SlotsInvStep, PTL DEF Spec

\* On such a connection only a filter the broker refused is ever taken out of the replay
\* (apply_sub_ack and handle_ack_rejected quarantine the filter at the head of the slots).
THEOREM BlameIsRight == Spec => RestoreBlamesRight
<1>1. SlotsInv /\ [Next]_vars => (clean => (quarantined' \ quarantined) \subseteq Denied)
  <2> SUFFICES ASSUME SlotsInv, [Next]_vars, clean
               PROVE  (quarantined' \ quarantined) \subseteq Denied
    OBVIOUS
  <2>1. CASE Quarantine
    BY <2>1 DEF Quarantine, SlotsInv, Attribution
  <2>2. CASE RefusedV5
    <3>1. Blamed = Head(wire).filter /\ Head(wire).filter \in Denied
      BY <2>2, BlamedIsAnswered DEF RefusedV5, Answered, Refused
    <3>2. quarantined' \subseteq quarantined \cup {Blamed}
      BY <2>2 DEF RefusedV5
    <3> QED
      BY <3>1, <3>2
  <2>3. CASE ExpectAll \/ \E t \in Task : ExpectSub(t) \/ Forget(t)
    BY <2>3 DEF ExpectAll, ExpectSub, Forget
  <2>4. CASE UNCHANGED quarantined
    BY <2>4
  <2>5. \/ Quarantine \/ RefusedV5 \/ ExpectAll \/ UNCHANGED quarantined
        \/ \E t \in Task : ExpectSub(t) \/ Forget(t)
    <3>1. CASE Next
      BY <3>1 DEF Next, EventLoop, CommandStep, tracker, Connected, RestoreOne, RestoreDone,
         Granted, RefusedV3, UnsubAcked, Transmit, Dropped, Enqueue, Unsend, SubscribeTopic,
         UnsubscribeTopic
    <3>2. CASE UNCHANGED vars
      BY <3>2 DEF vars, tracker
    <3> QED
      BY <3>1, <3>2
  <2> QED
    BY <2>1, <2>2, <2>3, <2>4, <2>5
<1>2. SlotsInv /\ [Next]_vars =>
        [clean => (quarantined' \ quarantined) \subseteq Denied]_vars
  BY <1>1
<1> QED
  BY <1>2, SlotsInvInit, SlotsInvStep, PTL DEF Spec, RestoreBlamesRight
=============================================================================
