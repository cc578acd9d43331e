----------------------------- MODULE Rpc_proofs -----------------------------
(***************************************************************************)
(* What TLC checks of Rpc on two calls, proved for any number of calls,    *)
(* topics, sends and answers.                                              *)
(*                                                                         *)
(* First what holds whoever shares a topic: types, and that a call ends    *)
(* once.  Then, for calls on topics of their own, that a topic is open as  *)
(* long as its call needs it, and closed when nothing is under way.        *)
(***************************************************************************)
EXTENDS Rpc, FiniteSetTheorems, TLAPS

Done(c) == state[c] \in Finished \cup {"gone"}

\* Nothing of a call exists before its request was recorded or has failed; a pending call
\* waits for more answers and nobody closes it; only finished calls are cleared.
Control ==
    \A c \in Call :
        /\ task[c] # "over" => /\ state[c] = "none" /\ closing[c] = "no"
                               /\ rank[c] = 0 /\ answers[c] = 0
        /\ state[c] = "pending" => closing[c] = "no" /\ answers[c] < expected[c]
        /\ c \in dropped => Done(c)

\* The calls that hold a reference to a topic.
Holders(t) ==
    {c \in Call : /\ resp[c] = t
                  /\ \/ task[c] \in {"watching", "published"}
                     \/ state[c] = "pending"
                     \/ closing[c] = "release"}

\* No topic is counted more often than it is held.
Counted == \A t \in Topic : watch[t].refs <= Cardinality(Holders(t))

\* The counters of the rows are functions; TypeOK only bounds their values.
Counters == attempt \in [Call -> Nat] /\ answers \in [Call -> Nat]

Shape == TypeOK /\ Counters /\ Control
Inv == Shape /\ Counted

-----------------------------------------------------------------------------
(* Lemmas about the operators *)

States == {"none", "pending", "gone"} \cup Finished

\* Trimming the list only removes finished calls from it.
LEMMA TrimKeeps ==
    ASSUME NEW s \in [Call -> States]
    PROVE  /\ Trim(s) \in [Call -> States]
           /\ \A c \in Call : Trim(s)[c] = s[c] \/ (s[c] \in Finished /\ Trim(s)[c] = "gone")
BY DEF Trim, States

\* Holders are calls, so that they can be counted.
LEMMA HoldersFinite ==
    ASSUME NEW t
    PROVE  IsFiniteSet(Holders(t)) /\ Cardinality(Holders(t)) \in Nat
           /\ Cardinality(Holders(t)) <= Cardinality(Call) /\ Cardinality(Call) \in Nat
<1>1. Holders(t) \subseteq Call
  BY DEF Holders
<1> QED
  BY <1>1, RpcAssumption, FS_Subset, FS_CardinalityType

\* A release lowers a count that is there.
LEMMA ReleasedType ==
    ASSUME TypeOK, NEW t \in Topic
    PROVE  /\ Released(t) \in [Topic -> [refs : 0 .. Cardinality(Call), mine : BOOLEAN]]
           /\ \A u \in Topic \ {t} : Released(t)[u] = watch[u]
           /\ Released(t)[t].refs = IF watch[t].refs = 0 THEN 0 ELSE watch[t].refs - 1
<1>1. Cardinality(Call) \in Nat
  BY RpcAssumption, FS_CardinalityType
<1>2. watch[t] \in [refs : 0 .. Cardinality(Call), mine : BOOLEAN]
  BY DEF TypeOK
<1>3. NoEntry \in [refs : 0 .. Cardinality(Call), mine : BOOLEAN] /\ NoEntry.refs = 0
  BY <1>1 DEF NoEntry
<1>4. CASE watch[t].refs > 1
  <2>1. [refs |-> watch[t].refs - 1, mine |-> watch[t].mine] \in [refs : 0 .. Cardinality(Call), mine : BOOLEAN]
    BY <1>1, <1>2, <1>4
  <2>2. Released(t) = [watch EXCEPT ![t] = [refs |-> watch[t].refs - 1, mine |-> watch[t].mine]]
    BY <1>4 DEF Released
  <2>3. [refs |-> watch[t].refs - 1, mine |-> watch[t].mine].refs = watch[t].refs - 1
    BY <1>2
  <2> QED
    BY <1>1, <1>2, <1>4, <2>1, <2>2, <2>3 DEF TypeOK
<1>5. CASE ~(watch[t].refs > 1)
  <2>1. Released(t) = [watch EXCEPT ![t] = NoEntry]
    BY <1>5 DEF Released
  <2>2. watch[t].refs = 0 \/ watch[t].refs = 1
    BY <1>1, <1>2, <1>5
  <2> QED
    BY <1>3, <2>1, <2>2 DEF TypeOK
<1> QED
  BY <1>4, <1>5

\* A step that takes no reference and gives none back, and lets go of no topic, keeps the count.
LEMMA CountStays ==
    ASSUME TypeOK, Counted, UNCHANGED watch, \A t \in Topic : Holders(t) \subseteq Holders(t)'
    PROVE  Counted'
<1>1. ASSUME NEW t \in Topic
      PROVE  Cardinality(Holders(t)) <= Cardinality(Holders(t)')
  <2>1. Holders(t)' \subseteq Call
    BY DEF Holders
  <2>2. IsFiniteSet(Holders(t)')
    BY <2>1, RpcAssumption, FS_Subset
  <2> QED
    BY <2>2, FS_Subset
<1>2. ASSUME NEW t \in Topic
      PROVE  Cardinality(Holders(t)) \in Nat /\ Cardinality(Holders(t)') \in Nat
  <2>1. Holders(t)' \subseteq Call
    BY DEF Holders
  <2> QED
    BY <2>1, HoldersFinite, RpcAssumption, FS_Subset, FS_CardinalityType
<1>3. Cardinality(Call) \in Nat
  BY RpcAssumption, FS_CardinalityType
<1> QED
  BY <1>1, <1>2, <1>3 DEF Counted, TypeOK

-----------------------------------------------------------------------------
(* Types and control *)


\* A request that waits for its subscription holds no reference yet, so there is room for one.
LEMMA RoomForOne ==
    ASSUME Inv, NEW c \in Call, task[c] = "subscribed"
    PROVE  watch[resp[c]].refs + 1 \in 0 .. Cardinality(Call)
<1> DEFINE H == Holders(resp[c])
<1>1. c \notin H /\ H \subseteq Call
  BY DEF Holders, Inv, Shape, Control
<1>2. IsFiniteSet(H) /\ Cardinality(H \cup {c}) = Cardinality(H) + 1
  BY <1>1, HoldersFinite, FS_AddElement
<1>3. Cardinality(H \cup {c}) <= Cardinality(Call) /\ Cardinality(Call) \in Nat
  BY <1>1, RpcAssumption, FS_Subset, FS_CardinalityType
<1>4. watch[resp[c]].refs <= Cardinality(H) /\ watch[resp[c]].refs \in Nat
  BY <1>3 DEF Inv, Shape, Counted, TypeOK
<1>5. Cardinality(H) \in Nat
  BY HoldersFinite
<1> QED
  BY <1>2, <1>3, <1>4, <1>5

\* A call that is recorded now has no rank, so there is a rank left for it.
LEMMA RankLeft ==
    ASSUME Shape, NEW c \in Call, task[c] = "published"
    PROVE  1 + Cardinality({d \in Call : rank[d] > 0}) \in 0 .. Cardinality(Call)
<1> DEFINE R == {d \in Call : rank[d] > 0}
<1>1. c \notin R /\ R \subseteq Call
  BY DEF Shape, Control
<1>2. IsFiniteSet(R)
  BY <1>1, RpcAssumption, FS_Subset
<1>3. Cardinality(R \cup {c}) = Cardinality(R) + 1
  BY <1>1, <1>2, FS_AddElement
<1>4. Cardinality(R \cup {c}) <= Cardinality(Call) /\ Cardinality(Call) \in Nat
  BY <1>1, RpcAssumption, FS_Subset, FS_CardinalityType
<1>5. Cardinality(R) \in Nat
  BY <1>2, FS_CardinalityType
<1> QED
  BY <1>3, <1>4, <1>5

\* Every call waits for an answer at least.
LEMMA Positive == ASSUME NEW n \in Collect PROVE n \in Nat /\ n > 0
BY RpcAssumption

LEMMA RequestShape ==
    ASSUME Inv, NEW c \in Call, Request(c)
    PROVE  Shape'
<1> USE DEF callVars, rowVars, rowSame, restSame, Goto, Finished
<1>1. CASE Check(c)
  <2>1. TypeOK' /\ Counters'
    BY <1>1 DEF Inv, Shape, TypeOK, Counters, Check
  <2>2. Control'
    BY <1>1 DEF Inv, Shape, TypeOK, Control, Done, Check
  <2> QED
    BY <2>1, <2>2 DEF Shape
<1>2. CASE Subscribe(c) \/ SubscribeFails(c)
  <2>1. TypeOK' /\ Counters'
    BY <1>2 DEF Inv, Shape, TypeOK, Counters, Subscribe, SubscribeFails
  <2>2. Control'
    BY <1>2 DEF Inv, Shape, TypeOK, Control, Done, Subscribe, SubscribeFails
  <2> QED
    BY <2>1, <2>2 DEF Shape
<1>3. CASE Publish(c) \/ PublishFails(c)
  <2>1. TypeOK' /\ Counters'
    BY <1>3 DEF Inv, Shape, TypeOK, Counters, Publish, PublishFails
  <2>2. Control'
    BY <1>3 DEF Inv, Shape, TypeOK, Control, Done, Publish, PublishFails
  <2> QED
    BY <2>1, <2>2 DEF Shape
<1>4. CASE Acquire(c)
  <2>1. watch' \in [Topic -> [refs : 0 .. Cardinality(Call), mine : BOOLEAN]]
    <3>1. [refs |-> watch[resp[c]].refs + 1,
           mine |-> IF watch[resp[c]].refs = 0 THEN ~ours[c] ELSE watch[resp[c]].mine]
             \in [refs : 0 .. Cardinality(Call), mine : BOOLEAN]
      BY <1>4, RoomForOne DEF Inv, Shape, TypeOK, Acquire
    <3>2. watch' = [watch EXCEPT ![resp[c]] =
                      [refs |-> watch[resp[c]].refs + 1,
                       mine |-> IF watch[resp[c]].refs = 0 THEN ~ours[c] ELSE watch[resp[c]].mine]]
      BY <1>4 DEF Acquire, Acquired
    <3> QED
      BY <3>1, <3>2 DEF Inv, Shape, TypeOK
  <2>2. TypeOK' /\ Counters'
    BY <1>4, <2>1 DEF Inv, Shape, TypeOK, Counters, Acquire
  <2>3. Control'
    BY <1>4 DEF Inv, Shape, TypeOK, Control, Done, Acquire
  <2> QED
    BY <2>2, <2>3 DEF Shape
<1>5. CASE Record(c)
  <2>1. rank' \in [Call -> 0 .. Cardinality(Call)]
    BY <1>5, RankLeft DEF Inv, Shape, TypeOK, Record
  <2>2. TypeOK' /\ Counters'
    BY <1>5, <2>1 DEF Inv, Shape, TypeOK, Counters, Record
  <2>3. expected[c] > 0
    <3>1. expected[c] \in Collect
      BY DEF Inv, Shape, TypeOK
    <3> QED
      BY <3>1, Positive
  <2>4. Control'
    BY <1>5, <2>3 DEF Inv, Shape, TypeOK, Control, Done, Record
  <2> QED
    BY <2>2, <2>4 DEF Shape
<1> QED
  BY <1>1, <1>2, <1>3, <1>4, <1>5 DEF Request

\* A pending call that is finished leaves the list to its order.
LEMMA FinishShape ==
    ASSUME Shape, NEW d \in Call, state[d] = "pending", NEW how \in Finished, Finish(d, how)
    PROVE  /\ state' \in [Call -> States] /\ state'[d] \in Finished \cup {"gone"}
           /\ \A c \in Call \ {d} : state'[c] = state[c] \/ (state[c] \in Finished /\ state'[c] = "gone")
<1> DEFINE s == [state EXCEPT ![d] = how]
<1>1. s \in [Call -> States] /\ s[d] = how /\ \A c \in Call \ {d} : s[c] = state[c]
  BY DEF Shape, TypeOK, States
<1>2. state' = Trim(s)
  BY DEF Finish
<1> HIDE DEF s
<1>3. state' \in [Call -> States]
      /\ \A c \in Call : state'[c] = s[c] \/ (s[c] \in Finished /\ state'[c] = "gone")
  BY <1>1, <1>2, TrimKeeps
<1> QED
  BY <1>1, <1>3

LEMMA WaitShape ==
    ASSUME Shape, NEW c \in Call, Wait(c)
    PROVE  Shape'
<1> USE DEF callVars, rowVars, requestSame, restSame, Timer
<1>1. CASE TimerFires(c)
  <2>1. CASE state[c] = "pending" /\ RetrySlot(c) /\ attempt' = [attempt EXCEPT ![c] = @ + 1]
    <3>1. attempt[c] + 1 \in 0 .. attempts[c] - 1 /\ attempts[c] \in Nat
      <4>1. attempts[c] \in Attempts
        BY DEF Shape, TypeOK
      <4>2. attempts[c] \in Nat
        BY <4>1, RpcAssumption
      <4> QED
        BY <2>1, <4>2 DEF Shape, Counters, RetrySlot
    <3>2. TypeOK' /\ Counters'
      BY <1>1, <2>1, <3>1 DEF Shape, TypeOK, Counters, TimerFires
    <3>3. Control'
      BY <1>1 DEF Shape, Control, Done, TimerFires
    <3> QED
      BY <3>2, <3>3 DEF Shape
  <2>2. CASE UNCHANGED attempt
    <3>1. TypeOK' /\ Counters'
      BY <1>1, <2>2 DEF Shape, TypeOK, Counters, TimerFires
    <3>2. Control'
      BY <1>1 DEF Shape, Control, Done, TimerFires
    <3> QED
      BY <3>1, <3>2 DEF Shape
  <2> QED
    BY <1>1, <2>1, <2>2 DEF TimerFires
<1>2. CASE Retry(c) \/ RetryFails(c)
  <2>1. TypeOK' /\ Counters'
    BY <1>2 DEF Shape, TypeOK, Counters, Retry, RetryFails
  <2>2. Control'
    BY <1>2 DEF Shape, Control, Done, Retry, RetryFails
  <2> QED
    BY <2>1, <2>2 DEF Shape
<1>3. CASE Expire(c)
  <2>1. CASE state[c] = "pending"
    <3>1. /\ state' \in [Call -> States] /\ state'[c] \in Finished \cup {"gone"}
          /\ \A d \in Call \ {c} : state'[d] = state[d] \/ (state[d] \in Finished /\ state'[d] = "gone")
      BY <1>3, <2>1, FinishShape DEF Expire, Finished
    <3>2. TypeOK' /\ Counters'
      BY <1>3, <2>1, <3>1 DEF Shape, TypeOK, Counters, Expire, States
    <3>3. Control'
      BY <1>3, <2>1, <3>1 DEF Shape, TypeOK, Control, Done, Expire, Finished
    <3> QED
      BY <3>2, <3>3 DEF Shape
  <2>2. CASE state[c] # "pending"
    <3>1. TypeOK' /\ Counters'
      BY <1>3, <2>2 DEF Shape, TypeOK, Counters, Expire
    <3>2. Control'
      BY <1>3, <2>2 DEF Shape, Control, Done, Expire
    <3> QED
      BY <3>1, <3>2 DEF Shape
  <2> QED
    BY <2>1, <2>2
<1> QED
  BY <1>1, <1>2, <1>3 DEF Wait

\* Only a call that is pending takes an answer.
LEMMA ObservedIsPending ==
    ASSUME NEW c \in Call, NEW d \in Exact(c) \cup Oldest(c)
    PROVE  d \in Call /\ state[d] = "pending" /\ resp[d] = resp[c]
BY DEF Exact, Oldest, Pending

LEMMA ObserveShape ==
    ASSUME Shape, NEW c \in Call, Observe(c)
    PROVE  Shape'
<1> USE DEF callVars, requestSame, restSame
<1>1. PICK d \in Exact(c) \cup Oldest(c) : Answer(c, d)
  BY DEF Observe
<1>2. d \in Call /\ state[d] = "pending"
  BY <1>1, ObservedIsPending
<1>3. expected[d] \in Nat /\ answers[d] \in Nat /\ answers[d] < expected[d]
  <2>1. expected[d] \in Collect
    BY <1>2 DEF Shape, TypeOK
  <2> QED
    BY <1>2, <2>1, Positive DEF Shape, Counters, Control
<1>4. CASE answers[d] + 1 >= expected[d]
  <2>1. /\ state' \in [Call -> States] /\ state'[d] \in Finished \cup {"gone"}
        /\ \A e \in Call \ {d} : state'[e] = state[e] \/ (state[e] \in Finished /\ state'[e] = "gone")
    BY <1>1, <1>2, <1>4, FinishShape DEF Answer, Finished
  <2>2. TypeOK' /\ Counters'
    <3>1. answers' \in [Call -> Nat] /\ \A e \in Call : answers'[e] \in 0 .. expected[e]
      BY <1>1, <1>2, <1>3 DEF Shape, TypeOK, Counters, Answer
    <3>2. closing' \in [Call -> {"no", "release", "unsubscribe"}] /\ observing' \subseteq Call
      BY <1>1, <1>2, <1>4 DEF Shape, TypeOK, Answer
    <3> QED
      BY <2>1, <3>1, <3>2 DEF Shape, TypeOK, Counters, Observe, States
  <2>3. Control'
    BY <1>1, <1>2, <1>3, <1>4, <2>1 DEF Shape, TypeOK, Counters, Control, Done, Observe, Answer, Finished
  <2> QED
    BY <2>2, <2>3 DEF Shape
<1>5. CASE ~(answers[d] + 1 >= expected[d])
  <2>1. TypeOK' /\ Counters'
    BY <1>1, <1>2, <1>3, <1>5 DEF Shape, TypeOK, Counters, Observe, Answer
  <2>2. Control'
    BY <1>1, <1>2, <1>3, <1>5 DEF Shape, TypeOK, Counters, Control, Done, Observe, Answer
  <2> QED
    BY <2>1, <2>2 DEF Shape
<1> QED
  BY <1>4, <1>5

\* disconnect() finishes the pending calls, and no other.
LEMMA ExpireAllStates ==
    ASSUME Shape, ExpireAll
    PROVE  /\ state' \in [Call -> States]
           /\ \A c \in Call : state[c] = "pending" => state'[c] \in Finished \cup {"gone"}
           /\ \A c \in Call : state[c] # "pending" =>
                 state'[c] = state[c] \/ (state[c] \in Finished /\ state'[c] = "gone")
<1> DEFINE s == [c \in Call |-> IF c \in {d \in Call : state[d] = "pending"} THEN "timeout" ELSE state[c]]
<1>1. s \in [Call -> States] /\ \A c \in Call : s[c] = IF state[c] = "pending" THEN "timeout" ELSE state[c]
  BY DEF Shape, TypeOK, States, Finished
<1>2. state' = Trim(s)
  BY DEF ExpireAll
<1> HIDE DEF s
<1> QED
  BY <1>1, <1>2, TrimKeeps DEF Finished

LEMMA CloseShape ==
    ASSUME Shape, ExpireAll \/ \E c \in Call : Close(c)
    PROVE  Shape'
<1> USE DEF callVars, rowVars, rowSame, requestSame, restSame
<1>1. CASE ExpireAll
  <2>1. closing' = [c \in Call |-> IF state[c] = "pending" THEN "release" ELSE closing[c]]
    BY <1>1 DEF ExpireAll
  <2>2. TypeOK' /\ Counters'
    BY <1>1, <2>1, ExpireAllStates DEF Shape, TypeOK, Counters, ExpireAll, States
  <2>3. Control'
    BY <1>1, <2>1, ExpireAllStates DEF Shape, TypeOK, Control, Done, ExpireAll, States, Finished
  <2> QED
    BY <2>2, <2>3 DEF Shape
<1>2. ASSUME NEW c \in Call, Release(c)
      PROVE  Shape'
  <2>1. resp[c] \in Topic /\ task[c] = "over"
    BY <1>2 DEF Shape, TypeOK, Control, Release
  <2>2. watch' \in [Topic -> [refs : 0 .. Cardinality(Call), mine : BOOLEAN]]
    BY <1>2, <2>1, ReleasedType DEF Shape, Release
  <2>3. TypeOK' /\ Counters'
    BY <1>2, <2>2 DEF Shape, TypeOK, Counters, Release
  <2>4. Control'
    BY <1>2, <2>1 DEF Shape, TypeOK, Control, Done, Release
  <2> QED
    BY <2>3, <2>4 DEF Shape
<1>3. ASSUME NEW c \in Call, Unsubscribe(c)
      PROVE  Shape'
  <2>1. TypeOK' /\ Counters'
    BY <1>3 DEF Shape, TypeOK, Counters, Unsubscribe
  <2>2. Control'
    BY <1>3 DEF Shape, TypeOK, Control, Done, Unsubscribe
  <2> QED
    BY <2>1, <2>2 DEF Shape
<1> QED
  BY <1>1, <1>2, <1>3 DEF Close

LEMMA ClearShape ==
    ASSUME Shape, Clear
    PROVE  Shape'
<1> USE DEF callVars, requestSame, clearSame
<1>1. CASE ClearLists \/ ClearUnsubscribes
  <2>1. TypeOK' /\ Counters'
    BY <1>1 DEF Shape, TypeOK, Counters, ClearLists, ClearUnsubscribes
  <2>2. Control'
    BY <1>1 DEF Shape, TypeOK, Control, Done, ClearLists, ClearUnsubscribes
  <2> QED
    BY <2>1, <2>2 DEF Shape
<1>2. CASE ClearRemoves
  <2>1. TypeOK' /\ Counters'
    BY <1>2 DEF Shape, TypeOK, Counters, ClearRemoves
  <2>2. Control'
    BY <1>2 DEF Shape, TypeOK, Control, Done, ClearRemoves, Finished
  <2> QED
    BY <2>1, <2>2 DEF Shape
<1>3. ASSUME NEW c \in Call, ClearReleases(c)
      PROVE  Shape'
  <2>1. resp[c] \in Topic
    BY DEF Shape, TypeOK
  <2>2. watch' \in [Topic -> [refs : 0 .. Cardinality(Call), mine : BOOLEAN]]
    BY <1>3, <2>1, ReleasedType DEF Shape, ClearReleases
  <2>3. TypeOK' /\ Counters'
    BY <1>3, <2>1, <2>2 DEF Shape, TypeOK, Counters, ClearReleases
  <2>4. Control'
    BY <1>3 DEF Shape, TypeOK, Control, Done, ClearReleases
  <2> QED
    BY <2>3, <2>4 DEF Shape
<1> QED
  BY <1>1, <1>2, <1>3 DEF Clear

-----------------------------------------------------------------------------
(* The count of references *)

LEMMA AcquireCounts ==
    ASSUME Inv, NEW c \in Call, Acquire(c)
    PROVE  Counted'
<1>1. c \notin Holders(resp[c]) /\ resp[c] \in Topic
  BY DEF Holders, Inv, Shape, TypeOK, Control, Acquire
<1>2. \A t \in Topic : Holders(t)' = IF t = resp[c] THEN Holders(t) \cup {c} ELSE Holders(t)
  <2>1. task' = [task EXCEPT ![c] = "watching"] /\ task[c] = "subscribed"
        /\ UNCHANGED <<resp, state, closing>>
    BY DEF Acquire, Goto, callVars, rowSame, rowVars
  <2>2. state[c] = "none" /\ closing[c] = "no" /\ c \in DOMAIN task
    BY <2>1 DEF Inv, Shape, Control, TypeOK
  <2> QED
    BY <2>1, <2>2 DEF Holders, Inv, Shape, TypeOK
<1>3. \A t \in Topic : watch'[t].refs = IF t = resp[c] THEN watch[t].refs + 1 ELSE watch[t].refs
  BY <1>1 DEF Acquire, Acquired, Inv, Shape, TypeOK
<1>4. ASSUME NEW t \in Topic
      PROVE  watch'[t].refs <= Cardinality(Holders(t)')
  <2>1. watch[t].refs <= Cardinality(Holders(t)) /\ Cardinality(Holders(t)) \in Nat
    BY HoldersFinite DEF Inv, Counted
  <2>2. watch[t].refs \in Nat
    BY HoldersFinite DEF Inv, Shape, TypeOK
  <2>3. t = resp[c] => Cardinality(Holders(t) \cup {c}) = Cardinality(Holders(t)) + 1
    BY <1>1, HoldersFinite, FS_AddElement
  <2>4. CASE t = resp[c]
    <3>1. Cardinality(Holders(t)') = Cardinality(Holders(t)) + 1
      BY <1>2, <2>3, <2>4
    <3> QED
      BY <1>3, <2>1, <2>2, <2>4, <3>1
  <2>5. CASE t # resp[c]
    <3>1. Holders(t)' = Holders(t)
      BY <1>2, <2>5
    <3>2. watch'[t].refs = watch[t].refs
      BY <1>3, <2>5
    <3> QED
      BY <2>1, <3>1, <3>2
  <2> QED
    BY <2>4, <2>5
<1> QED
  BY <1>4 DEF Counted

LEMMA ReleaseCounts ==
    ASSUME Inv, NEW c \in Call, Release(c)
    PROVE  Counted'
<1>1. c \in Holders(resp[c]) /\ resp[c] \in Topic /\ task[c] = "over" /\ state[c] # "pending"
  BY DEF Holders, Inv, Shape, TypeOK, Control, Release
<1>2. \A t \in Topic : Holders(t)' = IF t = resp[c] THEN Holders(t) \ {c} ELSE Holders(t)
  <2>1. /\ UNCHANGED <<task, resp, state>> /\ closing[c] = "release"
        /\ closing' \in {[closing EXCEPT ![c] = "unsubscribe"], [closing EXCEPT ![c] = "no"]}
    BY DEF Release, requestSame, callVars, rowSame, rowVars
  <2> QED
    BY <1>1, <2>1 DEF Holders, Inv, Shape, TypeOK
<1>3. /\ \A t \in Topic \ {resp[c]} : watch'[t] = watch[t]
      /\ watch'[resp[c]].refs = IF watch[resp[c]].refs = 0 THEN 0 ELSE watch[resp[c]].refs - 1
  BY <1>1, ReleasedType DEF Release, Inv, Shape
<1>4. ASSUME NEW t \in Topic
      PROVE  watch'[t].refs <= Cardinality(Holders(t)')
  <2>1. watch[t].refs <= Cardinality(Holders(t)) /\ Cardinality(Holders(t)) \in Nat
    BY HoldersFinite DEF Inv, Counted
  <2>2. watch[t].refs \in Nat
    BY HoldersFinite DEF Inv, Shape, TypeOK
  <2>3. t = resp[c] => Cardinality(Holders(t) \ {c}) = Cardinality(Holders(t)) - 1
                       /\ Cardinality(Holders(t) \ {c}) \in Nat
    BY <1>1, HoldersFinite, FS_RemoveElement, FS_CardinalityType
  <2>4. CASE t = resp[c]
    <3>1. Cardinality(Holders(t)') = Cardinality(Holders(t)) - 1 /\ Cardinality(Holders(t)') \in Nat
      BY <1>2, <2>3, <2>4
    <3> QED
      BY <1>3, <2>1, <2>2, <2>4, <3>1
  <2>5. CASE t # resp[c]
    <3>1. Holders(t)' = Holders(t)
      BY <1>2, <2>5
    <3>2. watch'[t].refs = watch[t].refs
      BY <1>3, <2>5
    <3> QED
      BY <2>1, <3>1, <3>2
  <2> QED
    BY <2>4, <2>5
<1> QED
  BY <1>4 DEF Counted

\* Clearing a call releases what it no longer holds: the count falls, the holders stay.
LEMMA ClearCounts ==
    ASSUME Inv, NEW c \in Call, ClearReleases(c)
    PROVE  Counted'
<1>1. resp[c] \in Topic
  BY DEF Inv, Shape, TypeOK
<1>2. \A t \in Topic : Holders(t)' = Holders(t)
  BY DEF Holders, ClearReleases, clearSame, requestSame, callVars
<1>3. \A t \in Topic : watch'[t] = watch[t] \/ watch'[t].refs = (IF watch[t].refs = 0 THEN 0 ELSE watch[t].refs - 1)
  BY <1>1, ReleasedType DEF ClearReleases, Inv, Shape
<1>4. \A t \in Topic : /\ watch[t].refs <= Cardinality(Holders(t)) /\ Cardinality(Holders(t)) \in Nat
                       /\ watch[t].refs \in Nat
  BY HoldersFinite DEF Inv, Shape, TypeOK, Counted
<1> QED
  BY <1>2, <1>3, <1>4 DEF Counted

\* No other step lowers the holders of a topic, or touches the count.
LEMMA OthersCount ==
    ASSUME Inv, NEW c \in Call,
           \/ Check(c) \/ Subscribe(c) \/ SubscribeFails(c) \/ Publish(c) \/ PublishFails(c) \/ Record(c)
           \/ Wait(c) \/ Unsubscribe(c) \/ Observe(c)
    PROVE  Counted'
<1> USE DEF callVars, rowVars, rowSame, requestSame, restSame, Goto, Timer
<1>1. UNCHANGED <<watch, resp>>
  BY DEF Check, Subscribe, SubscribeFails, Publish, PublishFails, Record, Wait, TimerFires, Retry,
         RetryFails, Expire, Unsubscribe, Observe
<1>2. ASSUME NEW d \in Call, task[d] \in {"watching", "published"}, closing[d] = "no", state[d] = "none"
      PROVE  task'[d] \in {"watching", "published"} \/ state'[d] = "pending" \/ closing'[d] = "release"
  <2>1. CASE Check(c) \/ Subscribe(c) \/ SubscribeFails(c) \/ Publish(c) \/ PublishFails(c) \/ Record(c)
    BY <1>2, <2>1 DEF Check, Subscribe, SubscribeFails, Publish, PublishFails, Record, Inv, Shape, TypeOK
  <2>2. CASE Wait(c) \/ Unsubscribe(c) \/ Observe(c)
    BY <1>2, <2>2 DEF Wait, TimerFires, Retry, RetryFails, Expire, Unsubscribe, Observe
  <2> QED
    BY <2>1, <2>2
<1>3. ASSUME NEW d \in Call, state[d] = "pending"
      PROVE  state'[d] = "pending" \/ closing'[d] = "release"
  <2>1. CASE Check(c) \/ Subscribe(c) \/ SubscribeFails(c) \/ Publish(c) \/ PublishFails(c) \/ Record(c)
    BY <1>3, <2>1 DEF Check, Subscribe, SubscribeFails, Publish, PublishFails, Record, Inv, Shape, TypeOK
  <2>2. CASE TimerFires(c) \/ Retry(c) \/ RetryFails(c) \/ Unsubscribe(c)
    BY <1>3, <2>2 DEF TimerFires, Retry, RetryFails, Unsubscribe
  <2>3. CASE Expire(c)
    <3>1. CASE state[c] = "pending"
      <4>1. \A e \in Call \ {c} : state'[e] = state[e] \/ (state[e] \in Finished /\ state'[e] = "gone")
        BY <2>3, <3>1, FinishShape DEF Expire, Inv, Finished
      <4>2. closing'[c] = "release"
        BY <2>3, <3>1 DEF Expire, Inv, Shape, TypeOK
      <4> QED
        BY <1>3, <4>1, <4>2 DEF Finished
    <3>2. CASE state[c] # "pending"
      BY <1>3, <2>3, <3>2 DEF Expire
    <3> QED
      BY <3>1, <3>2
  <2>4. CASE Observe(c)
    <3>1. PICK e \in Exact(c) \cup Oldest(c) : Answer(c, e)
      BY <2>4 DEF Observe
    <3>2. e \in Call /\ state[e] = "pending"
      BY <3>1, ObservedIsPending
    <3>3. CASE answers[e] + 1 >= expected[e]
      <4>1. \A x \in Call \ {e} : state'[x] = state[x] \/ (state[x] \in Finished /\ state'[x] = "gone")
        BY <3>1, <3>2, <3>3, FinishShape DEF Answer, Inv, Finished
      <4>2. closing'[e] = "release"
        BY <3>1, <3>2, <3>3 DEF Answer, Inv, Shape, TypeOK
      <4> QED
        BY <1>3, <4>1, <4>2 DEF Finished
    <3>4. CASE ~(answers[e] + 1 >= expected[e])
      BY <1>3, <3>1, <3>4 DEF Answer
    <3> QED
      BY <3>3, <3>4
  <2> QED
    BY <2>1, <2>2, <2>3, <2>4 DEF Wait
<1>4. ASSUME NEW d \in Call, closing[d] = "release"
      PROVE  closing'[d] = "release"
  <2>1. CASE Check(c) \/ Subscribe(c) \/ SubscribeFails(c) \/ Publish(c) \/ PublishFails(c) \/ Record(c)
    BY <1>4, <2>1 DEF Check, Subscribe, SubscribeFails, Publish, PublishFails, Record, Inv, Shape, TypeOK
  <2>2. CASE Wait(c) \/ Unsubscribe(c)
    BY <1>4, <2>2 DEF Wait, TimerFires, Retry, RetryFails, Expire, Unsubscribe, Inv, Shape, TypeOK
  <2>3. CASE Observe(c)
    BY <1>4, <2>3 DEF Observe, Answer, Inv, Shape, TypeOK
  <2> QED
    BY <2>1, <2>2, <2>3
<1>5. \A t \in Topic : Holders(t) \subseteq Holders(t)'
  <2>1. \A d \in Call : task[d] \in {"watching", "published"} => closing[d] = "no" /\ state[d] = "none"
    BY DEF Inv, Shape, Control
  <2> QED
    BY <1>1, <1>2, <1>3, <1>4, <2>1 DEF Holders
<1> QED
  BY <1>1, <1>5, CountStays DEF Inv, Shape

LEMMA ExpireAllCounts ==
    ASSUME Inv, ExpireAll
    PROVE  Counted'
<1>1. closing' = [c \in Call |-> IF state[c] = "pending" THEN "release" ELSE closing[c]]
      /\ UNCHANGED <<task, resp, watch>>
  BY DEF ExpireAll, requestSame, callVars
<1>2. \A t \in Topic : Holders(t) \subseteq Holders(t)'
  BY <1>1 DEF Holders
<1> QED
  BY <1>1, <1>2, CountStays DEF Inv, Shape

LEMMA ClearStepCounts ==
    ASSUME Inv, Clear
    PROVE  Counted'
<1>1. CASE ClearLists \/ ClearUnsubscribes \/ ClearRemoves
  <2>1. UNCHANGED <<task, resp, closing, watch>> /\ \A c \in Call : state[c] = "pending" => state'[c] = "pending"
    BY <1>1 DEF ClearLists, ClearUnsubscribes, ClearRemoves, clearSame, requestSame, callVars, Finished
  <2>2. \A t \in Topic : Holders(t) \subseteq Holders(t)'
    BY <2>1 DEF Holders
  <2> QED
    BY <2>1, <2>2, CountStays DEF Inv, Shape
<1> QED
  BY <1>1, ClearCounts DEF Clear

LEMMA InvInit == Init => Inv
<1> SUFFICES ASSUME Init PROVE Inv
  OBVIOUS
<1>1. Cardinality(Call) \in Nat
  BY RpcAssumption, FS_CardinalityType
<1>2. \A n \in Attempts : 0 \in 0 .. n - 1
  BY RpcAssumption
<1>3. \A n \in Collect : 0 \in 0 .. n
  BY Positive
<1>4. TypeOK /\ Counters
  <2>1. \A c \in Call : attempt[c] \in 0 .. attempts[c] - 1 /\ answers[c] \in 0 .. expected[c]
    <3>1. \A c \in Call : attempts[c] \in Attempts /\ expected[c] \in Collect
      BY DEF Init
    <3>2. \A c \in Call : attempt[c] = 0 /\ answers[c] = 0
      BY DEF Init
    <3> QED
      BY <1>2, <1>3, <3>1, <3>2
  <2>2. watch \in [Topic -> [refs : 0 .. Cardinality(Call), mine : BOOLEAN]]
    BY <1>1 DEF Init, NoEntry
  <2>3. rank \in [Call -> 0 .. Cardinality(Call)]
    BY <1>1 DEF Init
  <2>4. resp \in [Call -> Topic] /\ attempts \in [Call -> Attempts] /\ expected \in [Call -> Collect]
    BY DEF Init
  <2>5. attempt \in [Call -> Nat] /\ answers \in [Call -> Nat]
    BY DEF Init
  <2>6. byHand \subseteq Topic /\ subs \subseteq Topic
    BY DEF Init
  <2> QED
    BY <2>1, <2>2, <2>3, <2>4, <2>5, <2>6 DEF Init, TypeOK, Counters
<1>5. Control
  BY DEF Init, Control
<1>6. Counted
  BY HoldersFinite DEF Init, Counted, NoEntry
<1> QED
  BY <1>4, <1>5, <1>6 DEF Inv, Shape

LEMMA InvStep == Inv /\ [Next]_vars => Inv'
<1> SUFFICES ASSUME Inv, [Next]_vars PROVE Inv'
  OBVIOUS
<1>1. CASE UNCHANGED vars
  <2>1. TypeOK' /\ Counters'
    BY <1>1 DEF vars, callVars, rowVars, Inv, Shape, TypeOK, Counters
  <2>2. Control'
    BY <1>1 DEF vars, callVars, rowVars, Inv, Shape, Control, Done
  <2>3. \A t \in Topic : Holders(t)' = Holders(t)
    BY <1>1 DEF vars, callVars, rowVars, Holders
  <2>4. Counted'
    BY <1>1, <2>3, CountStays DEF vars, Inv, Shape
  <2> QED
    BY <2>1, <2>2, <2>4 DEF Inv, Shape
<1>2. ASSUME NEW c \in Call, Request(c) \/ Wait(c) \/ Close(c) \/ Observe(c)
      PROVE  Inv'
  <2>1. Shape'
    BY <1>2, RequestShape, WaitShape, CloseShape, ObserveShape DEF Inv
  <2>2. Counted'
    BY <1>2, AcquireCounts, ReleaseCounts, OthersCount DEF Request, Close
  <2> QED
    BY <2>1, <2>2 DEF Inv
<1>3. CASE ExpireAll
  BY <1>3, CloseShape, ExpireAllCounts DEF Inv
<1>4. CASE Clear
  BY <1>4, ClearShape, ClearStepCounts DEF Inv
<1> QED
  BY <1>1, <1>2, <1>3, <1>4 DEF Next

LEMMA InvHolds == Spec => []Inv
BY InvInit, InvStep, PTL DEF Spec

\* The variables have their types, and no reference is counted that nobody holds: the count
\* of a response topic stays within the number of calls, whatever is cleared twice.
THEOREM TypeCorrect == Spec => []TypeOK
<1>1. Inv => TypeOK
  BY DEF Inv, Shape
<1> QED
  BY <1>1, InvHolds, PTL

-----------------------------------------------------------------------------
(* A call ends once *)

LEMMA FinishedStays ==
    ASSUME Inv, [Next]_vars, NEW c \in Call, state[c] \in Finished
    PROVE  state'[c] \in {state[c], "gone"}
<1>1. CASE UNCHANGED vars
  BY <1>1 DEF vars, rowVars
<1>2. ASSUME NEW d \in Call, Request(d)
      PROVE  state'[c] = state[c]
  <2>1. CASE Record(d)
    BY <2>1 DEF Record, Inv, Shape, TypeOK, Control, Finished
  <2> QED
    BY <1>2, <2>1 DEF Request, Check, Subscribe, SubscribeFails, Acquire, Publish, PublishFails, rowSame, rowVars
<1>3. ASSUME NEW d \in Call, Wait(d)
      PROVE  state'[c] \in {state[c], "gone"}
  <2>1. CASE Expire(d) /\ state[d] = "pending"
    BY <2>1, FinishShape DEF Expire, Inv, Finished
  <2>2. CASE ~(Expire(d) /\ state[d] = "pending")
    BY <1>3, <2>2 DEF Wait, TimerFires, Retry, RetryFails, Expire, rowVars
  <2> QED
    BY <2>1, <2>2
<1>4. ASSUME NEW d \in Call, Close(d)
      PROVE  state'[c] = state[c]
  BY <1>4 DEF Close, Release, Unsubscribe, rowSame, rowVars
<1>5. ASSUME NEW d \in Call, Observe(d)
      PROVE  state'[c] \in {state[c], "gone"}
  <2>1. PICK e \in Exact(d) \cup Oldest(d) : Answer(d, e)
    BY <1>5 DEF Observe
  <2>2. e \in Call /\ state[e] = "pending"
    BY <2>1, ObservedIsPending
  <2>3. CASE answers[e] + 1 >= expected[e]
    BY <2>1, <2>2, <2>3, FinishShape DEF Answer, Inv, Finished
  <2>4. CASE ~(answers[e] + 1 >= expected[e])
    BY <2>1, <2>4 DEF Answer
  <2> QED
    BY <2>3, <2>4
<1>6. CASE ExpireAll
  BY <1>6, ExpireAllStates DEF Inv, Finished
<1>7. CASE Clear
  BY <1>7 DEF Clear, ClearLists, ClearRemoves, ClearReleases, ClearUnsubscribes, Inv, Shape, TypeOK
<1> QED
  BY <1>1, <1>2, <1>3, <1>4, <1>5, <1>6, <1>7 DEF Next

\* A call that was answered is not timed out afterwards, nor the other way round, whichever
\* of the event loop, the timer, disconnect() and clearing decides first.
THEOREM EndsOnce == Spec => FinishedOnce
<1>1. Inv /\ [Next]_vars => [\A c \in Call : state[c] \in Finished => state'[c] \in {state[c], "gone"}]_vars
  BY FinishedStays
<1> QED
  BY <1>1, InvHolds, PTL DEF Spec, FinishedOnce

-----------------------------------------------------------------------------
(* Topics of their own: who has to close which *)

OwnTopics == \A c, d \in Call : resp[c] = resp[d] => c = d

Held(c) == watch[resp[c]] = [refs |-> 1, mine |-> ~ours[c]]

\* The one reference of the call is there and nobody is closing its topic.
Open(c) == Held(c) /\ resp[c] \in subs /\ resp[c] \notin shutting

\* The reference was given back: the topic is still subscribed to if the user did so by
\* hand, or if one of the two who may close it is about to.
Closed(c) ==
    /\ watch[resp[c]] = NoEntry
    /\ resp[c] \in subs <=> (resp[c] \in byHand \/ closing[c] = "unsubscribe" \/ resp[c] \in shutting)
    /\ (closing[c] = "unsubscribe" \/ resp[c] \in shutting) => resp[c] \notin byHand
    /\ ~(closing[c] = "unsubscribe" /\ resp[c] \in shutting)

\* What is true of a call's topic at each stage of the call.
Stage(c) ==
    /\ task[c] # "idle" => (ours[c] <=> resp[c] \in byHand)
    /\ task[c] \in {"idle", "checked", "subscribed", "refused"} =>
          watch[resp[c]] = NoEntry /\ resp[c] \notin shutting
    /\ task[c] \in {"idle", "checked"} => (resp[c] \in subs <=> resp[c] \in byHand)
    /\ task[c] = "subscribed" => resp[c] \in subs
    /\ Needs(c, resp[c]) => Open(c)
    /\ task[c] = "over" /\ state[c] # "pending" => (closing[c] = "release" /\ Open(c)) \/ Closed(c)

\* A topic no call answers on is left alone.
Unused(t) ==
    (\A c \in Call : resp[c] # t) =>
        watch[t] = NoEntry /\ t \notin shutting /\ (t \in subs <=> t \in byHand)

Topics == OwnTopics /\ (\A c \in Call : Stage(c)) /\ \A t \in Topic : Unused(t)

TInv == Inv /\ Topics

\* A step about one call leaves the topics of the others alone.
LEMMA Frame ==
    ASSUME TInv, NEW c \in Call, NEW d \in Call,
           UNCHANGED <<resp, byHand>>,
           ours'[d] = ours[d], task'[d] = task[d], closing'[d] = closing[d],
           state'[d] = "pending" <=> state[d] = "pending",
           watch'[resp[d]] = watch[resp[d]],
           resp[d] \in subs' <=> resp[d] \in subs,
           resp[d] \in shutting' <=> resp[d] \in shutting
    PROVE  Stage(d)'
<1>1. Stage(d)
  BY DEF TInv, Topics
<1> QED
  BY <1>1 DEF Stage, Needs, Open, Held, Closed

\* Topics of their own are not touched where nothing but the topic of a call is.
LEMMA UnusedStays ==
    ASSUME TInv, UNCHANGED <<resp, byHand>>, NEW c \in Call,
           \A t \in Topic \ {resp[c]} : watch'[t] = watch[t] /\ (t \in subs' <=> t \in subs)
                                        /\ (t \in shutting' <=> t \in shutting)
    PROVE  OwnTopics' /\ \A t \in Topic : Unused(t)'
BY DEF TInv, Topics, OwnTopics, Unused

LEMMA RequestTopics ==
    ASSUME TInv, NEW c \in Call, Request(c)
    PROVE  Topics'
<1> USE DEF callVars, rowVars, rowSame, restSame, Goto
<1>1. UNCHANGED <<resp, byHand, shutting>>
  BY DEF Request, Check, Subscribe, SubscribeFails, Acquire, Publish, PublishFails, Record
<1>2. \A t \in Topic \ {resp[c]} : watch'[t] = watch[t] /\ (t \in subs' <=> t \in subs)
  BY DEF Request, Check, Subscribe, SubscribeFails, Acquire, Acquired, Publish, PublishFails, Record,
         TInv, Inv, Shape, TypeOK
<1>3. ASSUME NEW d \in Call \ {c}
      PROVE  Stage(d)'
  <2>1. /\ ours'[d] = ours[d] /\ task'[d] = task[d] /\ closing'[d] = closing[d]
        /\ state'[d] = state[d]
    BY DEF Request, Check, Subscribe, SubscribeFails, Acquire, Publish, PublishFails, Record,
           TInv, Inv, Shape, TypeOK
  <2>2. resp[d] \in Topic \ {resp[c]}
    BY DEF TInv, Inv, Shape, TypeOK, Topics, OwnTopics
  <2> QED
    BY <1>1, <1>2, <2>1, <2>2, Frame
<1>4. Stage(c)'
  <2>1. Stage(c)
    BY DEF TInv, Topics
  <2>2. task[c] # "over" => state[c] = "none" /\ closing[c] = "no"
    BY DEF TInv, Inv, Shape, Control
  <2>3. CASE Check(c)
    <3>1. task[c] = "idle" /\ task'[c] = "checked" /\ ours'[c] = (resp[c] \in subs)
          /\ UNCHANGED <<state, closing, watch, subs>>
      BY <2>3 DEF Check, TInv, Inv, Shape, TypeOK
    <3> QED
      BY <1>1, <2>1, <2>2, <3>1 DEF Stage, Needs
  <2>4. CASE Subscribe(c) \/ SubscribeFails(c)
    <3>1. task[c] = "checked" /\ UNCHANGED <<ours, state, closing, watch>>
          /\ \/ task'[c] = "subscribed" /\ resp[c] \in subs'
             \/ task'[c] = "refused"
      BY <2>4 DEF Subscribe, SubscribeFails, TInv, Inv, Shape, TypeOK
    <3> QED
      BY <1>1, <2>1, <2>2, <3>1 DEF Stage, Needs
  <2>5. CASE Acquire(c)
    <3>1. task[c] = "subscribed" /\ task'[c] = "watching" /\ UNCHANGED <<ours, state, closing, subs>>
      BY <2>5 DEF Acquire, TInv, Inv, Shape, TypeOK
    <3>2. watch'[resp[c]] = [refs |-> 1, mine |-> ~ours[c]]
      BY <2>1, <2>5, <3>1 DEF Acquire, Acquired, Stage, NoEntry, TInv, Inv, Shape, TypeOK
    <3> QED
      BY <1>1, <2>1, <2>2, <3>1, <3>2 DEF Stage, Needs, Open, Held
  <2>6. CASE Publish(c)
    <3>1. task[c] = "watching" /\ task'[c] = "published" /\ UNCHANGED <<ours, state, closing, watch, subs>>
      BY <2>6 DEF Publish, TInv, Inv, Shape, TypeOK
    <3> QED
      BY <1>1, <2>1, <2>2, <3>1 DEF Stage, Needs, Open, Held
  <2>7. CASE PublishFails(c)
    <3>1. task[c] = "watching" /\ task'[c] = "over" /\ closing'[c] = "release" /\ UNCHANGED <<ours, state, watch, subs>>
      BY <2>7 DEF PublishFails, TInv, Inv, Shape, TypeOK
    <3> QED
      BY <1>1, <2>1, <2>2, <3>1 DEF Stage, Needs, Open, Held
  <2>8. CASE Record(c)
    <3>1. task[c] = "published" /\ task'[c] = "over" /\ state'[c] = "pending"
          /\ UNCHANGED <<ours, closing, watch, subs>>
      BY <2>8 DEF Record, TInv, Inv, Shape, TypeOK
    <3> QED
      BY <1>1, <2>1, <2>2, <3>1 DEF Stage, Needs, Open, Held
  <2> QED
    BY <2>3, <2>4, <2>5, <2>6, <2>7, <2>8 DEF Request
<1> QED
  BY <1>1, <1>2, <1>3, <1>4, UnusedStays DEF Topics

\* Whoever finishes a pending call takes over its reference with it.
LEMMA EndsHandOver ==
    ASSUME TInv, UNCHANGED <<task, resp, ours, watch, subs, byHand, shutting>>,
           \A d \in Call :
              \/ closing'[d] = closing[d] /\ (state'[d] = "pending" <=> state[d] = "pending")
              \/ closing'[d] = "release" /\ state[d] = "pending" /\ state'[d] # "pending"
    PROVE  Topics'
<1>1. ASSUME NEW d \in Call
      PROVE  Stage(d)'
  <2>1. CASE closing'[d] = closing[d] /\ (state'[d] = "pending" <=> state[d] = "pending")
    BY <2>1, Frame
  <2>2. CASE closing'[d] = "release" /\ state[d] = "pending" /\ state'[d] # "pending"
    <3>1. Stage(d)
      BY DEF TInv, Topics
    <3>2. task[d] = "over"
      BY <2>2 DEF TInv, Inv, Shape, Control
    <3> QED
      BY <2>2, <3>1, <3>2 DEF Stage, Needs, Open, Held
  <2> QED
    BY <2>1, <2>2
<1>2. OwnTopics' /\ \A t \in Topic : Unused(t)'
  BY DEF TInv, Topics, OwnTopics, Unused
<1> QED
  BY <1>1, <1>2 DEF Topics

LEMMA EndTopics ==
    ASSUME TInv, ExpireAll \/ \E c \in Call : Wait(c) \/ Observe(c)
    PROVE  Topics'
<1> USE DEF callVars, rowVars, requestSame, restSame, Timer
<1>1. UNCHANGED <<task, resp, ours, watch, subs, byHand, shutting>>
  BY DEF ExpireAll, Wait, TimerFires, Retry, RetryFails, Expire, Observe
<1>2. CASE ExpireAll
  <2>1. closing' = [c \in Call |-> IF state[c] = "pending" THEN "release" ELSE closing[c]]
    BY <1>2 DEF ExpireAll
  <2>2. \A d \in Call : \/ closing'[d] = closing[d] /\ (state'[d] = "pending" <=> state[d] = "pending")
                        \/ closing'[d] = "release" /\ state[d] = "pending" /\ state'[d] # "pending"
    BY <1>2, <2>1, ExpireAllStates DEF TInv, Inv, Finished
  <2> QED
    BY <1>1, <2>2, EndsHandOver
<1>3. ASSUME NEW c \in Call, Wait(c)
      PROVE  Topics'
  <2>1. CASE Expire(c) /\ state[c] = "pending"
    <3>1. /\ state'[c] \in Finished \cup {"gone"}
          /\ \A d \in Call \ {c} : state'[d] = state[d] \/ (state[d] \in Finished /\ state'[d] = "gone")
      BY <2>1, FinishShape DEF Expire, TInv, Inv, Finished
    <3>2. closing' = [closing EXCEPT ![c] = "release"] /\ closing \in [Call -> {"no", "release", "unsubscribe"}]
      BY <2>1 DEF Expire, TInv, Inv, Shape, TypeOK
    <3> QED
      BY <1>1, <2>1, <3>1, <3>2, EndsHandOver DEF Finished
  <2>2. CASE ~(Expire(c) /\ state[c] = "pending")
    <3>1. UNCHANGED <<state, closing>>
      BY <1>3, <2>2 DEF Wait, TimerFires, Retry, RetryFails, Expire
    <3> QED
      BY <1>1, <3>1, EndsHandOver
  <2> QED
    BY <2>1, <2>2
<1>4. ASSUME NEW c \in Call, Observe(c)
      PROVE  Topics'
  <2>1. PICK d \in Exact(c) \cup Oldest(c) : Answer(c, d)
    BY <1>4 DEF Observe
  <2>2. d \in Call /\ state[d] = "pending"
    BY <2>1, ObservedIsPending
  <2>3. CASE answers[d] + 1 >= expected[d]
    <3>1. /\ state'[d] \in Finished \cup {"gone"}
          /\ \A e \in Call \ {d} : state'[e] = state[e] \/ (state[e] \in Finished /\ state'[e] = "gone")
      BY <2>1, <2>2, <2>3, FinishShape DEF Answer, TInv, Inv, Finished
    <3>2. closing' = [closing EXCEPT ![d] = "release"] /\ closing \in [Call -> {"no", "release", "unsubscribe"}]
      BY <2>1, <2>3 DEF Answer, TInv, Inv, Shape, TypeOK
    <3> QED
      BY <1>1, <2>2, <3>1, <3>2, EndsHandOver DEF Finished
  <2>4. CASE ~(answers[d] + 1 >= expected[d])
    <3>1. UNCHANGED <<state, closing>>
      BY <2>1, <2>4 DEF Answer
    <3> QED
      BY <1>1, <3>1, EndsHandOver
  <2> QED
    BY <2>3, <2>4
<1> QED
  BY <1>2, <1>3, <1>4

\* A release of a topic of its own: the last one, which closes it if the watch opened it, or
\* one too many, which does nothing.
LEMMA OwnRelease ==
    ASSUME TInv, NEW c \in Call, Held(c) \/ watch[resp[c]] = NoEntry
    PROVE  /\ Released(resp[c])[resp[c]] = NoEntry
           /\ Closes(resp[c]) <=> (Held(c) /\ ~ours[c])
           /\ resp[c] \in Topic
BY DEF Held, Released, Closes, NoEntry, TInv, Inv, Shape, TypeOK

LEMMA CloseTopics ==
    ASSUME TInv, NEW c \in Call, Close(c)
    PROVE  Topics'
<1> USE DEF callVars, rowVars, rowSame, requestSame, restSame
<1>1. task[c] = "over" /\ state[c] # "pending" /\ Stage(c) /\ resp[c] \in Topic
  BY DEF TInv, Inv, Shape, TypeOK, Control, Topics, Close, Release, Unsubscribe
<1>2. UNCHANGED <<task, resp, ours, state, byHand, shutting>>
  BY DEF Close, Release, Unsubscribe
<1>3. \A t \in Topic \ {resp[c]} : watch'[t] = watch[t] /\ (t \in subs' <=> t \in subs)
  BY <1>1, ReleasedType DEF Close, Release, Unsubscribe, TInv, Inv, Shape
<1>4. ASSUME NEW d \in Call \ {c}
      PROVE  Stage(d)'
  <2>1. closing'[d] = closing[d]
    BY DEF Close, Release, Unsubscribe, TInv, Inv, Shape, TypeOK
  <2>2. resp[d] \in Topic \ {resp[c]}
    BY DEF TInv, Inv, Shape, TypeOK, Topics, OwnTopics
  <2> QED
    BY <1>2, <1>3, <2>1, <2>2, Frame
<1>5. Stage(c)'
  <2>1. CASE Release(c)
    <3>1. closing[c] = "release" /\ watch' = Released(resp[c]) /\ UNCHANGED subs
      BY <2>1 DEF Release
    <3>2. /\ Closes(resp[c]) => closing'[c] = "unsubscribe"
          /\ ~Closes(resp[c]) => closing'[c] = "no"
      BY <2>1 DEF Release, TInv, Inv, Shape, TypeOK
    <3>3. (Open(c) \/ Closed(c)) /\ (ours[c] <=> resp[c] \in byHand)
      BY <1>1 DEF Stage
    <3>4. watch'[resp[c]] = NoEntry /\ (Closes(resp[c]) <=> (Held(c) /\ ~ours[c]))
      BY <3>1, <3>3, OwnRelease DEF Open, Closed
    <3>5. Closed(c)'
      <4>1. CASE Open(c)
        BY <1>2, <3>1, <3>2, <3>3, <3>4, <4>1 DEF Open, Closed
      <4>2. CASE Closed(c)
        <5>1. ~Held(c)
          BY <4>2 DEF Closed, Held, NoEntry
        <5> QED
          BY <1>2, <3>1, <3>2, <3>3, <3>4, <4>2, <5>1 DEF Closed
      <4> QED
        BY <3>3, <4>1, <4>2
    <3> QED
      BY <1>1, <1>2, <3>3, <3>5 DEF Stage, Needs
  <2>2. CASE Unsubscribe(c)
    <3>1. closing[c] = "unsubscribe" /\ closing'[c] = "no" /\ UNCHANGED watch /\ resp[c] \notin subs'
      BY <2>2 DEF Unsubscribe, TInv, Inv, Shape, TypeOK
    <3>2. Closed(c) /\ (ours[c] <=> resp[c] \in byHand)
      BY <1>1, <3>1 DEF Stage
    <3>3. Closed(c)'
      BY <1>2, <3>1, <3>2 DEF Closed
    <3> QED
      BY <1>1, <1>2, <3>2, <3>3 DEF Stage, Needs
  <2> QED
    BY <2>1, <2>2 DEF Close
<1> QED
  BY <1>2, <1>3, <1>4, <1>5, UnusedStays DEF Topics

\* Clearing releases the topic of a finished call: if its owner has not come to that yet,
\* clearing closes it in its place.
LEMMA ClearTopics ==
    ASSUME TInv, Clear
    PROVE  Topics'
<1> USE DEF callVars, requestSame, clearSame
<1>1. CASE ClearLists \/ ClearRemoves
  <2>1. UNCHANGED <<task, resp, ours, watch, subs, byHand, shutting, closing>>
    BY <1>1 DEF ClearLists, ClearRemoves
  <2>2. \A d \in Call : state'[d] = "pending" <=> state[d] = "pending"
    BY <1>1 DEF ClearLists, ClearRemoves, Finished
  <2> QED
    BY <2>1, <2>2, EndsHandOver
<1>2. ASSUME NEW c \in Call, ClearReleases(c)
      PROVE  Topics'
  <2>1. Done(c) /\ Stage(c)
    BY <1>2 DEF ClearReleases, TInv, Inv, Shape, Control, Topics
  <2>2. task[c] = "over" /\ state[c] # "pending" /\ resp[c] \in Topic
    BY <2>1 DEF Done, Finished, TInv, Inv, Shape, TypeOK, Control
  <2>3. UNCHANGED <<task, resp, ours, state, closing, byHand, subs>> /\ shutting = {}
        /\ watch' = Released(resp[c]) /\ shutting' = IF Closes(resp[c]) THEN {resp[c]} ELSE {}
    BY <1>2 DEF ClearReleases
  <2>4. \A t \in Topic \ {resp[c]} : watch'[t] = watch[t] /\ (t \in shutting' <=> t \in shutting)
    BY <2>2, <2>3, ReleasedType DEF TInv, Inv, Shape
  <2>5. ASSUME NEW d \in Call \ {c}
        PROVE  Stage(d)'
    <3>1. resp[d] \in Topic \ {resp[c]}
      BY DEF TInv, Inv, Shape, TypeOK, Topics, OwnTopics
    <3> QED
      BY <2>3, <2>4, <3>1, Frame
  <2>6. (Open(c) /\ closing[c] = "release") \/ Closed(c)
    BY <2>1, <2>2 DEF Stage
  <2>7. watch'[resp[c]] = NoEntry /\ (Closes(resp[c]) <=> (Held(c) /\ ~ours[c]))
    BY <2>3, <2>6, OwnRelease DEF Open, Closed
  <2>8. Closed(c)'
    <3>1. CASE Open(c) /\ closing[c] = "release"
      BY <2>1, <2>2, <2>3, <2>7, <3>1 DEF Open, Closed, Stage
    <3>2. CASE Closed(c)
      <4>1. ~Held(c)
        BY <3>2 DEF Closed, Held, NoEntry
      <4> QED
        BY <2>3, <2>7, <3>2, <4>1 DEF Closed
    <3> QED
      BY <2>6, <3>1, <3>2
  <2>9. Stage(c)'
    BY <2>1, <2>2, <2>3, <2>8 DEF Stage, Needs
  <2> QED
    BY <2>3, <2>4, <2>5, <2>9, UnusedStays DEF Topics
<1>3. CASE ClearUnsubscribes
  <2>1. UNCHANGED <<task, resp, ours, state, closing, byHand, watch>> /\ subs' = subs \ shutting /\ shutting' = {}
    BY <1>3 DEF ClearUnsubscribes
  <2>2. ASSUME NEW d \in Call
        PROVE  Stage(d)'
    <3>1. Stage(d)
      BY DEF TInv, Topics
    <3>2. CASE resp[d] \in shutting
      <4>1. task[d] = "over" /\ state[d] # "pending" /\ Closed(d)
        BY <3>1, <3>2 DEF Stage, Needs, Open, TInv, Inv, Shape, TypeOK
      <4>2. Closed(d)'
        BY <2>1, <3>2, <4>1 DEF Closed
      <4> QED
        BY <2>1, <3>1, <4>1, <4>2 DEF Stage, Needs
    <3>3. CASE resp[d] \notin shutting
      BY <2>1, <3>3, Frame
    <3> QED
      BY <3>2, <3>3
  <2>3. OwnTopics' /\ \A t \in Topic : Unused(t)'
    BY <2>1 DEF TInv, Topics, OwnTopics, Unused
  <2> QED
    BY <2>2, <2>3 DEF Topics
<1> QED
  BY <1>1, <1>2, <1>3 DEF Clear

LEMMA TopicsInit == "share" \notin Faults /\ Init => Topics
<1> SUFFICES ASSUME "share" \notin Faults, Init PROVE Topics
  OBVIOUS
<1>1. OwnTopics
  BY DEF Init, OwnTopics
<1>2. \A c \in Call : resp[c] \in Topic
  BY DEF Init
<1>3. \A c \in Call : Stage(c)
  BY <1>2 DEF Init, Stage, Needs
<1>4. \A t \in Topic : Unused(t)
  BY DEF Init, Unused
<1> QED
  BY <1>1, <1>3, <1>4 DEF Topics

LEMMA TopicsStep == TInv /\ [Next]_vars => Topics'
<1> SUFFICES ASSUME TInv, [Next]_vars PROVE Topics'
  OBVIOUS
<1>1. CASE UNCHANGED vars
  BY <1>1, EndsHandOver DEF vars, callVars, rowVars
<1>2. CASE Next
  BY <1>2, RequestTopics, EndTopics, CloseTopics, ClearTopics DEF Next
<1> QED
  BY <1>1, <1>2

LEMMA TopicsHold == "share" \notin Faults /\ Spec => []TInv
<1>1. "share" \notin Faults /\ Init => TInv
  BY InvInit, TopicsInit DEF TInv
<1>2. TInv /\ [Next]_vars => TInv'
  BY InvStep, TopicsStep DEF TInv
<1> QED
  BY <1>1, <1>2, PTL DEF Spec

\* While a call waits on a topic of its own, its session subscribes to that topic: no end of
\* another call, and no clearing, closes it.
THEOREM OpenWhileNeeded == "share" \notin Faults /\ Spec => []TopicOpen
<1>1. TInv => TopicOpen
  BY DEF TInv, Topics, TopicOpen, Stage, Open
<1> QED
  BY <1>1, TopicsHold, PTL

\* What calls opened is closed when nothing is under way, and what the user opened is not,
\* even where clearing and the end of a call both release the topic.
THEOREM NothingStaysOpen == "share" \notin Faults /\ Spec => []NothingLeft
<1>1. TInv => NothingLeft
  <2> SUFFICES ASSUME TInv, AtRest
               PROVE  subs = byHand /\ \A t \in Topic : watch[t] = NoEntry
    BY DEF NothingLeft
  <2>1. shutting = {}
    BY DEF AtRest
  <2>2. ASSUME NEW t \in Topic
        PROVE  watch[t] = NoEntry /\ (t \in subs <=> t \in byHand)
    <3>1. CASE \A c \in Call : resp[c] # t
      BY <3>1 DEF TInv, Topics, Unused
    <3>2. ASSUME NEW c \in Call, resp[c] = t
          PROVE  watch[t] = NoEntry /\ (t \in subs <=> t \in byHand)
      <4>1. task[c] \in {"idle", "over"} /\ closing[c] = "no" /\ state[c] # "pending" /\ Stage(c)
        BY DEF AtRest, TInv, Topics
      <4> QED
        BY <2>1, <3>2, <4>1 DEF Stage, Closed
    <3> QED
      BY <3>1, <3>2
  <2>3. subs \subseteq Topic /\ byHand \subseteq Topic
    BY DEF TInv, Inv, Shape, TypeOK
  <2> QED
    BY <2>2, <2>3
<1> QED
  BY <1>1, TopicsHold, PTL
=============================================================================
