---------------------------- MODULE ChannelProofs ----------------------------
(* Theorems about Channel for every set of calls, every set of tokens and    *)
(* every capacity.  The last part shows that it implements ChannelPromise:   *)
(* each of its steps is a step of the promised line, or leaves it alone.     *)
EXTENDS Channel, TLAPS

-----------------------------------------------------------------------------
(* What the operators on sequences that the channel uses return.             *)

(* Removing the place p shortens a sequence by one and closes the gap.       *)
LEMMA RemoveAtProperties ==
  ASSUME NEW S, NEW s \in Seq(S), NEW p \in DOMAIN s
  PROVE  /\ SE!RemoveAt(s, p) \in Seq(S)
         /\ Len(SE!RemoveAt(s, p)) = Len(s) - 1
         /\ \A i \in 1 .. Len(s) - 1 :
              SE!RemoveAt(s, p)[i] = IF i < p THEN s[i] ELSE s[i + 1]
<1> DEFINE f == SubSeq(s, 1, p - 1)
           b == SubSeq(s, p + 1, Len(s))
<1>1. p \in 1 .. Len(s) /\ Len(s) \in Nat
  OBVIOUS
<1>2. f \in Seq(S) /\ Len(f) = p - 1 /\ \A i \in 1 .. p - 1 : f[i] = s[i]
  BY <1>1
<1>3. b \in Seq(S) /\ Len(b) = Len(s) - p /\ \A i \in 1 .. Len(s) - p : b[i] = s[p + i]
  BY <1>1
<1>4. SE!RemoveAt(s, p) = f \o b
  BY DEF SE!RemoveAt
<1> HIDE DEF f, b
<1> QED
  BY <1>1, <1>2, <1>3, <1>4

(* The head and the tail of a sequence.                                      *)
LEMMA HeadTail ==
  ASSUME NEW S, NEW s \in Seq(S), s # <<>>
  PROVE  /\ Len(s) \in Nat /\ Len(s) >= 1
         /\ Head(s) = s[1] /\ Head(s) \in S
         /\ Tail(s) \in Seq(S) /\ Len(Tail(s)) = Len(s) - 1
         /\ \A i \in 1 .. Len(s) - 1 : Tail(s)[i] = s[i + 1]
  OBVIOUS

(* Appending puts the element behind the others.                             *)
LEMMA AppendAt ==
  ASSUME NEW S, NEW s \in Seq(S), NEW e \in S
  PROVE  /\ Append(s, e) \in Seq(S)
         /\ Len(Append(s, e)) = Len(s) + 1
         /\ Append(s, e)[Len(s) + 1] = e
         /\ \A i \in 1 .. Len(s) : Append(s, e)[i] = s[i]
  OBVIOUS

(* Membership in the elements of a sequence, and how the operations on       *)
(* sequences change them.                                                    *)
LEMMA InElements ==
  ASSUME NEW S, NEW s \in Seq(S)
  PROVE  \A x : x \in SE!ToSet(s) <=> \E i \in 1 .. Len(s) : s[i] = x
BY DEF SE!ToSet

LEMMA ElementsType ==
  ASSUME NEW S, NEW s \in Seq(S)
  PROVE  SE!ToSet(s) \subseteq S
BY DEF SE!ToSet

LEMMA ElementsOfAppend ==
  ASSUME NEW S, NEW s \in Seq(S), NEW e \in S
  PROVE  SE!ToSet(Append(s, e)) = SE!ToSet(s) \cup {e}
<1>1. Append(s, e) \in Seq(S)
  OBVIOUS
<1>2. ASSUME NEW x
      PROVE  x \in SE!ToSet(Append(s, e)) <=> x \in SE!ToSet(s) \cup {e}
  <2>1. x \in SE!ToSet(Append(s, e))
          <=> \E i \in 1 .. Len(Append(s, e)) : Append(s, e)[i] = x
    BY <1>1 DEF SE!ToSet
  <2>2. x \in SE!ToSet(s) <=> \E i \in 1 .. Len(s) : s[i] = x
    BY DEF SE!ToSet
  <2> QED
    BY <2>1, <2>2, AppendAt
<1> QED
  BY <1>2

LEMMA ElementsOfTail ==
  ASSUME NEW S, NEW s \in Seq(S), s # <<>>
  PROVE  SE!ToSet(s) = SE!ToSet(Tail(s)) \cup {Head(s)}
<1>1. Tail(s) \in Seq(S)
  BY HeadTail
<1>2. ASSUME NEW x, x \in SE!ToSet(s)
      PROVE  x \in SE!ToSet(Tail(s)) \cup {Head(s)}
  <2>1. PICK i \in 1 .. Len(s) : s[i] = x
    BY <1>2, InElements
  <2>2. CASE i = 1
    BY <2>1, <2>2, HeadTail
  <2>3. CASE i # 1
    <3>1. i - 1 \in 1 .. Len(Tail(s)) /\ Tail(s)[i - 1] = x
      BY <2>1, <2>3, HeadTail
    <3> QED
      BY <3>1, <1>1, InElements
  <2> QED
    BY <2>2, <2>3
<1>3. ASSUME NEW x, x \in SE!ToSet(Tail(s)) \cup {Head(s)}
      PROVE  x \in SE!ToSet(s)
  <2>1. CASE x = Head(s)
    <3>1. 1 \in 1 .. Len(s) /\ s[1] = x
      BY <2>1, HeadTail
    <3> QED
      BY <3>1, InElements
  <2>2. CASE x \in SE!ToSet(Tail(s))
    <3>1. PICK i \in 1 .. Len(Tail(s)) : Tail(s)[i] = x
      BY <1>1, <2>2, InElements
    <3>2. i + 1 \in 1 .. Len(s) /\ s[i + 1] = x
      BY <3>1, HeadTail
    <3> QED
      BY <3>2, InElements
  <2> QED
    BY <1>3, <2>1, <2>2
<1> QED
  BY <1>2, <1>3

(* In a sequence without repetitions, removing a place removes its element.  *)
LEMMA ElementsOfRemoveAt ==
  ASSUME NEW S, NEW s \in Seq(S), NEW p \in DOMAIN s,
         \A i, j \in 1 .. Len(s) : i < j => s[i] # s[j]
  PROVE  SE!ToSet(SE!RemoveAt(s, p)) = SE!ToSet(s) \ {s[p]}
<1> DEFINE r == SE!RemoveAt(s, p)
<1>1. /\ r \in Seq(S) /\ Len(r) = Len(s) - 1
      /\ \A i \in 1 .. Len(s) - 1 : r[i] = IF i < p THEN s[i] ELSE s[i + 1]
      /\ p \in 1 .. Len(s) /\ Len(s) \in Nat
  BY RemoveAtProperties
<1> HIDE DEF r
<1>2. ASSUME NEW x, x \in SE!ToSet(r)
      PROVE  x \in SE!ToSet(s) /\ x # s[p]
  <2>1. PICK i \in 1 .. Len(r) : r[i] = x
    BY <1>1, <1>2, InElements
  <2>2. CASE i < p
    BY <1>1, <2>1, <2>2, InElements
  <2>3. CASE ~(i < p)
    <3>1. i + 1 \in 1 .. Len(s) /\ x = s[i + 1] /\ p < i + 1
      BY <1>1, <2>1, <2>3
    <3> QED
      BY <1>1, <3>1, InElements
  <2> QED
    BY <2>2, <2>3
<1>3. ASSUME NEW x, x \in SE!ToSet(s), x # s[p]
      PROVE  x \in SE!ToSet(r)
  <2>1. PICK i \in 1 .. Len(s) : s[i] = x
    BY <1>3, InElements
  <2>2. CASE i < p
    <3>1. i \in 1 .. Len(r) /\ r[i] = x
      BY <1>1, <2>1, <2>2
    <3> QED
      BY <1>1, <3>1, InElements
  <2>3. CASE i > p
    <3>1. i - 1 \in 1 .. Len(r) /\ r[i - 1] = x
      BY <1>1, <2>1, <2>3
    <3> QED
      BY <1>1, <3>1, InElements
  <2> QED
    BY <1>1, <1>3, <2>1, <2>2, <2>3
<1>4. \A x : x \in SE!ToSet(r) <=> x \in SE!ToSet(s) \ {s[p]}
  BY <1>2, <1>3
<1> QED
  BY <1>4 DEF r

-----------------------------------------------------------------------------
(* The steps of the channel, one disjunct for each.                          *)
AnswerStep == \E c \in Calls, o \in Refusals \cup {"ended"} :
                Callable(c) /\ Answer(c, o)
WaitingStep == \E c \in Calls, t \in Tokens \cup {None} :
                 /\ Callable(c) /\ Wait(c, t)
                 /\ \/ /\ Full /\ Len(senders) < Capacity
                       /\ senders' = Append(senders, c) /\ Stamp(c)
                       /\ UNCHANGED <<values, receiver, closed, taken>>
                    \/ /\ values = <<>> /\ ~closed /\ receiver = None
                       /\ receiver' = c
                       /\ UNCHANGED <<values, senders, closed, history>>
Step ==
  \/ AnswerStep
  \/ \E c \in Calls : Callable(c) /\ HandOver(c)
  \/ \E c \in Calls : Callable(c) /\ Buffer(c)
  \/ \E c \in Calls : Callable(c) /\ Take(c)
  \/ WaitingStep
  \/ Close
  \/ \E t \in Tokens : Cancel(t)
  \/ \E c \in Calls : FireSender(c)
  \/ \E c \in Calls : FireReceiver(c)
  \/ UNCHANGED vars

LEMMA NextIsStep == [Next]_vars => Step
<1> SUFFICES ASSUME [Next]_vars PROVE Step
  OBVIOUS
<1>1. CASE \E c \in Calls, t \in Tokens \cup {None} : Send(c, t)
  <2>1. PICK c \in Calls, t \in Tokens \cup {None} : Send(c, t)
    BY <1>1
  <2> QED
    BY <2>1 DEF Send, SendWaits, Step, AnswerStep, WaitingStep, Refusals, Push
<1>2. CASE \E c \in Calls : TrySend(c)
  BY <1>2 DEF TrySend, Step, AnswerStep, Refusals
<1>3. CASE \E c \in Calls, t \in Tokens \cup {None} : NextCall(c, t)
  <2>1. PICK c \in Calls, t \in Tokens \cup {None} : NextCall(c, t)
    BY <1>3
  <2> QED
    BY <2>1 DEF NextCall, NextWaits, Step, AnswerStep, WaitingStep, Refusals
<1> QED
  BY <1>1, <1>2, <1>3 DEF Next, Step

-----------------------------------------------------------------------------
(* Every reachable state is well typed, the buffer and the waiting line      *)
(* within the capacity.                                                      *)
LEMMA ForgettingType ==
  ASSUME listeners \in [Tokens -> SUBSET Calls], NEW W
  PROVE  Forgetting(W) \in [Tokens -> SUBSET Calls]
BY DEF Forgetting

LEMMA StepKeepsType == TypeOK /\ Step => TypeOK'
<1> SUFFICES ASSUME TypeOK, Step PROVE TypeOK'
  OBVIOUS
<1> USE CapacityAssumption, NoneAssumption
<1>1. CASE AnswerStep
  BY <1>1 DEF TypeOK, AnswerStep, Answer, Callable, queues, tokens, history, Outcomes
<1>2. CASE \E c \in Calls : Callable(c) /\ HandOver(c)
  <2>1. PICK c \in Calls : HandOver(c)
    BY <1>2
  <2>2. receiver \in Calls
    BY <2>1 DEF TypeOK, HandOver
  <2>3. status' \in [Calls -> Outcomes \cup {"idle", "waiting"}]
    BY <2>1, <2>2 DEF TypeOK, HandOver, Outcomes
  <2>4. taken' \in Seq(Calls)
    <3>1. taken \in Seq(Calls) /\ (taken' = Append(taken, c) \/ taken' = taken)
      BY <2>1 DEF TypeOK, HandOver
    <3> QED
      BY <3>1, AppendAt
  <2>5. stamp' \in [Calls -> Nat] /\ clock' \in Nat
    BY <2>1 DEF TypeOK, HandOver, Stamp
  <2>6. listeners' \in [Tokens -> SUBSET Calls]
    BY <2>1, ForgettingType DEF TypeOK, HandOver
  <2> QED
    BY <2>1, <2>3, <2>4, <2>5, <2>6 DEF TypeOK, HandOver
<1>3. CASE \E c \in Calls : Callable(c) /\ Buffer(c)
  BY <1>3, AppendAt DEF TypeOK, Buffer, Push, HasRoom, Stamp, tokens, Outcomes
<1>4. CASE \E c \in Calls : Callable(c) /\ Take(c)
  <2>1. PICK c \in Calls : Take(c)
    BY <1>4
  <2>2. Head(values) \in Calls /\ Tail(values) \in Seq(Calls)
        /\ Len(Tail(values)) = Len(values) - 1 /\ Len(values) \in Nat
    BY <2>1, HeadTail DEF TypeOK, Take
  <2>3. taken' \in Seq(Calls)
    BY <2>1, <2>2 DEF TypeOK, Take
  <2>4. CASE Promotes
    <3>1. Head(senders) \in Calls /\ Tail(senders) \in Seq(Calls)
          /\ Len(Tail(senders)) = Len(senders) - 1 /\ Len(senders) \in Nat
      BY <2>4, HeadTail DEF TypeOK, Promotes
    <3>2. values' \in Seq(Calls) /\ Len(values') = Len(values)
      <4>1. values' = Append(Tail(values), Head(senders))
        BY <2>1, <2>4 DEF Take, Push
      <4> QED
        BY <2>2, <3>1, <4>1, AppendAt
    <3>3. senders' = Tail(senders)
      BY <2>1, <2>4 DEF Take
    <3>4. status' \in [Calls -> Outcomes \cup {"idle", "waiting"}]
      BY <2>1, <2>4, <3>1 DEF TypeOK, Take, Outcomes
    <3>5. listeners' \in [Tokens -> SUBSET Calls]
      BY <2>1, <2>4, ForgettingType DEF TypeOK, Take
    <3>6. UNCHANGED <<receiver, closed, token, cancelled, firing, stamp, clock>>
      BY <2>1 DEF Take
    <3>7. Len(values') <= Capacity /\ Len(senders') <= Capacity
      BY <2>2, <3>1, <3>2, <3>3 DEF TypeOK
    <3> QED
      BY <2>3, <3>1, <3>2, <3>3, <3>4, <3>5, <3>6, <3>7 DEF TypeOK
  <2>5. CASE ~Promotes
    <3>1. status' \in [Calls -> Outcomes \cup {"idle", "waiting"}]
      BY <2>1, <2>5 DEF TypeOK, Take, Outcomes
    <3>2. values' = Tail(values) /\ UNCHANGED <<senders, listeners>>
      BY <2>1, <2>5 DEF Take
    <3> QED
      BY <2>1, <2>2, <2>3, <3>1, <3>2 DEF TypeOK, Take
  <2> QED
    BY <2>4, <2>5
<1>5. CASE WaitingStep
  <2>1. PICK c \in Calls, t \in Tokens \cup {None} :
          /\ Callable(c) /\ Wait(c, t)
          /\ \/ /\ Full /\ Len(senders) < Capacity
                /\ senders' = Append(senders, c) /\ Stamp(c)
                /\ UNCHANGED <<values, receiver, closed, taken>>
             \/ /\ values = <<>> /\ ~closed /\ receiver = None
                /\ receiver' = c
                /\ UNCHANGED <<values, senders, closed, history>>
    BY <1>5 DEF WaitingStep
  <2>2. /\ status' \in [Calls -> Outcomes \cup {"idle", "waiting"}]
        /\ token' \in [Calls -> Tokens \cup {None}]
        /\ listeners' \in [Tokens -> SUBSET Calls]
        /\ UNCHANGED <<cancelled, firing>>
    BY <2>1 DEF TypeOK, Wait
  <2>3. /\ senders' \in Seq(Calls) /\ Len(senders') <= Capacity
        /\ stamp' \in [Calls -> Nat] /\ clock' \in Nat
        /\ receiver' \in Calls \cup {None}
        /\ UNCHANGED <<values, closed, taken>>
    <3>1. CASE UNCHANGED <<values, senders, closed, history>> /\ receiver' = c
      BY <3>1 DEF TypeOK, history
    <3>2. CASE /\ Len(senders) < Capacity /\ senders' = Append(senders, c)
               /\ Stamp(c) /\ UNCHANGED <<values, receiver, closed, taken>>
      <4>1. senders \in Seq(Calls) /\ Len(senders) \in Nat
        BY DEF TypeOK
      <4>2. senders' \in Seq(Calls) /\ Len(senders') = Len(senders) + 1
        BY <3>2, <4>1, AppendAt
      <4>3. stamp' \in [Calls -> Nat] /\ clock' \in Nat
        BY <3>2 DEF TypeOK, Stamp
      <4> QED
        BY <3>2, <4>1, <4>2, <4>3 DEF TypeOK
    <3> QED
      BY <2>1, <3>1, <3>2
  <2> QED
    BY <2>2, <2>3 DEF TypeOK
<1>6. CASE Close
  BY <1>6 DEF TypeOK, Close, Kept, Forgetting, history, Outcomes, Refusals
<1>7. CASE \E t \in Tokens : Cancel(t)
  BY <1>7 DEF TypeOK, Cancel, queues, history
<1>8. CASE \E c \in Calls : FireSender(c)
  BY <1>8, RemoveAtProperties
  DEF TypeOK, FireSender, Fire, Forgetting, history, Outcomes, Refusals
<1>9. CASE \E c \in Calls : FireReceiver(c)
  BY <1>9 DEF TypeOK, FireReceiver, ReceiverCleared, Fire, Forgetting, history,
              Outcomes, Refusals
<1>10. CASE UNCHANGED vars
  BY <1>10 DEF TypeOK, vars
<1> QED
  BY <1>1, <1>2, <1>3, <1>4, <1>5, <1>6, <1>7, <1>8, <1>9, <1>10 DEF Step

LEMMA TypeInit == Init => TypeOK
<1> SUFFICES ASSUME Init PROVE TypeOK
  OBVIOUS
<1>1. <<>> \in Seq(Calls) /\ Len(<<>>) = 0 /\ 0 <= Capacity
  BY CapacityAssumption
<1>2. status \in [Calls -> Outcomes \cup {"idle", "waiting"}]
      /\ token \in [Calls -> Tokens \cup {None}]
      /\ listeners \in [Tokens -> SUBSET Calls] /\ stamp \in [Calls -> Nat]
  BY DEF Init
<1> QED
  BY <1>1, <1>2 DEF Init, TypeOK

THEOREM TypeCorrect == Spec => []TypeOK
<1>1. TypeOK /\ [Next]_vars => TypeOK'
  BY StepKeepsType, NextIsStep
<1> QED
  BY <1>1, TypeInit, PTL DEF Spec

-----------------------------------------------------------------------------
(* Sequences whose elements carry increasing stamps.                         *)
Increasing(st, s) == \A i, j \in 1 .. Len(s) : i < j => st[s[i]] < st[s[j]]
Below(st, A, B) == \A x \in A, y \in B : st[x] < st[y]

LEMMA IncreasingAppend ==
  ASSUME NEW st, NEW s \in Seq(Calls), NEW e \in Calls,
         Increasing(st, s), Below(st, SE!ToSet(s), {e})
  PROVE  Increasing(st, Append(s, e))
<1>1. \A i \in 1 .. Len(s) : st[s[i]] < st[e]
  BY InElements DEF Below
<1> QED
  BY <1>1, AppendAt DEF Increasing

LEMMA IncreasingTail ==
  ASSUME NEW st, NEW s \in Seq(Calls), s # <<>>, Increasing(st, s)
  PROVE  /\ Increasing(st, Tail(s))
         /\ Below(st, {Head(s)}, SE!ToSet(Tail(s)))
<1>1. Increasing(st, Tail(s))
  BY HeadTail DEF Increasing
<1>2. ASSUME NEW x \in SE!ToSet(Tail(s)) PROVE st[Head(s)] < st[x]
  <2>1. PICK i \in 1 .. Len(Tail(s)) : Tail(s)[i] = x
    <3>1. Tail(s) \in Seq(Calls)
      BY HeadTail
    <3> QED
      BY <1>2, <3>1, InElements
  <2>2. x = s[i + 1] /\ i + 1 \in 1 .. Len(s) /\ 1 < i + 1 /\ 1 \in 1 .. Len(s)
    BY <2>1, HeadTail
  <2> QED
    BY <2>2, HeadTail DEF Increasing
<1> QED
  BY <1>1, <1>2 DEF Below

LEMMA IncreasingRemoveAt ==
  ASSUME NEW st, NEW s \in Seq(Calls), NEW p \in DOMAIN s, Increasing(st, s)
  PROVE  Increasing(st, SE!RemoveAt(s, p))
<1>1. p \in 1 .. Len(s) /\ Len(s) \in Nat
  OBVIOUS
<1> DEFINE r == SE!RemoveAt(s, p)
<1>2. /\ Len(r) = Len(s) - 1
      /\ \A i \in 1 .. Len(s) - 1 : r[i] = IF i < p THEN s[i] ELSE s[i + 1]
  BY RemoveAtProperties
<1> HIDE DEF r
<1>3. Increasing(st, r)
  BY <1>1, <1>2 DEF Increasing
<1> QED
  BY <1>3 DEF r

(* Stamping an element that is not in the sequence leaves its order alone.   *)
LEMMA IncreasingSame ==
  ASSUME NEW st, NEW su, NEW s \in Seq(Calls), Increasing(st, s),
         \A x \in SE!ToSet(s) : su[x] = st[x]
  PROVE  Increasing(su, s)
<1>1. \A i \in 1 .. Len(s) : su[s[i]] = st[s[i]]
  BY InElements
<1> QED
  BY <1>1 DEF Increasing

(* A new stamp is above every stamp given so far.                            *)
LEMMA BelowStamped ==
  ASSUME NEW st \in [Calls -> Nat], NEW su \in [Calls -> Nat], NEW n \in Nat,
         NEW A \in SUBSET Calls, NEW B \in SUBSET Calls, NEW c \in Calls,
         c \notin A, c \notin B, Below(st, A, B),
         \A d \in Calls : st[d] <= n,
         \A d \in Calls : su[d] = IF d = c THEN n + 1 ELSE st[d]
  PROVE  Below(su, A, B) /\ Below(su, A, B \cup {c}) /\ Below(su, A, {c})
<1>1. ASSUME NEW x \in A, NEW y \in B PROVE su[x] < su[y]
  BY DEF Below
<1>2. ASSUME NEW x \in A PROVE su[x] < su[c]
  <2>1. x \in Calls /\ x # c /\ su[x] = st[x] /\ st[x] <= n /\ su[c] = n + 1
    OBVIOUS
  <2> QED
    BY <2>1
<1> QED
  BY <1>1, <1>2 DEF Below

LEMMA IncreasingDistinct ==
  ASSUME NEW s \in Seq(Calls), Increasing(stamp, s), stamp \in [Calls -> Nat]
  PROVE  \A i, j \in 1 .. Len(s) : i < j => s[i] # s[j]
BY DEF Increasing

LEMMA IncreasingConcat ==
  ASSUME NEW st, NEW s \in Seq(Calls), NEW t \in Seq(Calls),
         Increasing(st, s), Increasing(st, t), Below(st, SE!ToSet(s), SE!ToSet(t))
  PROVE  /\ s \o t \in Seq(Calls)
         /\ Increasing(st, s \o t)
         /\ SE!ToSet(s \o t) = SE!ToSet(s) \cup SE!ToSet(t)
<1>1. /\ s \o t \in Seq(Calls) /\ Len(s \o t) = Len(s) + Len(t)
      /\ Len(s) \in Nat /\ Len(t) \in Nat
      /\ \A i \in 1 .. Len(s) : (s \o t)[i] = s[i]
      /\ \A i \in 1 .. Len(t) : (s \o t)[Len(s) + i] = t[i]
  OBVIOUS
<1>2. \A i \in 1 .. Len(s), j \in 1 .. Len(t) : st[s[i]] < st[t[j]]
  BY InElements DEF Below
<1>3. ASSUME NEW i \in 1 .. Len(s \o t), NEW j \in 1 .. Len(s \o t), i < j
      PROVE  st[(s \o t)[i]] < st[(s \o t)[j]]
  <2>1. CASE j <= Len(s)
    BY <1>1, <1>3, <2>1 DEF Increasing
  <2>2. CASE i <= Len(s) /\ j > Len(s)
    <3>1. j - Len(s) \in 1 .. Len(t) /\ (s \o t)[Len(s) + (j - Len(s))] = t[j - Len(s)]
      BY <1>1, <2>2
    <3>2. Len(s) + (j - Len(s)) = j /\ i \in 1 .. Len(s) /\ (s \o t)[i] = s[i]
      BY <1>1, <2>2
    <3> QED
      BY <1>2, <3>1, <3>2
  <2>3. CASE i > Len(s)
    <3>1. /\ i - Len(s) \in 1 .. Len(t) /\ (s \o t)[i] = t[i - Len(s)]
          /\ j - Len(s) \in 1 .. Len(t) /\ (s \o t)[j] = t[j - Len(s)]
          /\ i - Len(s) < j - Len(s)
      BY <1>1, <1>3, <2>3
    <3> QED
      BY <3>1 DEF Increasing
  <2> QED
    BY <1>1, <2>1, <2>2, <2>3
<1>4. ASSUME NEW x
      PROVE  x \in SE!ToSet(s \o t) <=> x \in SE!ToSet(s) \cup SE!ToSet(t)
  <2>1. x \in SE!ToSet(s) <=> \E i \in 1 .. Len(s) : s[i] = x
    BY InElements
  <2>2. x \in SE!ToSet(t) <=> \E i \in 1 .. Len(t) : t[i] = x
    BY InElements
  <2>3. x \in SE!ToSet(s \o t) <=> \E i \in 1 .. Len(s \o t) : (s \o t)[i] = x
    BY <1>1, InElements
  <2>4. ASSUME NEW i \in 1 .. Len(s \o t), (s \o t)[i] = x
        PROVE  x \in SE!ToSet(s) \cup SE!ToSet(t)
    <3>1. CASE i <= Len(s)
      BY <1>1, <2>1, <2>4, <3>1
    <3>2. CASE i > Len(s)
      <4>1. i - Len(s) \in 1 .. Len(t) /\ t[i - Len(s)] = x
        BY <1>1, <2>4, <3>2
      <4> QED
        BY <2>2, <4>1
    <3> QED
      BY <1>1, <3>1, <3>2
  <2>5. ASSUME NEW i \in 1 .. Len(t), t[i] = x PROVE x \in SE!ToSet(s \o t)
    <3>1. Len(s) + i \in 1 .. Len(s \o t)
      BY <1>1
    <3> QED
      BY <1>1, <2>3, <2>5, <3>1
  <2>6. ASSUME NEW i \in 1 .. Len(s), s[i] = x PROVE x \in SE!ToSet(s \o t)
    <3>1. i \in 1 .. Len(s \o t)
      BY <1>1
    <3> QED
      BY <1>1, <2>3, <2>6, <3>1
  <2> QED
    BY <2>1, <2>2, <2>3, <2>4, <2>5, <2>6
<1> QED
  BY <1>1, <1>3, <1>4 DEF Increasing

-----------------------------------------------------------------------------
(* The inductive invariant.  Beside the safety properties it says that the   *)
(* walk of a cancelled token only calls waiting calls, and it splits the     *)
(* order of the line into its three sections and the borders between them.   *)
WalkInv == \A c \in firing : status[c] = "waiting"

OrderInv ==
  /\ \A c \in Calls : stamp[c] <= clock
  /\ Increasing(stamp, taken) /\ Increasing(stamp, values)
  /\ Increasing(stamp, senders)
  /\ Below(stamp, SE!ToSet(taken), SE!ToSet(values))
  /\ Below(stamp, SE!ToSet(taken), SE!ToSet(senders))
  /\ Below(stamp, SE!ToSet(values), SE!ToSet(senders))

IInv == /\ TypeOK /\ NobodyWaitsInVain /\ WaitersAreHeld /\ SentIsKept
        /\ WalkInv /\ OrderInv

LEMMA InvInit == Init => IInv
<1> SUFFICES ASSUME Init PROVE IInv
  OBVIOUS
<1>1. values = <<>> /\ senders = <<>> /\ taken = <<>> /\ SE!ToSet(<<>>) = {}
  BY DEF Init, SE!ToSet
<1>2. NobodyWaitsInVain
  BY <1>1 DEF Init, NobodyWaitsInVain
<1>3. WaitersAreHeld
  BY <1>1, NoneAssumption DEF Init, WaitersAreHeld
<1>4. SentIsKept
  BY <1>1 DEF Init, SentIsKept
<1>5. OrderInv
  BY <1>1 DEF Init, OrderInv, Increasing, Below
<1> QED
  BY <1>2, <1>3, <1>4, <1>5, TypeInit DEF Init, IInv, WalkInv

(* A call answered on the spot changes nothing the invariant looks at.       *)
LEMMA AnswerKeeps == IInv /\ AnswerStep => IInv'
<1> SUFFICES ASSUME IInv, NEW c \in Calls, NEW o \in Refusals \cup {"ended"},
                    Callable(c), Answer(c, o)
             PROVE  IInv'
  BY DEF AnswerStep
<1>1. TypeOK'
  <2>1. Step
    BY DEF Step, AnswerStep
  <2> QED
    BY <2>1, StepKeepsType DEF IInv
<1>2. \A d \in Calls : /\ status'[d] = "waiting" <=> status[d] = "waiting"
                       /\ status'[d] = "sent" <=> status[d] = "sent"
  BY DEF IInv, TypeOK, Callable, Answer, Refusals
<1>3. UNCHANGED <<queues, tokens, history>>
  BY DEF Answer
<1>4. NobodyWaitsInVain' /\ OrderInv'
  BY <1>3 DEF IInv, NobodyWaitsInVain, OrderInv, queues, history, Increasing, Below
<1>5. WaitersAreHeld' /\ SentIsKept' /\ WalkInv'
  BY <1>2, <1>3 DEF IInv, TypeOK, WaitersAreHeld, SentIsKept, WalkInv, queues, tokens,
                    history
<1> QED
  BY <1>1, <1>4, <1>5 DEF IInv

(* A value handed to the waiting receiver: nothing was in front of it.       *)
LEMMA HandOverKeeps ==
  ASSUME IInv, NEW c \in Calls, Callable(c), HandOver(c)
  PROVE  IInv'
<1>1. TypeOK'
  <2>1. Step
    BY DEF Step
  <2> QED
    BY <2>1, StepKeepsType DEF IInv
<1> DEFINE K == SE!ToSet(taken)
<1>2. /\ receiver \in Calls /\ status[receiver] = "waiting" /\ receiver # c
      /\ status[c] = "idle" /\ firing = {}
  BY DEF IInv, TypeOK, HandOver, Callable, WaitersAreHeld
<1>3. values = <<>> /\ senders = <<>> /\ SE!ToSet(<<>>) = {}
  BY <1>2, CapacityAssumption DEF IInv, NobodyWaitsInVain, HandOver, SE!ToSet
<1>4. /\ status' = [status EXCEPT ![c] = "sent", ![receiver] = "received"]
      /\ taken' = Append(taken, c) /\ receiver' = None
      /\ listeners' = [t \in Tokens |-> listeners[t] \ {receiver}]
      /\ clock' = clock + 1 /\ stamp' = [stamp EXCEPT ![c] = clock + 1]
      /\ UNCHANGED <<values, senders, closed, token, cancelled, firing>>
  BY <1>2 DEF HandOver, Active, Forgetting, Stamp
<1>5. SE!ToSet(taken') = K \cup {c}
  BY <1>4, ElementsOfAppend DEF IInv, TypeOK
<1>6. c \notin K
  BY <1>2 DEF IInv, SentIsKept
<1>7. NobodyWaitsInVain'
  BY <1>3, <1>4 DEF IInv, NobodyWaitsInVain
<1>8. \A d \in Calls : status'[d] = IF d = c THEN "sent"
                                    ELSE IF d = receiver THEN "received" ELSE status[d]
  BY <1>2, <1>4 DEF IInv, TypeOK
<1>9. SentIsKept'
  <2>1. SE!ToSet(values) = {} /\ SE!ToSet(values') = {}
    BY <1>3, <1>4
  <2>2. \A d \in Calls : status[d] = "sent" <=> d \in K
    BY <2>1 DEF IInv, SentIsKept
  <2> HIDE DEF K
  <2> QED
    BY <1>2, <1>5, <1>8, <2>1, <2>2 DEF SentIsKept
<1>10. WaitersAreHeld'
  <2>1. \A d \in Calls : status[d] = "waiting" <=> receiver = d
    BY <1>3 DEF IInv, WaitersAreHeld
  <2>2. \A d \in Calls : status'[d] # "waiting"
    BY <1>8, <2>1
  <2>3. \A t \in Tokens : listeners'[t] = {}
    BY <1>4, <2>1 DEF IInv, TypeOK, WaitersAreHeld
  <2> QED
    BY <1>3, <1>4, <2>2, <2>3, NoneAssumption DEF WaitersAreHeld
<1>11. WalkInv'
  BY <1>2, <1>4 DEF WalkInv
<1>12. OrderInv'
  <2>1. stamp' \in [Calls -> Nat] /\ clock \in Nat /\ stamp \in [Calls -> Nat]
        /\ taken \in Seq(Calls) /\ K \subseteq Calls
    BY <1>1, ElementsType DEF IInv, TypeOK
  <2>2. \A d \in Calls : stamp'[d] = IF d = c THEN clock + 1 ELSE stamp[d]
    BY <1>4, <2>1
  <2>3. Increasing(stamp', taken)
    BY <1>6, <2>1, <2>2, IncreasingSame DEF IInv, OrderInv
  <2>4. Below(stamp', K, {c})
    BY <1>6, <2>1, <2>2 DEF IInv, OrderInv, Below
  <2>5. Increasing(stamp', taken')
    BY <1>4, <2>1, <2>3, <2>4, IncreasingAppend
  <2>6. \A d \in Calls : stamp'[d] <= clock'
    BY <1>4, <2>1, <2>2 DEF IInv, OrderInv
  <2>7. Increasing(stamp', <<>>)
    BY DEF Increasing
  <2> QED
    BY <1>3, <1>4, <2>5, <2>6, <2>7 DEF OrderInv, Below
<1> QED
  BY <1>1, <1>7, <1>9, <1>10, <1>11, <1>12 DEF IInv

(* A value buffered goes behind every value of the line: nobody waits.       *)
LEMMA BufferKeeps ==
  ASSUME IInv, NEW c \in Calls, Callable(c), Buffer(c)
  PROVE  IInv'
<1>1. TypeOK'
  <2>1. Step
    BY DEF Step
  <2> QED
    BY <2>1, StepKeepsType DEF IInv
<1> DEFINE K == SE!ToSet(taken)
           V == SE!ToSet(values)
<1>2. status[c] = "idle" /\ firing = {} /\ receiver = None /\ ~closed
      /\ Len(values) < Capacity
  BY DEF Buffer, Callable, HasRoom
<1>3. senders = <<>> /\ SE!ToSet(<<>>) = {}
  BY <1>2, CapacityAssumption DEF IInv, TypeOK, NobodyWaitsInVain, SE!ToSet
<1>4. /\ status' = [status EXCEPT ![c] = "sent"]
      /\ values' = Append(values, c)
      /\ clock' = clock + 1 /\ stamp' = [stamp EXCEPT ![c] = clock + 1]
      /\ UNCHANGED <<senders, receiver, closed, taken, token, listeners, cancelled, firing>>
  BY DEF Buffer, Push, Stamp, tokens
<1>5. SE!ToSet(values') = V \cup {c}
  BY <1>4, ElementsOfAppend DEF IInv, TypeOK
<1>6. c \notin K /\ c \notin V /\ K \subseteq Calls /\ V \subseteq Calls
  BY <1>2, ElementsType DEF IInv, TypeOK, SentIsKept
<1>7. NobodyWaitsInVain'
  BY <1>2, <1>3, <1>4 DEF NobodyWaitsInVain
<1>8. \A d \in Calls : status'[d] = IF d = c THEN "sent" ELSE status[d]
  BY <1>4 DEF IInv, TypeOK
<1>9. SentIsKept'
  <2>1. \A d \in Calls : status[d] = "sent" <=> d \in K \cup V
    BY DEF IInv, SentIsKept
  <2>2. SE!ToSet(taken') = K
    BY <1>4
  <2> HIDE DEF K, V
  <2> QED
    BY <1>5, <1>8, <2>1, <2>2 DEF SentIsKept
<1>10. WaitersAreHeld'
  BY <1>2, <1>3, <1>4, <1>8, NoneAssumption DEF IInv, WaitersAreHeld
<1>11. WalkInv'
  BY <1>2, <1>4 DEF WalkInv
<1>12. OrderInv'
  <2>1. stamp' \in [Calls -> Nat] /\ clock \in Nat /\ stamp \in [Calls -> Nat]
        /\ taken \in Seq(Calls) /\ values \in Seq(Calls)
    BY <1>1 DEF IInv, TypeOK
  <2>2. \A d \in Calls : stamp'[d] = IF d = c THEN clock + 1 ELSE stamp[d]
    BY <1>4, <2>1
  <2>3. Increasing(stamp', taken) /\ Increasing(stamp', values)
    BY <1>6, <2>1, <2>2, IncreasingSame DEF IInv, OrderInv
  <2>4. Below(stamp', V, {c}) /\ Below(stamp', K, V \cup {c})
    <3>1. Below(stamp, K, V) /\ \A d \in Calls : stamp[d] <= clock
      BY DEF IInv, OrderInv
    <3>2. Below(stamp, V, {})
      BY DEF Below
    <3>3. Below(stamp', K, V \cup {c})
      BY <1>6, <2>1, <2>2, <3>1, BelowStamped
    <3>4. Below(stamp', V, {c})
      BY <1>6, <2>1, <2>2, <3>1, <3>2, BelowStamped
    <3> QED
      BY <3>3, <3>4
  <2>5. Increasing(stamp', values')
    BY <1>4, <2>1, <2>3, <2>4, IncreasingAppend
  <2>6. \A d \in Calls : stamp'[d] <= clock'
    BY <1>4, <2>1, <2>2 DEF IInv, OrderInv
  <2>7. Increasing(stamp', <<>>)
    BY DEF Increasing
  <2>8. SE!ToSet(senders') = {} /\ senders' = <<>> /\ taken' = taken
    BY <1>3, <1>4
  <2>9. Below(stamp', SE!ToSet(taken'), SE!ToSet(values'))
    BY <1>5, <2>4, <2>8
  <2> QED
    BY <2>3, <2>5, <2>6, <2>7, <2>8, <2>9 DEF OrderInv, Below
<1> QED
  BY <1>1, <1>7, <1>9, <1>10, <1>11, <1>12 DEF IInv

(* The oldest buffered value leaves for a receiver, and the first waiting    *)
(* sender, if there is one, follows into the buffer.                         *)
LEMMA TakeKeeps ==
  ASSUME IInv, NEW c \in Calls, Callable(c), Take(c)
  PROVE  IInv'
<1>1. TypeOK'
  <2>1. Step
    BY DEF Step
  <2> QED
    BY <2>1, StepKeepsType DEF IInv
<1> DEFINE K == SE!ToSet(taken)
           V == SE!ToSet(values)
           W == SE!ToSet(senders)
           h == Head(values)
           R == SE!ToSet(Tail(values))
<1>2. /\ status[c] = "idle" /\ firing = {} /\ values # <<>>
      /\ taken' = Append(taken, h)
      /\ UNCHANGED <<receiver, closed, token, cancelled, firing, stamp, clock>>
  BY DEF Take, Callable
<1>3. /\ values \in Seq(Calls) /\ senders \in Seq(Calls) /\ taken \in Seq(Calls)
      /\ h \in Calls /\ Tail(values) \in Seq(Calls)
      /\ K \subseteq Calls /\ V \subseteq Calls /\ W \subseteq Calls
      /\ V = R \cup {h} /\ receiver = None
      /\ stamp \in [Calls -> Nat]
  BY <1>2, HeadTail, ElementsType, ElementsOfTail DEF IInv, TypeOK, NobodyWaitsInVain
<1>4. SE!ToSet(taken') = K \cup {h}
  BY <1>2, <1>3, ElementsOfAppend
<1>5. /\ Increasing(stamp, taken) /\ Increasing(stamp, values)
      /\ Increasing(stamp, senders)
      /\ Below(stamp, K, V) /\ Below(stamp, K, W) /\ Below(stamp, V, W)
  BY DEF IInv, OrderInv
<1>6. Increasing(stamp, Tail(values)) /\ Below(stamp, {h}, R)
  BY <1>2, <1>3, <1>5, IncreasingTail
<1>7. Increasing(stamp, taken')
  <2>1. Below(stamp, K, {h})
    BY <1>3, <1>5 DEF Below
  <2> QED
    BY <1>2, <1>3, <1>5, <2>1, IncreasingAppend
<1>8. /\ \A d \in Calls : status[d] = "sent" <=> d \in K \cup V
      /\ \A d \in Calls : status[d] = "waiting" <=> d \in W
      /\ \A t \in Tokens : \A d \in Calls :
           d \in listeners[t] <=> status[d] = "waiting" /\ token[d] = t
  BY <1>3, NoneAssumption DEF IInv, SentIsKept, WaitersAreHeld
<1>9. WalkInv'
  BY <1>2 DEF WalkInv
<1>10. CASE Promotes
  <2> DEFINE p == Head(senders)
             Q == SE!ToSet(Tail(senders))
  <2>1. /\ senders # <<>> /\ values' = Append(Tail(values), p)
        /\ senders' = Tail(senders)
        /\ status' = [status EXCEPT ![c] = "received", ![p] = "sent"]
        /\ listeners' = [t \in Tokens |-> listeners[t] \ {p}]
    BY <1>10 DEF Promotes, Take, Push, Forgetting
  <2>2. /\ p \in Calls /\ Tail(senders) \in Seq(Calls) /\ W = Q \cup {p}
        /\ Q \subseteq Calls
    BY <1>3, <2>1, HeadTail, ElementsOfTail, ElementsType
  <2>3. Increasing(stamp, Tail(senders)) /\ Below(stamp, {p}, Q)
    BY <1>3, <1>5, <2>1, IncreasingTail
  <2>4. p \notin Q
    BY <1>3, <2>2, <2>3 DEF Below
  <2>5. SE!ToSet(values') = R \cup {p}
    <3> DEFINE q == Tail(values)
    <3>1. q \in Seq(Calls) /\ p \in Calls
      BY <1>3, <2>2
    <3>2. values' = Append(q, p) /\ R = SE!ToSet(q)
      BY <2>1
    <3> HIDE DEF q, p, R
    <3> QED
      BY <3>1, <3>2, ElementsOfAppend
  <2>6. NobodyWaitsInVain'
    <3>1. Len(values) = Capacity /\ ~closed
      BY <2>1 DEF IInv, NobodyWaitsInVain
    <3>2. Len(values') = Len(values)
      BY <1>2, <1>3, <2>1, <2>2, HeadTail, AppendAt
    <3> QED
      BY <1>2, <1>3, <3>1, <3>2 DEF NobodyWaitsInVain
  <2>7. c # p /\ \A d \in Calls : status'[d] = IF d = c THEN "received"
                                              ELSE IF d = p THEN "sent" ELSE status[d]
    BY <1>2, <1>8, <2>1, <2>2 DEF IInv, TypeOK
  <2>8. SE!ToSet(senders') = Q
    BY <2>1
  <2> HIDE DEF K, V, W, R, Q, p, h
  <2>9. SentIsKept'
    BY <1>2, <1>3, <1>4, <1>8, <2>2, <2>5, <2>7 DEF SentIsKept
  <2>10. WaitersAreHeld'
    <3>1. \A d \in Calls : status'[d] = "waiting" <=> d \in Q
      BY <1>2, <1>8, <2>2, <2>4, <2>7
    <3>2. \A t \in Tokens : \A d \in Calls :
            d \in listeners'[t] <=> status'[d] = "waiting" /\ token'[d] = t
      <4> SUFFICES ASSUME NEW t \in Tokens, NEW d \in Calls
                   PROVE  d \in listeners'[t] <=> status'[d] = "waiting" /\ token'[d] = t
        OBVIOUS
      <4>1. d \in listeners'[t] <=> d \in listeners[t] /\ d # p
        BY <2>1
      <4>2. token'[d] = token[d] /\ status[c] = "idle"
        BY <1>2
      <4> QED
        BY <1>8, <2>7, <4>1, <4>2
    <3> QED
      BY <1>2, <1>3, <2>8, <3>1, <3>2, NoneAssumption DEF WaitersAreHeld
  <2>11. OrderInv'
    <3>1. Below(stamp, R, {p})
      BY <1>3, <1>5, <2>2 DEF Below
    <3>2. Increasing(stamp, values')
      BY <1>3, <1>6, <2>1, <2>2, <3>1, IncreasingAppend DEF R
    <3>3. /\ Below(stamp, K \cup {h}, R \cup {p}) /\ Below(stamp, K \cup {h}, Q)
          /\ Below(stamp, R \cup {p}, Q)
      BY <1>3, <1>5, <1>6, <2>2, <2>3 DEF Below
    <3>4. \A d \in Calls : stamp[d] <= clock
      BY DEF IInv, OrderInv
    <3> QED
      BY <1>2, <1>4, <1>7, <2>1, <2>3, <2>5, <2>8, <3>2, <3>3, <3>4 DEF OrderInv
  <2> QED
    BY <1>1, <1>9, <2>6, <2>9, <2>10, <2>11 DEF IInv
<1>11. CASE ~Promotes
  <2>1. /\ senders = <<>> /\ values' = Tail(values)
        /\ status' = [status EXCEPT ![c] = "received"]
        /\ UNCHANGED <<senders, listeners>>
    BY <1>11 DEF Promotes, Take
  <2>2. SE!ToSet(senders) = {} /\ SE!ToSet(senders') = {}
    BY <2>1 DEF SE!ToSet
  <2>3. h \notin R
    BY <1>3, <1>6 DEF Below
  <2>4. NobodyWaitsInVain'
    BY <1>2, <1>3, <2>1 DEF NobodyWaitsInVain
  <2>5. \A d \in Calls : status'[d] = IF d = c THEN "received" ELSE status[d]
    BY <2>1 DEF IInv, TypeOK
  <2>6. SE!ToSet(values') = R
    BY <2>1
  <2> HIDE DEF K, V, W, R, h
  <2>7. SentIsKept'
    BY <1>2, <1>3, <1>4, <1>8, <2>5, <2>6 DEF SentIsKept
  <2>8. WaitersAreHeld'
    BY <1>2, <1>3, <1>8, <2>1, <2>2, <2>5, NoneAssumption DEF WaitersAreHeld, W
  <2>9. OrderInv'
    <3>1. Below(stamp, K \cup {h}, R)
      BY <1>3, <1>5, <1>6 DEF Below
    <3>2. \A d \in Calls : stamp[d] <= clock
      BY DEF IInv, OrderInv
    <3> QED
      BY <1>2, <1>4, <1>5, <1>6, <1>7, <2>1, <2>2, <2>6, <3>1, <3>2 DEF OrderInv, Below
  <2> QED
    BY <1>1, <1>9, <2>4, <2>7, <2>8, <2>9 DEF IInv
<1> QED
  BY <1>10, <1>11

(* A sender joins the end of the waiting line, or a receiver the empty       *)
(* channel.                                                                  *)
LEMMA WaitingKeeps == IInv /\ WaitingStep => IInv'
<1> SUFFICES ASSUME IInv, NEW c \in Calls, NEW t \in Tokens \cup {None},
                    Callable(c), Wait(c, t), WaitingStep,
                    \/ /\ Full /\ Len(senders) < Capacity
                       /\ senders' = Append(senders, c) /\ Stamp(c)
                       /\ UNCHANGED <<values, receiver, closed, taken>>
                    \/ /\ values = <<>> /\ ~closed /\ receiver = None
                       /\ receiver' = c
                       /\ UNCHANGED <<values, senders, closed, history>>
             PROVE  IInv'
  BY DEF WaitingStep
<1>1. TypeOK'
  <2>1. Step
    BY DEF Step
  <2> QED
    BY <2>1, StepKeepsType DEF IInv
<1> DEFINE K == SE!ToSet(taken)
           V == SE!ToSet(values)
           W == SE!ToSet(senders)
<1>2. /\ status[c] = "idle" /\ firing = {} /\ UNCHANGED <<cancelled, firing>>
      /\ \A d \in Calls : status'[d] = IF d = c THEN "waiting" ELSE status[d]
      /\ \A d \in Calls : token'[d] = IF d = c THEN t ELSE token[d]
      /\ \A u \in Tokens : listeners'[u] = IF u = t THEN listeners[u] \cup {c}
                                                     ELSE listeners[u]
  BY DEF IInv, TypeOK, Callable, Wait
<1>3. /\ senders \in Seq(Calls) /\ values \in Seq(Calls) /\ taken \in Seq(Calls)
      /\ K \subseteq Calls /\ V \subseteq Calls /\ W \subseteq Calls
  BY ElementsType DEF IInv, TypeOK
<1>4. /\ \A d \in Calls : status[d] = "sent" <=> d \in K \cup V
      /\ \A d \in Calls : status[d] = "waiting" <=> receiver = d \/ d \in W
      /\ \A u \in Tokens : \A d \in Calls :
           d \in listeners[u] <=> status[d] = "waiting" /\ token[d] = u
  BY DEF IInv, SentIsKept, WaitersAreHeld
<1>5. WalkInv'
  BY <1>2 DEF WalkInv
<1>6. \A u \in Tokens : \A d \in Calls :
        d \in listeners'[u] <=> status'[d] = "waiting" /\ token'[d] = u
  <2> SUFFICES ASSUME NEW u \in Tokens, NEW d \in Calls
               PROVE  d \in listeners'[u] <=> status'[d] = "waiting" /\ token'[d] = u
    OBVIOUS
  <2>1. CASE d = c
    <3>1. c \notin listeners[u]
      BY <1>2, <1>4
    <3> QED
      BY <1>2, <2>1, <3>1
  <2>2. CASE d # c
    <3>1. d \in listeners'[u] <=> d \in listeners[u]
      BY <1>2, <2>2
    <3>2. status'[d] = status[d] /\ token'[d] = token[d]
      BY <1>2, <2>2
    <3> QED
      BY <1>4, <3>1, <3>2
  <2> QED
    BY <2>1, <2>2
<1>7. CASE /\ Full /\ Len(senders) < Capacity
           /\ senders' = Append(senders, c) /\ Stamp(c)
           /\ UNCHANGED <<values, receiver, closed, taken>>
  <2>1. SE!ToSet(senders') = W \cup {c}
    BY <1>3, <1>7, ElementsOfAppend
  <2>2. c \notin K /\ c \notin V /\ c \notin W
    BY <1>2, <1>4
  <2>3. NobodyWaitsInVain'
    <3>1. Len(values) = Capacity /\ ~closed /\ receiver = None
      BY <1>7, CapacityAssumption DEF Full, HasRoom, IInv, TypeOK
    <3>2. UNCHANGED <<values, closed, receiver>>
      BY <1>7
    <3> QED
      BY <3>1, <3>2 DEF NobodyWaitsInVain
  <2>4. SE!ToSet(values') = V /\ SE!ToSet(taken') = K /\ receiver' = receiver
    BY <1>7
  <2>5. OrderInv'
    <3>1. stamp' \in [Calls -> Nat] /\ clock \in Nat /\ stamp \in [Calls -> Nat]
          /\ clock' = clock + 1
      BY <1>1, <1>7 DEF IInv, TypeOK, Stamp
    <3>2. \A d \in Calls : stamp'[d] = IF d = c THEN clock + 1 ELSE stamp[d]
      BY <1>7, <3>1 DEF Stamp
    <3>3. /\ \A d \in Calls : stamp[d] <= clock
          /\ Increasing(stamp, taken) /\ Increasing(stamp, values)
          /\ Increasing(stamp, senders)
          /\ Below(stamp, K, V) /\ Below(stamp, K, W) /\ Below(stamp, V, W)
      BY DEF IInv, OrderInv
    <3>4. Increasing(stamp', taken) /\ Increasing(stamp', values)
          /\ Increasing(stamp', senders)
      BY <1>3, <2>2, <3>2, <3>3, IncreasingSame
    <3> HIDE DEF K, V, W
    <3>5. /\ Below(stamp', K, V) /\ Below(stamp', K, W \cup {c})
          /\ Below(stamp', V, W \cup {c}) /\ Below(stamp', W, {c})
      <4>1. Below(stamp, W, {})
        BY DEF Below
      <4>2. Below(stamp', K, V)
        BY <1>3, <2>2, <3>1, <3>2, <3>3, BelowStamped
      <4>3. Below(stamp', K, W \cup {c})
        BY <1>3, <2>2, <3>1, <3>2, <3>3, BelowStamped
      <4>4. Below(stamp', V, W \cup {c})
        BY <1>3, <2>2, <3>1, <3>2, <3>3, BelowStamped
      <4>5. Below(stamp', W, {c})
        BY <1>3, <2>2, <3>1, <3>2, <3>3, <4>1, BelowStamped
      <4> QED
        BY <4>2, <4>3, <4>4, <4>5
    <3>6. Increasing(stamp', senders')
      BY <1>3, <1>7, <3>4, <3>5, IncreasingAppend DEF W
    <3>7. \A d \in Calls : stamp'[d] <= clock'
      BY <3>1, <3>2, <3>3
    <3> QED
      BY <1>7, <2>1, <2>4, <3>4, <3>5, <3>6, <3>7 DEF OrderInv
  <2> HIDE DEF K, V, W
  <2>6. SentIsKept'
    BY <1>2, <1>4, <2>2, <2>4 DEF SentIsKept
  <2>7. WaitersAreHeld'
    BY <1>2, <1>4, <1>6, <2>1, <2>2, <2>4 DEF WaitersAreHeld
  <2> QED
    BY <1>1, <1>5, <2>3, <2>5, <2>6, <2>7 DEF IInv
<1>8. CASE /\ values = <<>> /\ ~closed /\ receiver = None
           /\ receiver' = c
           /\ UNCHANGED <<values, senders, closed, history>>
  <2>1. UNCHANGED <<values, senders, closed, taken, stamp, clock>>
    BY <1>8 DEF history
  <2>2. NobodyWaitsInVain' /\ OrderInv'
    BY <1>8, <2>1 DEF IInv, NobodyWaitsInVain, OrderInv
  <2>3. SE!ToSet(values') = V /\ SE!ToSet(taken') = K /\ SE!ToSet(senders') = W
    BY <2>1
  <2> HIDE DEF K, V, W
  <2>4. SentIsKept'
    BY <1>2, <1>4, <2>3 DEF SentIsKept
  <2>5. WaitersAreHeld'
    <3>1. \A d \in Calls : status'[d] = "waiting" <=> receiver' = d \/ d \in W
      BY <1>2, <1>4, <1>8, NoneAssumption
    <3> QED
      BY <1>6, <2>3, <3>1 DEF WaitersAreHeld
  <2> QED
    BY <1>1, <1>5, <2>2, <2>4, <2>5 DEF IInv
<1> QED
  BY <1>7, <1>8

(* close() empties the waiting line and leaves the buffer as it is.          *)
LEMMA CloseKeeps ==
  ASSUME IInv, Close
  PROVE  IInv'
<1>1. TypeOK'
  <2>1. Step
    BY DEF Step
  <2> QED
    BY <2>1, StepKeepsType DEF IInv
<1> DEFINE W == SE!ToSet(senders)
           E == IF values = <<>> THEN {receiver} ELSE {}
<1>2. /\ firing = {} /\ closed' = TRUE /\ values' = values /\ senders' = <<>>
      /\ receiver' = IF values = <<>> THEN None ELSE receiver
      /\ \A d \in Calls : status'[d] = IF d \in W THEN "closed"
                                        ELSE IF d \in E THEN "ended" ELSE status[d]
      /\ \A t \in Tokens : listeners'[t] = listeners[t] \ (W \cup E)
      /\ UNCHANGED <<token, cancelled, firing, taken, stamp, clock>>
  BY DEF Close, Kept, Forgetting, history
<1>3. SE!ToSet(<<>>) = {}
  BY DEF SE!ToSet
<1>4. receiver' = None
  BY <1>2 DEF IInv, NobodyWaitsInVain
<1>5. receiver # None => receiver \in E
  BY DEF IInv, NobodyWaitsInVain
<1>6. /\ \A d \in Calls : status[d] = "sent" <=> d \in SE!ToSet(taken) \cup SE!ToSet(values)
      /\ \A d \in Calls : status[d] = "waiting" <=> receiver = d \/ d \in W
      /\ \A t \in Tokens : \A d \in Calls :
           d \in listeners[t] <=> status[d] = "waiting" /\ token[d] = t
  BY DEF IInv, SentIsKept, WaitersAreHeld
<1>7. NobodyWaitsInVain'
  BY <1>2, <1>4 DEF NobodyWaitsInVain
<1>8. OrderInv'
  BY <1>2, <1>3 DEF IInv, OrderInv, Increasing, Below
<1>9. WalkInv'
  BY <1>2 DEF WalkInv
<1>10. \A d \in Calls : status'[d] # "waiting"
  <2> SUFFICES ASSUME NEW d \in Calls PROVE status'[d] # "waiting"
    OBVIOUS
  <2>1. status[d] = "waiting" => d \in W \/ d \in E
    BY <1>5, <1>6, NoneAssumption
  <2> HIDE DEF W, E
  <2> QED
    BY <1>2, <2>1
<1>11. \A t \in Tokens : \A d \in Calls : d \notin listeners'[t]
  <2> SUFFICES ASSUME NEW t \in Tokens, NEW d \in Calls, d \in listeners'[t] PROVE FALSE
    OBVIOUS
  <2>1. d \in listeners[t] /\ d \notin W /\ d \notin E
    BY <1>2
  <2>2. receiver = d
    BY <1>6, <2>1
  <2> QED
    BY <1>5, <2>1, <2>2, NoneAssumption
<1>12. WaitersAreHeld'
  BY <1>2, <1>3, <1>4, <1>10, <1>11, NoneAssumption DEF WaitersAreHeld
<1>13. SentIsKept'
  <2>1. \A d \in Calls : d \in W \/ d \in E => status[d] = "waiting"
    BY <1>6
  <2>2. SE!ToSet(values') = SE!ToSet(values) /\ SE!ToSet(taken') = SE!ToSet(taken)
    BY <1>2
  <2> HIDE DEF W, E
  <2> SUFFICES ASSUME NEW d \in Calls
               PROVE  status'[d] = "sent" <=> status[d] = "sent"
    BY <1>6, <2>2 DEF SentIsKept
  <2> QED
    BY <1>2, <2>1
<1> QED
  BY <1>1, <1>7, <1>8, <1>9, <1>12, <1>13 DEF IInv

(* Cancelling a token starts the walk over its listeners, which all wait.    *)
LEMMA CancelKeeps ==
  ASSUME IInv, NEW t \in Tokens, Cancel(t)
  PROVE  IInv'
<1>1. TypeOK'
  <2>1. Step
    BY DEF Step
  <2> QED
    BY <2>1, StepKeepsType DEF IInv
<1>2. /\ firing' = listeners[t]
      /\ UNCHANGED <<values, senders, receiver, closed, status, token, listeners,
                     taken, stamp, clock>>
  BY DEF Cancel, queues, history
<1>3. WalkInv'
  BY <1>2 DEF IInv, TypeOK, WaitersAreHeld, WalkInv
<1>4. NobodyWaitsInVain' /\ WaitersAreHeld' /\ SentIsKept' /\ OrderInv'
  BY <1>2 DEF IInv, NobodyWaitsInVain, WaitersAreHeld, SentIsKept, OrderInv
<1> QED
  BY <1>1, <1>3, <1>4 DEF IInv

(* A cancelled waiter leaves the channel, wherever it waited.                *)
LEMMA FireKeeps ==
  ASSUME IInv, NEW c \in Calls, Fire(c), NEW W \in SUBSET Calls,
         SE!ToSet(senders') = W, Increasing(stamp, senders'),
         senders # <<>> \/ senders' = <<>>, TypeOK',
         \A d \in Calls : (receiver = d \/ d \in SE!ToSet(senders)) /\ d # c
                           <=> receiver' = d \/ d \in W,
         receiver' = receiver \/ receiver' = None, W \subseteq SE!ToSet(senders)
  PROVE  IInv'
<1>1. /\ c \in firing /\ firing' = firing \ {c}
      /\ \A d \in Calls : status'[d] = IF d = c THEN "cancelled" ELSE status[d]
      /\ \A t \in Tokens : listeners'[t] = listeners[t] \ {c}
      /\ UNCHANGED <<values, closed, token, cancelled, taken, stamp, clock>>
  BY DEF IInv, TypeOK, Fire, Forgetting, history
<1>2. status[c] = "waiting"
  BY <1>1 DEF IInv, WalkInv
<1>3. NobodyWaitsInVain'
  BY <1>1 DEF IInv, NobodyWaitsInVain
<1>4. WalkInv'
  BY <1>1 DEF IInv, TypeOK, WalkInv
<1>5. /\ \A d \in Calls : status[d] = "sent" <=> d \in SE!ToSet(taken) \cup SE!ToSet(values)
      /\ \A d \in Calls : status[d] = "waiting"
                             <=> receiver = d \/ d \in SE!ToSet(senders)
      /\ \A t \in Tokens : \A d \in Calls :
           d \in listeners[t] <=> status[d] = "waiting" /\ token[d] = t
  BY DEF IInv, SentIsKept, WaitersAreHeld
<1>6. SentIsKept'
  BY <1>1, <1>2, <1>5 DEF SentIsKept
<1>7. WaitersAreHeld'
  <2>1. \A d \in Calls : status'[d] = "waiting" <=> receiver' = d \/ d \in W
    BY <1>1, <1>5
  <2>2. ASSUME NEW t \in Tokens, NEW d \in Calls
        PROVE  d \in listeners'[t] <=> status'[d] = "waiting" /\ token'[d] = t
    <3>1. d \in listeners'[t] <=> d \in listeners[t] /\ d # c
      BY <1>1
    <3>2. token'[d] = token[d]
      BY <1>1
    <3> QED
      BY <1>1, <1>5, <3>1, <3>2
  <2> QED
    BY <2>1, <2>2 DEF WaitersAreHeld
<1>8. OrderInv'
  <2>1. /\ Below(stamp, SE!ToSet(taken), W) /\ Below(stamp, SE!ToSet(values), W)
    BY DEF IInv, OrderInv, Below
  <2> QED
    BY <1>1, <2>1 DEF IInv, OrderInv
<1> QED
  BY <1>3, <1>4, <1>6, <1>7, <1>8 DEF IInv

LEMMA FireSenderKeeps ==
  ASSUME IInv, NEW c \in Calls, FireSender(c)
  PROVE  IInv'
<1>1. TypeOK'
  <2>1. Step
    BY DEF Step
  <2> QED
    BY <2>1, StepKeepsType DEF IInv
<1>2. PICK i \in DOMAIN senders : senders[i] = c /\ senders' = SE!RemoveAt(senders, i)
  BY DEF FireSender
<1>3. Fire(c) /\ receiver' = receiver /\ senders \in Seq(Calls) /\ i \in 1 .. Len(senders)
  BY DEF FireSender, IInv, TypeOK
<1>4. Increasing(stamp, senders) /\ stamp \in [Calls -> Nat]
  BY DEF IInv, OrderInv, TypeOK
<1>5. SE!ToSet(senders') = SE!ToSet(senders) \ {c}
  BY <1>2, <1>3, <1>4, IncreasingDistinct, ElementsOfRemoveAt
<1>6. Increasing(stamp, senders')
  BY <1>2, <1>3, <1>4, IncreasingRemoveAt
<1>7. senders # <<>> /\ c \in SE!ToSet(senders) /\ receiver # c
  <2>1. senders # <<>>
    BY <1>2, <1>3
  <2>2. Len(values) = Capacity /\ receiver = None
    BY <2>1, CapacityAssumption DEF IInv, TypeOK, NobodyWaitsInVain
  <2> QED
    BY <1>2, <1>3, <2>1, <2>2, NoneAssumption, InElements
<1>8. SE!ToSet(senders') \in SUBSET Calls
  BY <1>3, <1>5, ElementsType
<1> DEFINE W == SE!ToSet(senders')
<1>9. \A d \in Calls : (receiver = d \/ d \in SE!ToSet(senders)) /\ d # c
                        <=> receiver' = d \/ d \in W
  BY <1>3, <1>5, <1>7
<1>10. W \subseteq SE!ToSet(senders)
  BY <1>5
<1> QED
  BY <1>1, <1>3, <1>6, <1>7, <1>8, <1>9, <1>10, FireKeeps

LEMMA FireReceiverKeeps ==
  ASSUME IInv, NEW c \in Calls, FireReceiver(c)
  PROVE  IInv'
<1>1. TypeOK'
  <2>1. Step
    BY DEF Step
  <2> QED
    BY <2>1, StepKeepsType DEF IInv
<1>2. Fire(c) /\ receiver = c /\ receiver' = None /\ senders' = senders
  BY DEF FireReceiver, ReceiverCleared
<1>3. senders = <<>> /\ SE!ToSet(senders) = {} /\ SE!ToSet(senders') = {}
  <2>1. values = <<>>
    BY <1>2, NoneAssumption DEF IInv, NobodyWaitsInVain
  <2>2. senders = <<>>
    BY <2>1, CapacityAssumption DEF IInv, NobodyWaitsInVain
  <2> QED
    BY <1>2, <2>2 DEF SE!ToSet
<1>4. Increasing(stamp, senders')
  BY <1>2 DEF IInv, OrderInv
<1>5. \A d \in Calls : (receiver = d \/ d \in SE!ToSet(senders)) /\ d # c
                        <=> receiver' = d \/ d \in {}
  BY <1>2, <1>3, NoneAssumption
<1> QED
  BY <1>1, <1>2, <1>3, <1>4, <1>5, FireKeeps

LEMMA StutterKeeps == IInv /\ UNCHANGED vars => IInv'
<1> SUFFICES ASSUME IInv, UNCHANGED vars PROVE IInv'
  OBVIOUS
<1>1. TypeOK' /\ NobodyWaitsInVain' /\ SentIsKept' /\ WalkInv'
  BY DEF IInv, TypeOK, NobodyWaitsInVain, SentIsKept, WalkInv, vars
<1>2. WaitersAreHeld' /\ OrderInv'
  BY DEF IInv, WaitersAreHeld, OrderInv, vars
<1> QED
  BY <1>1, <1>2 DEF IInv

LEMMA Invariance == Spec => []IInv
<1>1. IInv /\ Step => IInv'
  BY AnswerKeeps, HandOverKeeps, BufferKeeps, TakeKeeps, WaitingKeeps, CloseKeeps,
     CancelKeeps, FireSenderKeeps, FireReceiverKeeps, StutterKeeps DEF Step
<1>2. IInv /\ [Next]_vars => IInv'
  BY <1>1, NextIsStep
<1> QED
  BY <1>2, InvInit, PTL DEF Spec

(* A sender waits only behind a full buffer and a receiver only before an    *)
(* empty one: send, next, close and the cancellation listeners wake whom     *)
(* they should.                                                              *)
THEOREM WakesWhomItShould == Spec => []NobodyWaitsInVain
<1>1. IInv => NobodyWaitsInVain
  BY DEF IInv
<1> QED
  BY <1>1, Invariance, PTL

(* The unsettled calls are those the channel holds, and a token's listeners  *)
(* are its waiting calls.                                                    *)
THEOREM NoOrphans == Spec => []WaitersAreHeld
<1>1. IInv => WaitersAreHeld
  BY DEF IInv
<1> QED
  BY <1>1, Invariance, PTL

(* What send() accepted is buffered or received, and nothing else is.        *)
THEOREM NothingLost == Spec => []SentIsKept
<1>1. IInv => SentIsKept
  BY DEF IInv
<1> QED
  BY <1>1, Invariance, PTL

(* The values come out in the order of the send calls.                       *)
THEOREM FirstInFirstOut == Spec => []Fifo
<1>1. IInv => Fifo
  <2> SUFFICES ASSUME IInv PROVE Fifo
    OBVIOUS
  <2>1. /\ taken \in Seq(Calls) /\ values \in Seq(Calls) /\ senders \in Seq(Calls)
        /\ Increasing(stamp, taken) /\ Increasing(stamp, values)
        /\ Increasing(stamp, senders)
        /\ Below(stamp, SE!ToSet(taken), SE!ToSet(values))
        /\ Below(stamp, SE!ToSet(taken), SE!ToSet(senders))
        /\ Below(stamp, SE!ToSet(values), SE!ToSet(senders))
    BY DEF IInv, TypeOK, OrderInv
  <2> DEFINE tv == taken \o values
  <2>2. /\ tv \in Seq(Calls) /\ Increasing(stamp, tv)
        /\ SE!ToSet(tv) = SE!ToSet(taken) \cup SE!ToSet(values)
    BY <2>1, IncreasingConcat
  <2> HIDE DEF tv
  <2>3. Below(stamp, SE!ToSet(tv), SE!ToSet(senders))
    BY <2>1, <2>2 DEF Below
  <2>4. tv \o senders \in Seq(Calls) /\ Increasing(stamp, tv \o senders)
    BY <2>1, <2>2, <2>3, IncreasingConcat
  <2>5. Line = tv \o senders
    BY <2>1 DEF Line, tv
  <2> QED
    BY <2>4, <2>5 DEF Fifo, Increasing
<1> QED
  BY <1>1, Invariance, PTL

-----------------------------------------------------------------------------
(* Two sequences in a row, changed at either end.                            *)

LEMMA ConcatAt ==
  ASSUME NEW S, NEW s \in Seq(S), NEW t \in Seq(S)
  PROVE  /\ s \o t \in Seq(S) /\ Len(s \o t) = Len(s) + Len(t)
         /\ Len(s) \in Nat /\ Len(t) \in Nat
         /\ \A i \in 1 .. Len(s) : (s \o t)[i] = s[i]
         /\ \A j \in 1 .. Len(t) : (s \o t)[Len(s) + j] = t[j]
OBVIOUS

LEMMA ConcatIs ==
  ASSUME NEW S, NEW s \in Seq(S), NEW t \in Seq(S), NEW u \in Seq(S),
         Len(u) = Len(s) + Len(t),
         \A i \in 1 .. Len(s) : u[i] = s[i],
         \A j \in 1 .. Len(t) : u[Len(s) + j] = t[j]
  PROVE  s \o t = u
<1> DEFINE v == s \o t
<1>1. /\ v \in Seq(S) /\ Len(v) = Len(u) /\ Len(s) \in Nat /\ Len(t) \in Nat
      /\ \A i \in 1 .. Len(s) : v[i] = s[i]
      /\ \A j \in 1 .. Len(t) : v[Len(s) + j] = t[j]
  BY ConcatAt
<1> HIDE DEF v
<1>2. ASSUME NEW i \in 1 .. Len(u) PROVE v[i] = u[i]
  <2>1. CASE i <= Len(s)
    BY <1>1, <2>1
  <2>2. CASE i > Len(s)
    <3>1. i - Len(s) \in 1 .. Len(t) /\ Len(s) + (i - Len(s)) = i
      BY <1>1, <2>2
    <3>2. u[Len(s) + (i - Len(s))] = v[Len(s) + (i - Len(s))]
      BY <1>1, <3>1
    <3> QED
      BY <3>1, <3>2
  <2> QED
    BY <1>1, <2>1, <2>2
<1>3. v = u
  BY <1>1, <1>2
<1> QED
  BY <1>3 DEF v

LEMMA ConcatEmpty ==
  ASSUME NEW S, NEW s \in Seq(S)
  PROVE  s \o <<>> = s
OBVIOUS

LEMMA ConcatAppend ==
  ASSUME NEW S, NEW s \in Seq(S), NEW t \in Seq(S), NEW e \in S
  PROVE  s \o Append(t, e) = Append(s \o t, e)
<1> DEFINE u == s \o t
           a == Append(t, e)
           r == Append(u, e)
<1>1. /\ u \in Seq(S) /\ Len(u) = Len(s) + Len(t) /\ Len(s) \in Nat /\ Len(t) \in Nat
      /\ \A i \in 1 .. Len(s) : u[i] = s[i]
      /\ \A j \in 1 .. Len(t) : u[Len(s) + j] = t[j]
  BY ConcatAt
<1>2. /\ a \in Seq(S) /\ Len(a) = Len(t) + 1 /\ a[Len(t) + 1] = e
      /\ \A i \in 1 .. Len(t) : a[i] = t[i]
  BY AppendAt
<1> HIDE DEF u, a
<1>3. /\ r \in Seq(S) /\ Len(r) = Len(u) + 1 /\ r[Len(u) + 1] = e
      /\ \A i \in 1 .. Len(u) : r[i] = u[i]
  BY <1>1, AppendAt
<1> HIDE DEF r
<1>4. \A i \in 1 .. Len(s) : r[i] = s[i]
  BY <1>1, <1>3
<1>5. ASSUME NEW j \in 1 .. Len(a) PROVE r[Len(s) + j] = a[j]
  <2>1. CASE j <= Len(t)
    <3>1. j \in 1 .. Len(t) /\ Len(s) + j \in 1 .. Len(u)
      BY <1>1, <2>1
    <3> QED
      BY <1>1, <1>2, <1>3, <3>1
  <2>2. CASE j = Len(t) + 1
    <3>1. Len(s) + j = Len(u) + 1
      BY <1>1, <2>2
    <3> QED
      BY <1>2, <1>3, <2>2, <3>1
  <2> QED
    BY <1>1, <1>2, <2>1, <2>2
<1>6. Len(r) = Len(s) + Len(a)
  BY <1>1, <1>2, <1>3
<1>7. s \o a = r
  BY <1>2, <1>3, <1>4, <1>5, <1>6, ConcatIs
<1> QED
  BY <1>7 DEF a, r, u

(* A line loses its head, and what was first behind the border moves before  *)
(* it: what a next call does when it promotes a waiting sender.              *)
LEMMA ConcatPromote ==
  ASSUME NEW S, NEW s \in Seq(S), NEW t \in Seq(S), s # <<>>, t # <<>>
  PROVE  Append(Tail(s), Head(t)) \o Tail(t) = Tail(s \o t) /\ Head(s \o t) = Head(s)
<1> DEFINE u == s \o t
           q == Tail(s)
           a == Append(q, Head(t))
           b == Tail(t)
           r == Tail(u)
<1>1. /\ Len(s) >= 1 /\ Head(s) = s[1] /\ q \in Seq(S) /\ Len(q) = Len(s) - 1
      /\ \A i \in 1 .. Len(s) - 1 : q[i] = s[i + 1]
  BY HeadTail
<1>2. /\ Len(t) >= 1 /\ Head(t) = t[1] /\ Head(t) \in S
      /\ b \in Seq(S) /\ Len(b) = Len(t) - 1
      /\ \A i \in 1 .. Len(t) - 1 : b[i] = t[i + 1]
  BY HeadTail
<1>3. /\ u \in Seq(S) /\ Len(u) = Len(s) + Len(t) /\ Len(s) \in Nat /\ Len(t) \in Nat
      /\ \A i \in 1 .. Len(s) : u[i] = s[i]
      /\ \A j \in 1 .. Len(t) : u[Len(s) + j] = t[j]
  BY ConcatAt
<1> HIDE DEF q, b, u
<1>4. /\ a \in Seq(S) /\ Len(a) = Len(q) + 1 /\ a[Len(q) + 1] = Head(t)
      /\ \A i \in 1 .. Len(q) : a[i] = q[i]
  BY <1>1, <1>2, AppendAt
<1>5. u # <<>>
  BY <1>1, <1>2, <1>3
<1>6. /\ r \in Seq(S) /\ Len(r) = Len(u) - 1 /\ Head(u) = u[1]
      /\ \A i \in 1 .. Len(u) - 1 : r[i] = u[i + 1]
  BY <1>3, <1>5, HeadTail
<1> HIDE DEF a, r
<1>7. Head(u) = Head(s)
  BY <1>1, <1>3, <1>6
<1>8. ASSUME NEW i \in 1 .. Len(a) PROVE r[i] = a[i]
  <2>1. i \in 1 .. Len(u) - 1 /\ r[i] = u[i + 1]
    BY <1>1, <1>2, <1>3, <1>4, <1>6
  <2>2. CASE i < Len(s)
    <3>1. i + 1 \in 1 .. Len(s) /\ i \in 1 .. Len(s) - 1 /\ i \in 1 .. Len(q)
      BY <1>1, <1>3, <2>2
    <3> QED
      BY <1>1, <1>3, <1>4, <2>1, <3>1
  <2>3. CASE i = Len(s)
    <3>1. u[Len(s) + 1] = t[1] /\ i = Len(q) + 1
      BY <1>1, <1>2, <1>3, <2>3
    <3> QED
      BY <1>2, <1>4, <2>1, <2>3, <3>1
  <2> QED
    BY <1>1, <1>3, <1>4, <2>2, <2>3
<1>9. ASSUME NEW j \in 1 .. Len(b) PROVE r[Len(a) + j] = b[j]
  <2>1. Len(a) = Len(s) /\ j + 1 \in 1 .. Len(t) /\ j \in 1 .. Len(t) - 1
    BY <1>1, <1>2, <1>3, <1>4
  <2>2. Len(s) + j \in 1 .. Len(u) - 1 /\ (Len(s) + j) + 1 = Len(s) + (j + 1)
    BY <1>3, <2>1
  <2>3. r[Len(s) + j] = u[Len(s) + (j + 1)]
    BY <1>6, <2>2
  <2> QED
    BY <1>2, <1>3, <2>1, <2>3
<1>10. Len(r) = Len(a) + Len(b)
  BY <1>1, <1>2, <1>3, <1>4, <1>6
<1>11. a \o b = r
  BY <1>2, <1>4, <1>6, <1>8, <1>9, <1>10, ConcatIs
<1> QED
  BY <1>7, <1>11 DEF a, b, q, r, u

(* A line without its waiting part loses its head. *)
LEMMA ConcatTail ==
  ASSUME NEW S, NEW s \in Seq(S), s # <<>>
  PROVE  Tail(s) \o <<>> = Tail(s \o <<>>) /\ Head(s \o <<>>) = Head(s)
BY ConcatEmpty, HeadTail

LEMMA ConcatRemove ==
  ASSUME NEW S, NEW s \in Seq(S), NEW t \in Seq(S), NEW p \in 1 .. Len(t)
  PROVE  /\ Len(s) + p \in DOMAIN (s \o t)
         /\ s \o SE!RemoveAt(t, p) = SE!RemoveAt(s \o t, Len(s) + p)
<1> DEFINE u == s \o t
           a == SE!RemoveAt(t, p)
           n == Len(s) + p
           w == SE!RemoveAt(u, n)
<1>1. /\ u \in Seq(S) /\ Len(u) = Len(s) + Len(t) /\ Len(s) \in Nat /\ Len(t) \in Nat
      /\ \A i \in 1 .. Len(s) : u[i] = s[i]
      /\ \A j \in 1 .. Len(t) : u[Len(s) + j] = t[j]
  BY ConcatAt
<1>2. /\ a \in Seq(S) /\ Len(a) = Len(t) - 1
      /\ \A i \in 1 .. Len(t) - 1 : a[i] = IF i < p THEN t[i] ELSE t[i + 1]
  BY RemoveAtProperties
<1>3. p \in Nat /\ p >= 1 /\ p <= Len(t)
  BY <1>1
<1> HIDE DEF u, a
<1>4. n \in DOMAIN u /\ n = Len(s) + p
  BY <1>1, <1>3
<1> HIDE DEF n
<1>5. /\ w \in Seq(S) /\ Len(w) = Len(u) - 1
      /\ \A i \in 1 .. Len(u) - 1 : w[i] = IF i < n THEN u[i] ELSE u[i + 1]
  <2>1. u \in Seq(S) /\ n \in DOMAIN u
    BY <1>1, <1>4
  <2> QED
    BY <2>1, RemoveAtProperties
<1> HIDE DEF w
<1>6. \A i \in 1 .. Len(s) : w[i] = s[i]
  BY <1>1, <1>3, <1>4, <1>5
<1>7. ASSUME NEW j \in 1 .. Len(a) PROVE w[Len(s) + j] = a[j]
  <2>1. /\ j \in 1 .. Len(t) - 1 /\ Len(s) + j \in 1 .. Len(u) - 1
        /\ j \in 1 .. Len(t) /\ j + 1 \in 1 .. Len(t)
        /\ (Len(s) + j) + 1 = Len(s) + (j + 1)
    BY <1>1, <1>2
  <2>2. u[Len(s) + j] = t[j] /\ u[Len(s) + (j + 1)] = t[j + 1]
    BY <1>1, <2>1
  <2>3. Len(s) + j < n <=> j < p
    BY <1>1, <1>3, <1>4, <2>1
  <2> QED
    BY <1>2, <1>5, <2>1, <2>2, <2>3
<1>8. Len(w) = Len(s) + Len(a)
  BY <1>1, <1>2, <1>5
<1>9. s \o a = w
  BY <1>2, <1>5, <1>6, <1>7, <1>8, ConcatIs
<1> QED
  BY <1>4, <1>9 DEF w, n, u, a

LEMMA ConcatFront ==
  ASSUME NEW S, NEW s \in Seq(S), NEW t \in Seq(S)
  PROVE  SubSeq(s \o t, 1, Len(s)) = s
<1> DEFINE u == s \o t
<1>1. /\ u \in Seq(S) /\ Len(u) = Len(s) + Len(t) /\ Len(s) \in Nat /\ Len(t) \in Nat
      /\ \A i \in 1 .. Len(s) : u[i] = s[i]
  BY ConcatAt
<1> HIDE DEF u
<1>2. SubSeq(u, 1, Len(s)) = s
  BY <1>1
<1> QED
  BY <1>2 DEF u

-----------------------------------------------------------------------------
(* The steps of the channel as steps of the line.                            *)

LEMMA LineType ==
  ASSUME IInv
  PROVE  /\ values \in Seq(Calls) /\ senders \in Seq(Calls)
         /\ Len(values) \in Nat /\ Len(senders) \in Nat
         /\ Len(values) <= Capacity /\ Len(senders) <= Capacity
         /\ Capacity \in Nat /\ Capacity >= 1
BY CapacityAssumption DEF IInv, TypeOK

LEMMA EmptyBehindRoom ==
  ASSUME IInv, Len(values) < Capacity
  PROVE  senders = <<>>
BY LineType DEF IInv, NobodyWaitsInVain

LEMMA InitRefines == Init => Promise!Init
BY DEF Init, Promise!Init

LEMMA HandOverRefines ==
  ASSUME IInv, NEW c \in Calls, HandOver(c)
  PROVE  Promise!Pass(c)
<1>1. values = <<>> /\ receiver \in Calls
  BY NoneAssumption DEF HandOver, IInv, NobodyWaitsInVain, TypeOK
<1>2. senders = <<>>
  BY <1>1, LineType, EmptyBehindRoom
<1>3. Active(receiver)
  BY <1>1 DEF Active, IInv, WaitersAreHeld
<1>4. taken' = Append(taken, c) /\ UNCHANGED <<values, senders, closed>> /\ ~closed
  BY <1>3 DEF HandOver
<1>5. values \o senders = <<>>
  BY <1>1, <1>2
<1> QED
  BY <1>4, <1>5 DEF Promise!Pass

LEMMA BufferRefines ==
  ASSUME IInv, NEW c \in Calls, Buffer(c)
  PROVE  Promise!Offer(c)
<1>1. /\ ~closed /\ Len(values) < Capacity /\ values' = Append(values, c)
      /\ UNCHANGED <<senders, closed, taken>>
  BY DEF Buffer, HasRoom, Push
<1>2. senders = <<>>
  BY <1>1, EmptyBehindRoom
<1>3. values' \in Seq(Calls) /\ values \in Seq(Calls)
  BY <1>1, LineType, AppendAt
<1>4. values \o senders = values /\ (values \o senders)' = Append(values, c)
  BY <1>1, <1>2, <1>3, ConcatEmpty
<1>5. Len(values) < 2 * Capacity
  BY <1>1, LineType
<1> QED
  BY <1>1, <1>4, <1>5 DEF Promise!Offer

LEMMA WaitingRefines ==
  ASSUME IInv, WaitingStep
  PROVE  (\E c \in Calls : Promise!Offer(c)) \/ UNCHANGED Promise!vars
<1>1. PICK c \in Calls :
        \/ /\ Full /\ Len(senders) < Capacity
           /\ senders' = Append(senders, c)
           /\ UNCHANGED <<values, receiver, closed, taken>>
        \/ UNCHANGED <<values, senders, closed, history>>
  BY DEF WaitingStep
<1>2. CASE UNCHANGED <<values, senders, closed, history>>
  BY <1>2 DEF Promise!vars, history
<1>3. CASE /\ Full /\ Len(senders) < Capacity
           /\ senders' = Append(senders, c)
           /\ UNCHANGED <<values, receiver, closed, taken>>
  <2>1. (values \o senders)' = Append(values \o senders, c)
    BY <1>3, LineType, ConcatAppend
  <2>2. Len(values \o senders) < 2 * Capacity
    BY <1>3, LineType, ConcatAt
  <2> QED
    BY <1>3, <2>1, <2>2 DEF Full, Promise!Offer
<1> QED
  BY <1>1, <1>2, <1>3

LEMMA TakeRefines ==
  ASSUME IInv, NEW c \in Calls, Take(c)
  PROVE  Promise!Receive
<1>1. values # <<>> /\ taken' = Append(taken, Head(values)) /\ closed' = closed
  BY DEF Take
<1>2. values \o senders # <<>>
  BY <1>1, LineType, ConcatAt, HeadTail
<1>3. /\ (values \o senders)' = Tail(values \o senders)
      /\ Head(values \o senders) = Head(values)
  <2>1. CASE Promotes
    <3>1. /\ senders # <<>> /\ senders' = Tail(senders)
          /\ values' = Append(Tail(values), Head(senders))
      BY <2>1 DEF Promotes, Take, Push
    <3> QED
      BY <1>1, <3>1, LineType, ConcatPromote
  <2>2. CASE ~Promotes
    <3>1. senders = <<>> /\ senders' = <<>> /\ values' = Tail(values)
      BY <2>2 DEF Promotes, Take
    <3> QED
      BY <1>1, <3>1, LineType, ConcatTail
  <2> QED
    BY <2>1, <2>2
<1> QED
  BY <1>1, <1>2, <1>3 DEF Promise!Receive

LEMMA CloseRefines ==
  ASSUME IInv, Close
  PROVE  Promise!Close
<1>1. ~closed /\ closed' = TRUE /\ values' = values /\ senders' = <<>> /\ taken' = taken
  BY DEF Close, Kept, history
<1> DEFINE l == values \o senders
<1>2. l \in Seq(Calls) /\ Len(l) = Len(values) + Len(senders) /\ SubSeq(l, 1, Len(values)) = values
  BY LineType, ConcatAt, ConcatFront
<1>3. (IF Len(l) < Capacity THEN Len(l) ELSE Capacity) = Len(values)
  <2>1. CASE senders = <<>>
    <3>1. Len(l) = Len(values)
      BY <2>1, LineType, ConcatEmpty
    <3> QED
      BY <3>1, LineType
  <2>2. CASE senders # <<>>
    <3>1. Len(values) = Capacity
      BY <2>2 DEF IInv, NobodyWaitsInVain
    <3> HIDE DEF l
    <3> QED
      BY <1>2, <3>1, LineType
  <2> QED
    BY <2>1, <2>2
<1>4. l' = values
  BY <1>1, LineType, ConcatEmpty
<1> QED
  BY <1>1, <1>2, <1>3, <1>4 DEF Promise!Close

LEMMA FireSenderRefines ==
  ASSUME IInv, NEW c \in Calls, FireSender(c)
  PROVE  Promise!Withdraw
<1>1. PICK i \in DOMAIN senders : senders' = SE!RemoveAt(senders, i)
  BY DEF FireSender
<1>2. UNCHANGED <<values, closed, taken>>
  BY DEF FireSender, Fire, history
<1>3. i \in 1 .. Len(senders) /\ Len(senders) \in Nat
  BY <1>1, LineType
<1>4. Len(values) = Capacity
  BY <1>3 DEF IInv, NobodyWaitsInVain
<1>5. /\ Capacity + i \in DOMAIN (values \o senders)
      /\ values \o SE!RemoveAt(senders, i) = SE!RemoveAt(values \o senders, Capacity + i)
  BY <1>3, <1>4, LineType, ConcatRemove
<1>6. SE!RemoveAt(values \o senders, Capacity + i)
        = Promise!SE!RemoveAt(values \o senders, Capacity + i)
  BY DEF SE!RemoveAt, Promise!SE!RemoveAt
<1>7. Capacity + i > Capacity
  BY <1>3, LineType
<1>8. (values \o senders)' = values \o SE!RemoveAt(senders, i)
  BY <1>1, <1>2
<1> QED
  BY <1>2, <1>5, <1>6, <1>7, <1>8 DEF Promise!Withdraw

(* Whatever the channel does is a step its promise allows, or none.          *)
LEMMA StepRefines == IInv /\ Step => [Promise!Next]_(Promise!vars)
<1> SUFFICES ASSUME IInv, Step PROVE Promise!Next \/ UNCHANGED Promise!vars
  OBVIOUS
<1>1. CASE AnswerStep
  BY <1>1 DEF AnswerStep, Answer, queues, history, Promise!vars
<1>2. CASE (\E t \in Tokens : Cancel(t)) \/ UNCHANGED vars
  BY <1>2 DEF Cancel, queues, history, vars, Promise!vars
<1>3. CASE \E c \in Calls : FireReceiver(c)
  BY <1>3 DEF FireReceiver, Fire, history, Promise!vars
<1>4. CASE \E c \in Calls : HandOver(c) \/ Buffer(c)
  BY <1>4, HandOverRefines, BufferRefines DEF Promise!Next
<1>5. CASE \E c \in Calls : Take(c) \/ FireSender(c)
  BY <1>5, TakeRefines, FireSenderRefines DEF Promise!Next
<1>6. CASE WaitingStep
  BY <1>6, WaitingRefines DEF Promise!Next
<1>7. CASE Close
  BY <1>7, CloseRefines DEF Promise!Next
<1> QED
  BY <1>1, <1>2, <1>3, <1>4, <1>5, <1>6, <1>7 DEF Step

(* The channel of task.js implements one bounded line: sends join it at the  *)
(* back, nexts leave it at the front, a cancelled send leaves it only from   *)
(* beyond the buffer, and close() keeps the buffer and drops the rest.       *)
THEOREM ChannelKeepsItsPromise == Spec => KeepsPromise
<1>1. IInv /\ [Next]_vars => [Promise!Next]_(Promise!vars)
  BY StepRefines, NextIsStep
<1> QED
  BY <1>1, InitRefines, Invariance, PTL DEF Spec, KeepsPromise, Promise!Spec
=============================================================================
