--------------------------- MODULE WorkersProofs ----------------------------
(***************************************************************************)
(* Proofs about the workers of velar/worker (module Workers), for any      *)
(* number of members and calls and any capacities: no call is lost or run  *)
(* twice, a cancellation reaches its handler, and a Worker whose loop runs *)
(* is never taken for a wedged one.                                        *)
(***************************************************************************)
EXTENDS Workers, FiniteSetTheorems, TLAPS

ToWorker == [kind : {"call", "cancel"}, id : Calls]
ToClient == [kind : Replies, id : Calls]

(* A reply that answers the call, not only its cancel, is on its way. *)
IsAnswer(reply, c) == reply.kind # "ack" /\ reply.id = c
Answered(m, c) == \E i \in DOMAIN toClient[m] : IsAnswer(toClient[m][i], c)
At(m, c) == Unread(m, "call", c) \/ Working(m, c) \/ Answered(m, c)

-----------------------------------------------------------------------------
(* Sequences. *)

LEMMA AppendFacts ==
  ASSUME NEW S, NEW s \in Seq(S), NEW x \in S
  PROVE  /\ Append(s, x) \in Seq(S) /\ s \o <<x>> = Append(s, x)
         /\ DOMAIN s = 1..Len(s) /\ Len(s) \in Nat
         /\ DOMAIN Append(s, x) = 1..(Len(s) + 1)
         /\ Len(Append(s, x)) = Len(s) + 1
         /\ \A i \in 1..Len(s) : Append(s, x)[i] = s[i]
         /\ Append(s, x)[Len(s) + 1] = x
OBVIOUS

LEMMA TailFacts ==
  ASSUME NEW S, NEW s \in Seq(S), s # <<>>
  PROVE  /\ Head(s) \in S /\ Head(s) = s[1] /\ Tail(s) \in Seq(S)
         /\ Len(s) \in Nat /\ Len(s) > 0
         /\ DOMAIN s = 1..Len(s) /\ DOMAIN Tail(s) = 1..(Len(s) - 1)
         /\ Len(Tail(s)) = Len(s) - 1
         /\ \A i \in 1..(Len(s) - 1) : Tail(s)[i] = s[i + 1]
OBVIOUS

LEMMA RemoveFacts ==
  ASSUME NEW S, NEW s \in Seq(S), NEW p \in DOMAIN s
  PROVE  /\ SE!RemoveAt(s, p) \in Seq(S)
         /\ Len(s) \in Nat /\ DOMAIN s = 1..Len(s)
         /\ Len(SE!RemoveAt(s, p)) = Len(s) - 1
         /\ DOMAIN SE!RemoveAt(s, p) = 1..(Len(s) - 1)
         /\ \A i \in 1..(Len(s) - 1) :
              SE!RemoveAt(s, p)[i] = IF i < p THEN s[i] ELSE s[i + 1]
<1> DEFINE f == SubSeq(s, 1, p - 1)
           b == SubSeq(s, p + 1, Len(s))
<1>1. p \in 1..Len(s) /\ Len(s) \in Nat
  OBVIOUS
<1>2. f \in Seq(S) /\ Len(f) = p - 1 /\ \A i \in 1..(p - 1) : f[i] = s[i]
  BY <1>1
<1>3. b \in Seq(S) /\ Len(b) = Len(s) - p /\ \A i \in 1..(Len(s) - p) : b[i] = s[p + i]
  BY <1>1
<1>4. SE!RemoveAt(s, p) = f \o b
  BY DEF SE!RemoveAt
<1> HIDE DEF f, b
<1>5. /\ SE!RemoveAt(s, p) \in Seq(S) /\ Len(SE!RemoveAt(s, p)) = Len(s) - 1
      /\ \A i \in 1..(Len(s) - 1) :
           SE!RemoveAt(s, p)[i] = IF i < p THEN s[i] ELSE s[i + 1]
  BY <1>1, <1>2, <1>3, <1>4
<1> QED
  BY <1>1, <1>5, DOMAIN s = 1..Len(s)

-----------------------------------------------------------------------------
(* Types. *)

LEMMA InitTypeOK == ASSUME Init PROVE TypeOK
<1>1. /\ <<>> \in Seq([kind : {"call", "cancel"}, id : Calls])
      /\ <<>> \in Seq([kind : Replies, id : Calls]) /\ <<>> \in Seq(Calls)
  OBVIOUS
<1> QED
  BY <1>1 DEF Init, TypeOK, Answers

LEMMA MessageTypes ==
  ASSUME NEW c \in Calls
  PROVE  /\ \A k \in {"call", "cancel"} : Message(k, c) \in ToWorker
         /\ \A k \in Replies : Message(k, c) \in ToClient
BY DEF Message, ToWorker, ToClient

LEMMA RefuseTypes ==
  ASSUME TypeOK, NEW c \in Calls, NEW why \in Answers, Refuse(c, why)
  PROVE  TypeOK'
BY DEF TypeOK, Refuse, Answer, server, Answers

LEMMA SendTypes ==
  ASSUME TypeOK, NEW f, NEW t \in BOOLEAN, DOMAIN f \subseteq Members,
         \A m \in DOMAIN f : f[m] \in Calls, Send(f, t)
  PROVE  TypeOK'
<1>1. ASSUME NEW m \in Members
      PROVE  toWorker'[m] \in Seq(ToWorker) /\ pending'[m] \subseteq Calls
  <2>1. toWorker[m] \in Seq(ToWorker)
    BY DEF TypeOK, ToWorker
  <2>2. ASSUME m \in DOMAIN f
        PROVE  Append(toWorker[m], Message("call", f[m])) \in Seq(ToWorker)
    BY <2>1, <2>2, MessageTypes
  <2> QED
    BY <2>1, <2>2 DEF Send, TypeOK
<1>2. toWorker' \in [Members -> Seq(ToWorker)] /\ pending' \in [Members -> SUBSET Calls]
  BY <1>1 DEF Send
<1>3. call' \in [Calls -> Answers \cup {"fresh", "pending"}] /\ timed' \subseteq Calls
  BY DEF Send, TypeOK
<1> QED
  BY <1>2, <1>3 DEF Send, TypeOK, server, ToWorker

LEMMA PostTypes ==
  ASSUME TypeOK, NEW m \in Members, NEW c \in Calls, Post(m, Message("cancel", c))
  PROVE  toWorker' \in [Members -> Seq(ToWorker)]
<1>1. toWorker \in [Members -> Seq(ToWorker)]
  BY DEF TypeOK, ToWorker
<1>2. Append(toWorker[m], Message("cancel", c)) \in Seq(ToWorker)
  BY <1>1, MessageTypes
<1> QED
  BY <1>1, <1>2 DEF Post

LEMMA RepliedTypes ==
  ASSUME TypeOK, NEW m \in Members, NEW msgs \in Seq(ToClient), Replied(m, msgs)
  PROVE  toClient' \in [Members -> Seq(ToClient)]
<1>1. toClient \in [Members -> Seq(ToClient)]
  BY DEF TypeOK, ToClient
<1>2. toClient[m] \o msgs \in Seq(ToClient)
  BY <1>1
<1> QED
  BY <1>1, <1>2 DEF Replied

LEMMA TerminateTypes ==
  ASSUME TypeOK, NEW ms \in SUBSET Members, NEW why \in Answers, Terminate(ms, why),
         poolClosed' \in BOOLEAN
  PROVE  TypeOK'
<1>1. /\ <<>> \in Seq([kind : {"call", "cancel"}, id : Calls])
      /\ <<>> \in Seq([kind : Replies, id : Calls]) /\ <<>> \in Seq(Calls)
  OBVIOUS
<1>2. /\ call' \in [Calls -> Answers \cup {"fresh", "pending"}]
      /\ timed' \subseteq Calls /\ cancelled' \subseteq Calls /\ closed' \subseteq Members
  BY DEF Terminate, Answer, TypeOK
<1>3. /\ pending' \in [Members -> SUBSET Calls] /\ abandoned' \in [Members -> SUBSET Calls]
      /\ entry' \in [Members -> {"running", "stuck", "dead"}] /\ told' \subseteq Members
      /\ capacity' \in Capacities
  BY DEF Terminate, TypeOK
<1>4. /\ toWorker' \in [Members -> Seq([kind : {"call", "cancel"}, id : Calls])]
      /\ toClient' \in [Members -> Seq([kind : Replies, id : Calls])]
      /\ work' \in [Members -> Seq(Calls)]
  BY <1>1 DEF Terminate, TypeOK
<1> QED
  BY <1>2, <1>3, <1>4 DEF TypeOK

LEMMA ReceiveTypes ==
  ASSUME TypeOK, NEW m \in Members, Receive(m)
  PROVE  TypeOK'
<1>1. /\ Head(toClient[m]) \in ToClient
      /\ Tail(toClient[m]) \in Seq(ToClient)
  BY TailFacts DEF Receive, TypeOK, ToClient
<1>2. toClient' \in [Members -> Seq([kind : Replies, id : Calls])]
  BY <1>1 DEF Receive, TypeOK, ToClient
<1>3. /\ abandoned' \in [Members -> SUBSET Calls] /\ pending' \in [Members -> SUBSET Calls]
  BY DEF Receive, TypeOK
<1>4. /\ call' \in [Calls -> Answers \cup {"fresh", "pending"}]
      /\ timed' \subseteq Calls /\ cancelled' \subseteq Calls
  BY <1>1 DEF Receive, TypeOK, Answer, ToClient, Answers, Replies
<1> QED
  BY <1>2, <1>3, <1>4 DEF Receive, TypeOK, server

LEMMA ReadTypes ==
  ASSUME TypeOK, NEW m \in Members, Read(m)
  PROVE  TypeOK'
<1> DEFINE message == Head(toWorker[m])
           c == message.id
<1>1. message \in ToWorker /\ Tail(toWorker[m]) \in Seq(ToWorker)
  BY TailFacts DEF Read, TypeOK, ToWorker
<1>2. c \in Calls /\ message.kind \in {"call", "cancel"}
  BY <1>1 DEF ToWorker
<1>3. toWorker' \in [Members -> Seq([kind : {"call", "cancel"}, id : Calls])]
  BY <1>1 DEF Read, TypeOK, ToWorker
<1>4. /\ <<Message("ack", c)>> \in Seq(ToClient) /\ <<Message("refused", c)>> \in Seq(ToClient)
      /\ <<Message("ack", c), Message("failed", c)>> \in Seq(ToClient)
  BY <1>2, MessageTypes DEF Replies
<1> HIDE DEF message, c
<1>5. /\ work' \in [Members -> Seq(Calls)] /\ told' \subseteq Members
      /\ toClient' \in [Members -> Seq(ToClient)]
  <2>1. CASE CancelActive(m, c) \/ CancelUnknown(m, c)
    BY <2>1, <1>4, RepliedTypes DEF CancelActive, CancelUnknown, TypeOK
  <2>2. ASSUME NEW i \in 2..Len(work[m]), CancelQueued(m, i, c)
        PROVE  /\ work' \in [Members -> Seq(Calls)] /\ told' \subseteq Members
               /\ toClient' \in [Members -> Seq(ToClient)]
    <3>1. work[m] \in Seq(Calls) /\ i \in DOMAIN work[m]
      BY DEF TypeOK
    <3>2. SE!RemoveAt(work[m], i) \in Seq(Calls)
      BY <3>1, RemoveFacts
    <3> QED
      BY <2>2, <3>2, <1>4, RepliedTypes DEF CancelQueued, TypeOK
  <2>3. CASE ReadCall(m, c)
    <3>1. Append(work[m], c) \in Seq(Calls)
      BY <1>2 DEF TypeOK
    <3>2. toClient \in [Members -> Seq(ToClient)]
      BY DEF TypeOK, ToClient
    <3> QED
      BY <2>3, <3>1, <3>2, <1>4, RepliedTypes DEF ReadCall, TypeOK
  <2> QED
    BY <2>1, <2>2, <2>3 DEF Read, message, c
<1> QED
  BY <1>3, <1>5 DEF Read, TypeOK, ToClient, client

LEMMA TypesKept ==
  ASSUME TypeOK, [Next]_vars
  PROVE  TypeOK'
<1>1. ASSUME NEW c \in Calls, NEW t \in BOOLEAN, Call(c, t)
      PROVE  TypeOK'
  <2>1. ASSUME NEW why \in Answers, Refuse(c, why)
        PROVE  TypeOK'
    BY <2>1, RefuseTypes
  <2>2. ASSUME NEW m \in Live, Send([n \in {m} |-> c], t)
        PROVE  TypeOK'
    BY <2>2, SendTypes DEF Live
  <2> QED
    BY <1>1, <2>1, <2>2 DEF Call, LeastLoaded, Answers
<1>2. ASSUME NEW t \in BOOLEAN, NEW f \in Assignments, Broadcast(f, t)
      PROVE  TypeOK'
  BY <1>2, SendTypes DEF Broadcast, Assignments, Live
<1>3. ASSUME NEW c \in Calls, BroadcastRefused(c)
      PROVE  TypeOK'
  BY <1>3, RefuseTypes DEF BroadcastRefused, Answers
<1>4. ASSUME NEW m \in Members, NEW c \in Calls, Cancel(m, c)
      PROVE  TypeOK'
  <2>1. toWorker' \in [Members -> Seq(ToWorker)]
    BY <1>4, PostTypes DEF Cancel
  <2> QED
    BY <1>4, <2>1 DEF Cancel, TypeOK, ToWorker, server
<1>5. ASSUME NEW m \in Members, NEW c \in Calls, Timeout(m, c)
      PROVE  TypeOK'
  <2>1. toWorker' \in [Members -> Seq(ToWorker)]
    BY <1>5, PostTypes DEF Timeout
  <2> QED
    BY <1>5, <2>1 DEF Timeout, TypeOK, ToWorker, server, Answer, Answers, GraceFor
<1>6. ASSUME NEW m \in Members, Grace(m) \/ Notice(m)
      PROVE  TypeOK'
  BY <1>6, TerminateTypes DEF Grace, Notice, TypeOK, Answers
<1>7. CASE ClosePool
  BY <1>7, TerminateTypes DEF ClosePool, Live, Answers
<1>8. ASSUME NEW m \in Members, Receive(m) \/ Read(m)
      PROVE  TypeOK'
  BY <1>8, ReceiveTypes, ReadTypes
<1>9. ASSUME NEW m \in Members, NEW how \in {"result", "failed"}, Finish(m, how)
      PROVE  TypeOK'
  <2>1. Head(work[m]) \in Calls /\ Tail(work[m]) \in Seq(Calls)
    BY <1>9, TailFacts DEF Finish, TypeOK
  <2>2. <<Message(how, Head(work[m]))>> \in Seq(ToClient)
    BY <2>1, MessageTypes DEF Replies
  <2>3. toClient' \in [Members -> Seq(ToClient)]
    BY <1>9, <2>2, RepliedTypes DEF Finish
  <2> QED
    BY <1>9, <2>1, <2>3 DEF Finish, TypeOK, ToClient, client
<1>10. ASSUME NEW m \in Members, Stick(m) \/ Resume(m) \/ Die(m)
       PROVE  TypeOK'
  <2>1. <<>> \in Seq(Calls)
    OBVIOUS
  <2> QED
    BY <1>10, <2>1 DEF Stick, Resume, Die, TypeOK, client
<1>11. CASE UNCHANGED vars
  BY <1>11 DEF vars, client, server, TypeOK
<1> QED
  BY <1>1, <1>2, <1>3, <1>4, <1>5, <1>6, <1>7, <1>8, <1>9, <1>10, <1>11 DEF Next

-----------------------------------------------------------------------------
(* The inductive invariant.                                                *)

(* No request is posted twice, none is queued twice, none answered twice.  *)
CallsOnce(m) ==
  \A i, j \in DOMAIN toWorker[m] :
    toWorker[m][i].kind = "call" /\ toWorker[m][j] = toWorker[m][i] => i = j
WorkOnce(m) == \A i, j \in DOMAIN work[m] : work[m][i] = work[m][j] => i = j
AnswersOnce(m) ==
  \A i, j \in DOMAIN toClient[m] :
    toClient[m][i].kind # "ack" /\ IsAnswer(toClient[m][j], toClient[m][i].id) => i = j

(* A cancel follows its call. *)
CallFirst(m) ==
  \A i, j \in DOMAIN toWorker[m] :
    toWorker[m][i].kind = "call" /\ toWorker[m][j] = Message("cancel", toWorker[m][i].id)
      => i < j

OnePlace(m, c) ==
  /\ ~(Unread(m, "call", c) /\ Working(m, c))
  /\ ~(Unread(m, "call", c) /\ Answered(m, c))
  /\ ~(Working(m, c) /\ Answered(m, c))

Sound == \A m \in Members : CallsOnce(m) /\ WorkOnce(m) /\ AnswersOnce(m) /\ CallFirst(m)
Single == \A m \in Members, c \in Calls : OnePlace(m, c)

(* A pending call waits at one member, and is nowhere else. *)
PendingHere ==
  \A m \in Members : \A c \in pending[m] :
    /\ call[c] = "pending"
    /\ \A n \in Members : At(n, c) \/ c \in pending[n] => n = m

(* Only a call that was made is on its way, and only one that waits is cancelled. *)
Known ==
  \A c \in Calls :
    /\ c \in cancelled => call[c] = "pending"
    /\ \A m \in Members : At(m, c) \/ Unread(m, "cancel", c) => call[c] # "fresh"

Present ==
  \A m \in Members : \A c \in pending[m] : entry[m] # "dead" => At(m, c)

(* As AckIsOwed; a stuck loop may run again. *)
Owed ==
  \A m \in Members : entry[m] # "dead" =>
    \A c \in abandoned[m] : Unread(m, "cancel", c) \/ Replying(m, c)

IInv == TypeOK /\ Sound /\ Single /\ PendingHere /\ Known /\ Present /\ Owed /\ CancelReaches

-----------------------------------------------------------------------------
(* What a step on a channel or a queue does to what is in it.              *)

LEMMA Posted ==
  ASSUME TypeOK, NEW m \in Members, NEW x \in ToWorker, toWorker'[m] = Append(toWorker[m], x)
  PROVE  /\ \A k, c : Unread(m, k, c)' <=> Unread(m, k, c) \/ x = Message(k, c)
         /\ CallsOnce(m) /\ (x.kind = "call" => ~Unread(m, "call", x.id)) => CallsOnce(m)'
         /\ CallFirst(m) /\ (x.kind = "call" => ~Unread(m, "cancel", x.id)) => CallFirst(m)'
<1> DEFINE s == toWorker[m]
<1>1. s \in Seq(ToWorker)
  BY DEF TypeOK, ToWorker
<1>2. /\ DOMAIN s = 1..Len(s) /\ Len(s) \in Nat
      /\ DOMAIN toWorker'[m] = 1..(Len(s) + 1)
      /\ \A i \in 1..Len(s) : toWorker'[m][i] = s[i]
      /\ toWorker'[m][Len(s) + 1] = x
  BY <1>1, AppendFacts
<1>3. \A i \in 1..Len(s) : s[i] \in ToWorker
  BY <1>1
<1> HIDE DEF s
<1>4. \A k, c : Unread(m, k, c) <=> \E i \in 1..Len(s) : s[i] = Message(k, c)
  BY <1>2 DEF Unread, s
<1>5. \A k, c : Unread(m, k, c)' <=> Unread(m, k, c) \/ x = Message(k, c)
  BY <1>2, <1>4 DEF Unread
<1>6. ASSUME CallsOnce(m), x.kind = "call" => ~Unread(m, "call", x.id)
      PROVE  CallsOnce(m)'
  <2>1. \A i \in 1..Len(s) : x.kind = "call" => s[i] # x
    BY <1>4, <1>6 DEF Message, ToWorker
  <2> QED
    BY <2>1, <1>2, <1>6 DEF CallsOnce, s
<1>7. ASSUME CallFirst(m), x.kind = "call" => ~Unread(m, "cancel", x.id)
      PROVE  CallFirst(m)'
  <2>1. \A i \in 1..Len(s) : x.kind = "call" => s[i] # Message("cancel", x.id)
    BY <1>4, <1>7
  <2>2. x.kind = "call" => x # Message("cancel", x.id)
    BY DEF Message
  <2> QED
    BY <2>1, <2>2, <1>2, <1>7 DEF CallFirst, s
<1> QED
  BY <1>5, <1>6, <1>7

LEMMA ReadOff ==
  ASSUME TypeOK, NEW m \in Members, toWorker[m] # <<>>, toWorker'[m] = Tail(toWorker[m])
  PROVE  /\ \A k, c : Unread(m, k, c) <=> Unread(m, k, c)' \/ Head(toWorker[m]) = Message(k, c)
         /\ CallsOnce(m) =>
              CallsOnce(m)' /\ \A c : Head(toWorker[m]) = Message("call", c)
                                       => ~Unread(m, "call", c)'
         /\ CallFirst(m) =>
              CallFirst(m)' /\ \A c : Head(toWorker[m]) = Message("cancel", c)
                                       => ~Unread(m, "call", c)
<1> DEFINE s == toWorker[m]
<1>1. s \in Seq(ToWorker)
  BY DEF TypeOK, ToWorker
<1>2. /\ DOMAIN s = 1..Len(s) /\ Len(s) \in Nat /\ Len(s) > 0
      /\ Head(s) = s[1]
      /\ DOMAIN toWorker'[m] = 1..(Len(s) - 1)
      /\ \A i \in 1..(Len(s) - 1) : toWorker'[m][i] = s[i + 1]
  BY <1>1, TailFacts
<1>3. /\ \A i \in 2..Len(s) : i - 1 \in 1..(Len(s) - 1) /\ toWorker'[m][i - 1] = s[i]
      /\ \A i \in 1..(Len(s) - 1) : i + 1 \in 2..Len(s)
  BY <1>2
<1> HIDE DEF s
<1>4. \A k, c : Unread(m, k, c) <=> \E i \in 1..Len(s) : s[i] = Message(k, c)
  BY <1>2 DEF Unread, s
<1>5. ASSUME NEW k, NEW c
      PROVE  Unread(m, k, c)' <=> \E i \in 2..Len(s) : s[i] = Message(k, c)
  <2>1. ASSUME NEW i \in DOMAIN toWorker'[m], toWorker'[m][i] = Message(k, c)
        PROVE  \E j \in 2..Len(s) : s[j] = Message(k, c)
    BY <2>1, <1>2, <1>3
  <2>2. ASSUME NEW j \in 2..Len(s), s[j] = Message(k, c)
        PROVE  \E i \in DOMAIN toWorker'[m] : toWorker'[m][i] = Message(k, c)
    <3>1. j - 1 \in DOMAIN toWorker'[m] /\ toWorker'[m][j - 1] = Message(k, c)
      BY <2>2, <1>2, <1>3
    <3> QED
      BY <3>1
  <2> QED
    BY <2>1, <2>2 DEF Unread
<1>6. \A k, c : Unread(m, k, c) <=> Unread(m, k, c)' \/ Head(s) = Message(k, c)
  BY <1>2, <1>4, <1>5
<1>7. ASSUME CallsOnce(m)
      PROVE  /\ CallsOnce(m)'
             /\ \A c : Head(s) = Message("call", c) => ~Unread(m, "call", c)'
  <2>1. \A i, j \in 1..Len(s) : s[i].kind = "call" /\ s[j] = s[i] => i = j
    BY <1>2, <1>7 DEF CallsOnce, s
  <2>2. CallsOnce(m)'
    BY <2>1, <1>2 DEF CallsOnce
  <2>3. ASSUME NEW c, Head(s) = Message("call", c), NEW i \in 2..Len(s), s[i] = Message("call", c)
        PROVE  FALSE
    BY <2>1, <2>3, <1>2 DEF Message
  <2> QED
    BY <2>2, <2>3, <1>5
<1>8. ASSUME CallFirst(m)
      PROVE  /\ CallFirst(m)'
             /\ \A c : Head(s) = Message("cancel", c) => ~Unread(m, "call", c)
  <2>1. \A i, j \in 1..Len(s) :
          s[i].kind = "call" /\ s[j] = Message("cancel", s[i].id) => i < j
    BY <1>2, <1>8 DEF CallFirst, s
  <2>2. CallFirst(m)'
    BY <2>1, <1>2 DEF CallFirst
  <2>3. ASSUME NEW c, Head(s) = Message("cancel", c), NEW i \in 1..Len(s), s[i] = Message("call", c)
        PROVE  FALSE
    <3>1. s[i].kind = "call" /\ s[i].id = c
      BY <2>3 DEF Message
    <3> QED
      BY <3>1, <2>1, <2>3, <1>2
  <2> QED
    BY <2>2, <2>3, <1>4
<1> QED
  BY <1>6, <1>7, <1>8 DEF s

LEMMA RepliedOne ==
  ASSUME TypeOK, NEW m \in Members, NEW x \in ToClient, toClient'[m] = toClient[m] \o <<x>>
  PROVE  /\ \A c : Replying(m, c)' <=> Replying(m, c) \/ x.id = c
         /\ \A c : Answered(m, c)' <=> Answered(m, c) \/ IsAnswer(x, c)
         /\ AnswersOnce(m) /\ (x.kind # "ack" => ~Answered(m, x.id)) => AnswersOnce(m)'
<1> DEFINE s == toClient[m]
<1>1. s \in Seq(ToClient)
  BY DEF TypeOK, ToClient
<1>2. /\ DOMAIN s = 1..Len(s) /\ Len(s) \in Nat
      /\ DOMAIN toClient'[m] = 1..(Len(s) + 1)
      /\ \A i \in 1..Len(s) : toClient'[m][i] = s[i]
      /\ toClient'[m][Len(s) + 1] = x
  BY <1>1, AppendFacts
<1> HIDE DEF s
<1>3. /\ \A c : Replying(m, c) <=> \E i \in 1..Len(s) : s[i].id = c
      /\ \A c : Answered(m, c) <=> \E i \in 1..Len(s) : IsAnswer(s[i], c)
  BY <1>2 DEF Replying, Answered, s
<1>4. \A c : Replying(m, c)' <=> Replying(m, c) \/ x.id = c
  BY <1>2, <1>3 DEF Replying
<1>5. \A c : Answered(m, c)' <=> Answered(m, c) \/ IsAnswer(x, c)
  BY <1>2, <1>3 DEF Answered
<1>6. ASSUME AnswersOnce(m), x.kind # "ack" => ~Answered(m, x.id)
      PROVE  AnswersOnce(m)'
  <2>1. \A i \in 1..Len(s) : x.kind # "ack" => ~IsAnswer(s[i], x.id)
    BY <1>3, <1>6
  <2>2. \A i \in 1..Len(s) : s[i].kind # "ack" => ~IsAnswer(x, s[i].id)
    BY <2>1 DEF IsAnswer
  <2>3. \A i, j \in 1..Len(s) : s[i].kind # "ack" /\ IsAnswer(s[j], s[i].id) => i = j
    BY <1>2, <1>6 DEF AnswersOnce, s
  <2>4. \A i \in 1..(Len(s) + 1) : i \in 1..Len(s) \/ i = Len(s) + 1
    BY <1>2
  <2> QED
    BY <2>1, <2>2, <2>3, <2>4, <1>2 DEF AnswersOnce
<1> QED
  BY <1>4, <1>5, <1>6

LEMMA RepliedTwo ==
  ASSUME TypeOK, NEW m \in Members, NEW x \in ToClient, NEW y \in ToClient,
         toClient'[m] = toClient[m] \o <<x, y>>, x.kind = "ack"
  PROVE  /\ \A c : Replying(m, c)' <=> Replying(m, c) \/ x.id = c \/ y.id = c
         /\ \A c : Answered(m, c)' <=> Answered(m, c) \/ IsAnswer(y, c)
         /\ AnswersOnce(m) /\ ~Answered(m, y.id) => AnswersOnce(m)'
<1> DEFINE s == toClient[m]
<1>1. s \in Seq(ToClient)
  BY DEF TypeOK, ToClient
<1>2. /\ DOMAIN s = 1..Len(s) /\ Len(s) \in Nat
      /\ DOMAIN toClient'[m] = 1..(Len(s) + 2)
      /\ \A i \in 1..Len(s) : toClient'[m][i] = s[i]
      /\ toClient'[m][Len(s) + 1] = x /\ toClient'[m][Len(s) + 2] = y
  BY <1>1
<1> HIDE DEF s
<1>3. /\ \A c : Replying(m, c) <=> \E i \in 1..Len(s) : s[i].id = c
      /\ \A c : Answered(m, c) <=> \E i \in 1..Len(s) : IsAnswer(s[i], c)
  BY <1>2 DEF Replying, Answered, s
<1>4. /\ \A i \in 1..(Len(s) + 2) : i \in 1..Len(s) \/ i = Len(s) + 1 \/ i = Len(s) + 2
      /\ \A i \in 1..Len(s) : i \in 1..(Len(s) + 2)
      /\ Len(s) + 1 \in 1..(Len(s) + 2) /\ Len(s) + 2 \in 1..(Len(s) + 2)
  BY <1>2
<1>5. \A c : Replying(m, c)' <=> Replying(m, c) \/ x.id = c \/ y.id = c
  BY <1>2, <1>3, <1>4 DEF Replying
<1>6. \A c : Answered(m, c)' <=> Answered(m, c) \/ IsAnswer(y, c)
  <2>1. \A c : ~IsAnswer(x, c)
    BY DEF IsAnswer
  <2> QED
    BY <2>1, <1>2, <1>3, <1>4 DEF Answered
<1>7. ASSUME AnswersOnce(m), ~Answered(m, y.id)
      PROVE  AnswersOnce(m)'
  <2>1. \A i \in 1..Len(s) : ~IsAnswer(s[i], y.id)
    BY <1>3, <1>7
  <2>2. \A i \in 1..Len(s) : s[i].kind # "ack" => ~IsAnswer(y, s[i].id)
    BY <2>1 DEF IsAnswer
  <2>4. \A i, j \in 1..Len(s) : s[i].kind # "ack" /\ IsAnswer(s[j], s[i].id) => i = j
    BY <1>2, <1>7 DEF AnswersOnce, s
  <2>5. \A c : ~IsAnswer(x, c)
    BY DEF IsAnswer
  <2> QED
    BY <2>1, <2>2, <2>4, <2>5, <1>2, <1>4 DEF AnswersOnce
<1> QED
  BY <1>5, <1>6, <1>7

LEMMA Received ==
  ASSUME TypeOK, NEW m \in Members, toClient[m] # <<>>, toClient'[m] = Tail(toClient[m])
  PROVE  /\ \A c : Replying(m, c) <=> Replying(m, c)' \/ Head(toClient[m]).id = c
         /\ \A c : Answered(m, c) <=> Answered(m, c)' \/ IsAnswer(Head(toClient[m]), c)
         /\ AnswersOnce(m) => AnswersOnce(m)'
<1> DEFINE s == toClient[m]
<1>1. s \in Seq(ToClient)
  BY DEF TypeOK, ToClient
<1>2. /\ DOMAIN s = 1..Len(s) /\ Len(s) \in Nat /\ Len(s) > 0
      /\ Head(s) = s[1]
      /\ DOMAIN toClient'[m] = 1..(Len(s) - 1)
      /\ \A i \in 1..(Len(s) - 1) : toClient'[m][i] = s[i + 1]
  BY <1>1, TailFacts
<1>3. /\ \A i \in 2..Len(s) : i - 1 \in 1..(Len(s) - 1) /\ toClient'[m][i - 1] = s[i]
      /\ \A i \in 1..(Len(s) - 1) : i + 1 \in 2..Len(s)
      /\ \A i \in 1..Len(s) : i = 1 \/ i \in 2..Len(s)
      /\ 1 \in 1..Len(s) /\ \A i \in 2..Len(s) : i \in 1..Len(s)
  BY <1>2
<1> HIDE DEF s
<1>4. ASSUME NEW c
      PROVE  /\ Replying(m, c) <=> Replying(m, c)' \/ Head(s).id = c
             /\ Answered(m, c) <=> Answered(m, c)' \/ IsAnswer(Head(s), c)
  <2>1. /\ Replying(m, c)' <=> \E i \in 2..Len(s) : s[i].id = c
        /\ Answered(m, c)' <=> \E i \in 2..Len(s) : IsAnswer(s[i], c)
    <3>1. ASSUME NEW i \in DOMAIN toClient'[m]
          PROVE  \E j \in 2..Len(s) : s[j] = toClient'[m][i]
      BY <1>2, <1>3
    <3>2. ASSUME NEW j \in 2..Len(s)
          PROVE  \E i \in DOMAIN toClient'[m] : toClient'[m][i] = s[j]
      BY <1>2, <1>3
    <3> QED
      BY <3>1, <3>2 DEF Replying, Answered
  <2>2. /\ Replying(m, c) <=> \E i \in 1..Len(s) : s[i].id = c
        /\ Answered(m, c) <=> \E i \in 1..Len(s) : IsAnswer(s[i], c)
    BY <1>2 DEF Replying, Answered, s
  <2> QED
    BY <2>1, <2>2, <1>2, <1>3
<1>5. ASSUME AnswersOnce(m)
      PROVE  AnswersOnce(m)'
  <2>1. \A i, j \in 1..Len(s) : s[i].kind # "ack" /\ IsAnswer(s[j], s[i].id) => i = j
    BY <1>2, <1>5 DEF AnswersOnce, s
  <2> QED
    BY <2>1, <1>2 DEF AnswersOnce
<1> QED
  BY <1>4, <1>5 DEF s

LEMMA Enqueued ==
  ASSUME TypeOK, NEW m \in Members, NEW x \in Calls, work'[m] = Append(work[m], x)
  PROVE  /\ \A c : Working(m, c)' <=> Working(m, c) \/ x = c
         /\ \A c : Active(m, c) => Active(m, c)'
         /\ WorkOnce(m) /\ ~Working(m, x) => WorkOnce(m)'
<1> DEFINE s == work[m]
<1>1. s \in Seq(Calls)
  BY DEF TypeOK
<1>2. /\ DOMAIN s = 1..Len(s) /\ Len(s) \in Nat
      /\ DOMAIN work'[m] = 1..(Len(s) + 1)
      /\ \A i \in 1..Len(s) : work'[m][i] = s[i]
      /\ work'[m][Len(s) + 1] = x
  BY <1>1, AppendFacts
<1>3. \A c : Active(m, c) => Active(m, c)'
  BY <1>1 DEF Active
<1> HIDE DEF s
<1>4. \A c : Working(m, c) <=> \E i \in 1..Len(s) : s[i] = c
  BY <1>2 DEF Working, s
<1>5. \A c : Working(m, c)' <=> Working(m, c) \/ x = c
  BY <1>2, <1>4 DEF Working
<1>6. ASSUME WorkOnce(m), ~Working(m, x)
      PROVE  WorkOnce(m)'
  BY <1>2, <1>4, <1>6 DEF WorkOnce, s
<1> QED
  BY <1>3, <1>5, <1>6

(* One call leaves the queue, from any place in it. *)
LEMMA Removed ==
  ASSUME TypeOK, NEW m \in Members, NEW p \in DOMAIN work[m],
         work'[m] = SE!RemoveAt(work[m], p), WorkOnce(m)
  PROVE  /\ \A c : Working(m, c)' <=> Working(m, c) /\ c # work[m][p]
         /\ p # 1 => \A c : Active(m, c) => Active(m, c)'
         /\ WorkOnce(m)'
<1> DEFINE s == work[m]
<1>1. s \in Seq(Calls)
  BY DEF TypeOK
<1>2. /\ DOMAIN s = 1..Len(s) /\ Len(s) \in Nat
      /\ work'[m] \in Seq(Calls) /\ Len(work'[m]) = Len(s) - 1
      /\ DOMAIN work'[m] = 1..(Len(s) - 1)
      /\ \A i \in 1..(Len(s) - 1) : work'[m][i] = IF i < p THEN s[i] ELSE s[i + 1]
  BY <1>1, RemoveFacts
<1>9. p \in 1..Len(s)
  BY <1>2
<1>3. ASSUME p # 1, NEW c, Active(m, c)
      PROVE  Active(m, c)'
  <2> HIDE DEF s
  <2>1. 1 \in 1..(Len(s) - 1) /\ work'[m][1] = s[1]
    <3>1. 1 < p /\ p <= Len(s)
      BY <1>2, <1>3, <1>9
    <3>2. 1 \in 1..(Len(s) - 1)
      BY <3>1, <1>2, <1>9
    <3>3. work'[m][1] = IF 1 < p THEN s[1] ELSE s[1 + 1]
      BY <3>2, <1>2, Zenon
    <3> QED
      BY <3>1, <3>2, <3>3
  <2>2. Head(s) = s[1]
    BY <1>1
  <2>3. work'[m] # <<>>
    BY <2>1, <1>2
  <2>4. Head(work'[m]) = work'[m][1]
    BY <2>3, <1>2, TailFacts
  <2> QED
    BY <2>1, <2>2, <2>3, <2>4, <1>3 DEF Active, s
<1> HIDE DEF s
<1>4. \A c : Working(m, c) <=> \E i \in 1..Len(s) : s[i] = c
  BY <1>2 DEF Working, s
<1>5. \A i, j \in 1..Len(s) : s[i] = s[j] => i = j
  BY <1>2 DEF WorkOnce, s
<1>6. WorkOnce(m)'
  <2>1. ASSUME NEW i \in 1..(Len(s) - 1), NEW j \in 1..(Len(s) - 1),
               work'[m][i] = work'[m][j]
        PROVE  i = j
    <3> DEFINE from(k) == IF k < p THEN k ELSE k + 1
    <3>1. from(i) \in 1..Len(s) /\ from(j) \in 1..Len(s)
      BY <1>2, <1>9
    <3>2. s[from(i)] = s[from(j)]
      BY <2>1, <1>2
    <3>3. from(i) = from(j)
      BY <3>1, <3>2, <1>5
    <3> QED
      BY <3>3, <1>2, <1>9
  <2> QED
    BY <2>1, <1>2 DEF WorkOnce
<1>7. ASSUME NEW c
      PROVE  Working(m, c)' <=> Working(m, c) /\ c # s[p]
  <2>1. ASSUME NEW i \in 1..(Len(s) - 1), work'[m][i] = c
        PROVE  \E j \in 1..Len(s) : s[j] = c /\ j # p
    BY <2>1, <1>2, <1>9
  <2>2. ASSUME NEW j \in 1..Len(s), s[j] = c, j # p
        PROVE  \E i \in 1..(Len(s) - 1) : work'[m][i] = c
    <3>1. CASE j < p
      BY <3>1, <2>2, <1>2, <1>9
    <3>2. CASE j > p
      <4>1. j - 1 \in 1..(Len(s) - 1) /\ ~(j - 1 < p) /\ (j - 1) + 1 = j
        BY <3>2, <1>2, <1>9
      <4> QED
        BY <4>1, <2>2, <1>2
    <3> QED
      BY <3>1, <3>2, <2>2, <1>2, <1>9
  <2> QED
    BY <2>1, <2>2, <1>2, <1>4, <1>5, <1>9 DEF Working
<1> QED
  BY <1>3, <1>6, <1>7 DEF s

LEMMA Ended ==
  ASSUME TypeOK, NEW m \in Members, work[m] # <<>>, work'[m] = Tail(work[m]), WorkOnce(m)
  PROVE  /\ \A c : Working(m, c)' <=> Working(m, c) /\ c # Head(work[m])
         /\ WorkOnce(m)' /\ Working(m, Head(work[m]))
<1> DEFINE s == work[m]
<1>1. s \in Seq(Calls)
  BY DEF TypeOK
<1>2. /\ DOMAIN s = 1..Len(s) /\ Len(s) \in Nat /\ Len(s) > 0 /\ Head(s) = s[1]
      /\ DOMAIN work'[m] = 1..(Len(s) - 1)
      /\ \A i \in 1..(Len(s) - 1) : work'[m][i] = s[i + 1]
  BY <1>1, TailFacts
<1>3. /\ \A i \in 2..Len(s) : i - 1 \in 1..(Len(s) - 1) /\ work'[m][i - 1] = s[i]
      /\ \A i \in 1..(Len(s) - 1) : i + 1 \in 2..Len(s)
  BY <1>2
<1> HIDE DEF s
<1>4. \A c : Working(m, c) <=> \E i \in 1..Len(s) : s[i] = c
  BY <1>2 DEF Working, s
<1>5. \A i, j \in 1..Len(s) : s[i] = s[j] => i = j
  BY <1>2 DEF WorkOnce, s
<1>6. WorkOnce(m)'
  BY <1>2, <1>5 DEF WorkOnce
<1>7. ASSUME NEW c
      PROVE  Working(m, c)' <=> Working(m, c) /\ c # Head(s)
  <2>1. ASSUME NEW i \in 1..(Len(s) - 1), work'[m][i] = c
        PROVE  \E j \in 2..Len(s) : s[j] = c
    BY <2>1, <1>2, <1>3
  <2>2. ASSUME NEW j \in 2..Len(s), s[j] = c
        PROVE  \E i \in 1..(Len(s) - 1) : work'[m][i] = c
    BY <2>2, <1>2, <1>3
  <2>3. Working(m, c)' <=> \E j \in 2..Len(s) : s[j] = c
    BY <2>1, <2>2, <1>2 DEF Working
  <2>4. Working(m, c) /\ c # Head(s) <=> \E j \in 2..Len(s) : s[j] = c
    <3>1. \A j \in 1..Len(s) : j = 1 \/ j \in 2..Len(s)
      BY <1>2
    <3>2. 1 \in 1..Len(s) /\ \A j \in 2..Len(s) : j \in 1..Len(s) /\ j # 1
      BY <1>2
    <3> QED
      BY <3>1, <3>2, <1>2, <1>4, <1>5
  <2> QED
    BY <2>3, <2>4
<1>8. Working(m, Head(s))
  BY <1>2, <1>4
<1> QED
  BY <1>6, <1>7, <1>8 DEF s

LEMMA SameToWorker ==
  ASSUME NEW m \in Members, toWorker'[m] = toWorker[m]
  PROVE  /\ \A k, c : Unread(m, k, c)' <=> Unread(m, k, c)
         /\ CallsOnce(m)' <=> CallsOnce(m)
         /\ CallFirst(m)' <=> CallFirst(m)
BY DEF Unread, CallsOnce, CallFirst

LEMMA SameToClient ==
  ASSUME NEW m \in Members, toClient'[m] = toClient[m]
  PROVE  /\ \A c : Replying(m, c)' <=> Replying(m, c)
         /\ \A c : Answered(m, c)' <=> Answered(m, c)
         /\ AnswersOnce(m)' <=> AnswersOnce(m)
BY DEF Replying, Answered, AnswersOnce

LEMMA SameWork ==
  ASSUME NEW m \in Members, work'[m] = work[m]
  PROVE  /\ \A c : Working(m, c)' <=> Working(m, c)
         /\ \A c : Active(m, c)' <=> Active(m, c)
         /\ WorkOnce(m)' <=> WorkOnce(m)
BY DEF Working, Active, WorkOnce

-----------------------------------------------------------------------------
(* The steps of a Worker move a call on from place to place and take a     *)
(* cancel to a handler or to a reply; nothing new turns up.                *)

Held(m, c) == Unread(m, "call", c) \/ Working(m, c)
Reached(m, c) == Unread(m, "cancel", c) \/ (Active(m, c) /\ m \in told)

SoundAt(m) ==
  /\ CallsOnce(m) /\ WorkOnce(m) /\ AnswersOnce(m) /\ CallFirst(m)
  /\ \A c \in Calls : OnePlace(m, c)

MovesOn(m) ==
  /\ SoundAt(m)'
  /\ entry'[m] # "dead" => entry[m] # "dead"
  /\ \A c \in Calls :
       /\ At(m, c)' => At(m, c)
       /\ Unread(m, "cancel", c)' => Unread(m, "cancel", c)
       /\ entry'[m] # "dead" =>
            /\ At(m, c) => At(m, c)'
            /\ Unread(m, "cancel", c) \/ Replying(m, c)
                 => Unread(m, "cancel", c)' \/ Replying(m, c)'
            /\ Held(m, c)' => Held(m, c) /\ (Reached(m, c) => Reached(m, c)')

LEMMA WorkerStep ==
  ASSUME IInv, TypeOK', UNCHANGED client, \A m \in Members : MovesOn(m)
  PROVE  IInv'
<1>1. Sound' /\ Single'
  BY DEF MovesOn, SoundAt, Sound, Single
<1>2. call' = call /\ pending' = pending /\ abandoned' = abandoned /\ cancelled' = cancelled
  BY DEF client
<1>3. \A m \in Members, c \in Calls :
        /\ At(m, c)' => At(m, c)
        /\ Unread(m, "cancel", c)' => Unread(m, "cancel", c)
  BY DEF MovesOn
<1>4. \A m \in Members : pending[m] \subseteq Calls /\ abandoned[m] \subseteq Calls
  BY DEF IInv, TypeOK
<1>5. PendingHere'
  BY <1>2, <1>3, <1>4 DEF IInv, PendingHere
<1>6. Known'
  BY <1>2, <1>3 DEF IInv, Known
<1>7. Present'
  <2>1. ASSUME NEW m \in Members, NEW c \in pending[m], entry'[m] # "dead"
        PROVE  At(m, c)'
    BY <2>1, <1>4 DEF IInv, Present, MovesOn
  <2> QED
    BY <2>1, <1>2 DEF Present
<1>8. Owed'
  <2>1. ASSUME NEW m \in Members, entry'[m] # "dead", NEW c \in abandoned[m]
        PROVE  Unread(m, "cancel", c)' \/ Replying(m, c)'
    BY <2>1, <1>4 DEF IInv, Owed, MovesOn
  <2> QED
    BY <2>1, <1>2 DEF Owed
<1>9. CancelReaches'
  <2>1. ASSUME NEW m \in Members, NEW c \in Calls, c \in cancelled \/ call[c] = "timeout",
               Held(m, c)', entry'[m] # "dead"
        PROVE  Reached(m, c)'
    <3>1. Held(m, c) /\ entry[m] # "dead"
      BY <2>1 DEF MovesOn
    <3>2. Reached(m, c)
      BY <2>1, <3>1 DEF IInv, CancelReaches, Held, Reached
    <3> QED
      BY <2>1, <3>2 DEF MovesOn
  <2> QED
    BY <2>1, <1>2 DEF CancelReaches, Held, Reached
<1> QED
  BY <1>1, <1>5, <1>6, <1>7, <1>8, <1>9 DEF IInv

SameAt(m) ==
  /\ toWorker'[m] = toWorker[m] /\ toClient'[m] = toClient[m] /\ work'[m] = work[m]
  /\ entry'[m] = entry[m] /\ (m \in told' <=> m \in told)

LEMMA Unmoved ==
  ASSUME IInv, NEW m \in Members, SameAt(m)
  PROVE  MovesOn(m)
<1>1. SoundAt(m)
  BY DEF IInv, Sound, Single, SoundAt
<1>2. /\ \A c : Unread(m, "call", c)' <=> Unread(m, "call", c)
      /\ \A c : Unread(m, "cancel", c)' <=> Unread(m, "cancel", c)
      /\ CallsOnce(m)' <=> CallsOnce(m)
      /\ CallFirst(m)' <=> CallFirst(m)
  BY SameToWorker DEF SameAt
<1>3. /\ \A c : Replying(m, c)' <=> Replying(m, c)
      /\ \A c : Answered(m, c)' <=> Answered(m, c)
      /\ AnswersOnce(m)' <=> AnswersOnce(m)
  BY SameToClient DEF SameAt
<1>4. /\ \A c : Working(m, c)' <=> Working(m, c)
      /\ \A c : Active(m, c)' <=> Active(m, c)
      /\ WorkOnce(m)' <=> WorkOnce(m)
  BY SameWork DEF SameAt
<1>5. SoundAt(m)'
  BY <1>1, <1>2, <1>3, <1>4 DEF SoundAt, OnePlace
<1> QED
  BY <1>2, <1>3, <1>4, <1>5 DEF MovesOn, SameAt, At, Held, Reached

(* The message an entry reads. *)
LEMMA HeadMessage ==
  ASSUME TypeOK, NEW m \in Members, toWorker[m] # <<>>
  PROVE  /\ Head(toWorker[m]).id \in Calls
         /\ Head(toWorker[m]).kind \in {"call", "cancel"}
         /\ Head(toWorker[m]) = Message(Head(toWorker[m]).kind, Head(toWorker[m]).id)
<1>1. Head(toWorker[m]) \in ToWorker
  BY TailFacts DEF TypeOK, ToWorker
<1> QED
  BY <1>1 DEF ToWorker, Message

(* An entry that reads a cancel: what every way to treat it has in common. *)
LEMMA ReadsCancel ==
  ASSUME IInv, NEW m \in Members, NEW c \in Calls, toWorker[m] # <<>>,
         Head(toWorker[m]) = Message("cancel", c), toWorker'[m] = Tail(toWorker[m])
  PROVE  /\ CallsOnce(m)' /\ CallFirst(m)' /\ ~Unread(m, "call", c)
         /\ \A d : Unread(m, "call", d)' <=> Unread(m, "call", d)
         /\ \A d : Unread(m, "cancel", d) <=> Unread(m, "cancel", d)' \/ d = c
<1>1. CallsOnce(m) /\ CallFirst(m) /\ TypeOK
  BY DEF IInv, Sound
<1>2. \A d : Head(toWorker[m]) # Message("call", d)
  BY DEF Message
<1>3. \A d : Head(toWorker[m]) = Message("cancel", d) <=> d = c
  BY DEF Message
<1> QED
  BY <1>1, <1>2, <1>3, ReadOff

LEMMA CancelActiveMoves ==
  ASSUME IInv, NEW m \in Members, NEW c \in Calls, toWorker[m] # <<>>,
         Head(toWorker[m]) = Message("cancel", c), toWorker'[m] = Tail(toWorker[m]),
         CancelActive(m, c), entry'[m] = entry[m]
  PROVE  MovesOn(m)
<1>1. SoundAt(m) /\ TypeOK
  BY DEF IInv, Sound, Single, SoundAt
<1>2. /\ CallsOnce(m)' /\ CallFirst(m)' /\ ~Unread(m, "call", c)
      /\ \A d : Unread(m, "call", d)' <=> Unread(m, "call", d)
      /\ \A d : Unread(m, "cancel", d) <=> Unread(m, "cancel", d)' \/ d = c
  BY ReadsCancel
<1>3. /\ Message("ack", c) \in ToClient /\ Message("ack", c).id = c
      /\ Message("ack", c).kind = "ack"
  BY MessageTypes DEF Replies, Message
<1>4. toClient'[m] = toClient[m] \o <<Message("ack", c)>>
  BY DEF CancelActive, Replied, IInv, TypeOK
<1>5. /\ \A d : Replying(m, d)' <=> Replying(m, d) \/ d = c
      /\ \A d : Answered(m, d)' <=> Answered(m, d)
      /\ AnswersOnce(m)'
  BY <1>1, <1>3, <1>4, RepliedOne DEF SoundAt, IsAnswer
<1>6. /\ \A d : Working(m, d)' <=> Working(m, d)
      /\ \A d : Active(m, d)' <=> Active(m, d)
      /\ WorkOnce(m)'
  BY <1>1, SameWork DEF SoundAt, CancelActive
<1>7. Active(m, c) /\ m \in told' /\ (m \in told => m \in told')
  BY DEF CancelActive
<1>8. SoundAt(m)'
  BY <1>1, <1>2, <1>5, <1>6 DEF SoundAt, OnePlace
<1> QED
  BY <1>2, <1>5, <1>6, <1>7, <1>8 DEF MovesOn, At, Held, Reached

LEMMA CancelUnknownMoves ==
  ASSUME IInv, NEW m \in Members, NEW c \in Calls, toWorker[m] # <<>>,
         Head(toWorker[m]) = Message("cancel", c), toWorker'[m] = Tail(toWorker[m]),
         CancelUnknown(m, c), entry'[m] = entry[m]
  PROVE  MovesOn(m)
<1>1. SoundAt(m) /\ TypeOK
  BY DEF IInv, Sound, Single, SoundAt
<1>2. /\ CallsOnce(m)' /\ CallFirst(m)' /\ ~Unread(m, "call", c)
      /\ \A d : Unread(m, "call", d)' <=> Unread(m, "call", d)
      /\ \A d : Unread(m, "cancel", d) <=> Unread(m, "cancel", d)' \/ d = c
  BY ReadsCancel
<1>3. /\ Message("ack", c) \in ToClient /\ Message("ack", c).id = c
      /\ Message("ack", c).kind = "ack"
  BY MessageTypes DEF Replies, Message
<1>4. toClient'[m] = toClient[m] \o <<Message("ack", c)>>
  BY DEF CancelUnknown, Replied, IInv, TypeOK
<1>5. /\ \A d : Replying(m, d)' <=> Replying(m, d) \/ d = c
      /\ \A d : Answered(m, d)' <=> Answered(m, d)
      /\ AnswersOnce(m)'
  BY <1>1, <1>3, <1>4, RepliedOne DEF SoundAt, IsAnswer
<1>6. /\ \A d : Working(m, d)' <=> Working(m, d)
      /\ \A d : Active(m, d)' <=> Active(m, d)
      /\ WorkOnce(m)'
  BY <1>1, SameWork DEF SoundAt, CancelUnknown
<1>7. ~Working(m, c) /\ told' = told
  BY DEF CancelUnknown
<1>8. SoundAt(m)'
  BY <1>1, <1>2, <1>5, <1>6 DEF SoundAt, OnePlace
<1> QED
  BY <1>2, <1>5, <1>6, <1>7, <1>8 DEF MovesOn, At, Held, Reached

LEMMA CancelQueuedMoves ==
  ASSUME IInv, NEW m \in Members, NEW c \in Calls, toWorker[m] # <<>>,
         Head(toWorker[m]) = Message("cancel", c), toWorker'[m] = Tail(toWorker[m]),
         NEW i \in 2..Len(work[m]), work[m][i] = c, CancelQueued(m, i, c),
         entry'[m] = entry[m]
  PROVE  MovesOn(m)
<1>1. SoundAt(m) /\ TypeOK
  BY DEF IInv, Sound, Single, SoundAt
<1>2. /\ CallsOnce(m)' /\ CallFirst(m)' /\ ~Unread(m, "call", c)
      /\ \A d : Unread(m, "call", d)' <=> Unread(m, "call", d)
      /\ \A d : Unread(m, "cancel", d) <=> Unread(m, "cancel", d)' \/ d = c
  BY ReadsCancel
<1>3. i \in DOMAIN work[m] /\ i # 1
  BY <1>1 DEF TypeOK
<1>4. work'[m] = SE!RemoveAt(work[m], i)
  BY <1>1 DEF CancelQueued, TypeOK
<1>5. /\ \A d : Working(m, d)' <=> Working(m, d) /\ d # c
      /\ \A d : Active(m, d) => Active(m, d)'
      /\ WorkOnce(m)' /\ Working(m, c)
  <2>1. Working(m, c)
    BY <1>3 DEF Working
  <2> QED
    BY <2>1, <1>1, <1>3, <1>4, Removed DEF SoundAt
<1>6. /\ Message("ack", c) \in ToClient /\ Message("failed", c) \in ToClient
      /\ Message("ack", c).kind = "ack" /\ Message("failed", c).kind # "ack"
      /\ Message("ack", c).id = c /\ Message("failed", c).id = c
  BY MessageTypes DEF Replies, Message
<1>7. toClient'[m] = toClient[m] \o <<Message("ack", c), Message("failed", c)>>
  BY <1>1 DEF CancelQueued, Replied, TypeOK
<1>8. ~Answered(m, c)
  BY <1>1, <1>5 DEF SoundAt, OnePlace
<1>9. /\ \A d : Replying(m, d)' <=> Replying(m, d) \/ d = c
      /\ \A d : Answered(m, d)' <=> Answered(m, d) \/ d = c
      /\ AnswersOnce(m)'
  <2>1. \A d : IsAnswer(Message("failed", c), d) <=> d = c
    BY <1>6 DEF IsAnswer
  <2> QED
    BY <2>1, <1>1, <1>6, <1>7, <1>8, RepliedTwo DEF SoundAt
<1>10. SoundAt(m)'
  BY <1>1, <1>2, <1>5, <1>9 DEF SoundAt, OnePlace
<1>11. told' = told
  BY DEF CancelQueued
<1> QED
  BY <1>2, <1>5, <1>9, <1>10, <1>11 DEF MovesOn, At, Held, Reached

LEMMA ReadCallMoves ==
  ASSUME IInv, NEW m \in Members, NEW c \in Calls, toWorker[m] # <<>>,
         Head(toWorker[m]) = Message("call", c), toWorker'[m] = Tail(toWorker[m]),
         ReadCall(m, c), entry'[m] = entry[m]
  PROVE  MovesOn(m)
<1>1. SoundAt(m) /\ TypeOK
  BY DEF IInv, Sound, Single, SoundAt
<1>2. /\ CallsOnce(m)' /\ CallFirst(m)' /\ ~Unread(m, "call", c)' /\ Unread(m, "call", c)
      /\ \A d : Unread(m, "call", d) <=> Unread(m, "call", d)' \/ d = c
      /\ \A d : Unread(m, "cancel", d)' <=> Unread(m, "cancel", d)
  <2>1. \A d : Head(toWorker[m]) # Message("cancel", d)
    BY DEF Message
  <2>2. \A d : Head(toWorker[m]) = Message("call", d) <=> d = c
    BY DEF Message
  <2> QED
    BY <1>1, <2>1, <2>2, ReadOff DEF SoundAt
<1>3. ~Working(m, c) /\ ~Answered(m, c)
  BY <1>1, <1>2 DEF SoundAt, OnePlace
<1>4. told' = told
  BY DEF ReadCall
<1>5. CASE work' = work /\ Replied(m, <<Message("refused", c)>>)
  <2>1. /\ Message("refused", c) \in ToClient /\ Message("refused", c).id = c
        /\ Message("refused", c).kind # "ack"
    BY MessageTypes DEF Replies, Message
  <2>2. toClient'[m] = toClient[m] \o <<Message("refused", c)>>
    BY <1>1, <1>5 DEF Replied, TypeOK
  <2>3. /\ \A d : Replying(m, d)' <=> Replying(m, d) \/ d = c
        /\ \A d : Answered(m, d)' <=> Answered(m, d) \/ d = c
        /\ AnswersOnce(m)'
    <3>1. \A d : IsAnswer(Message("refused", c), d) <=> d = c
      BY <2>1 DEF IsAnswer
    <3> QED
      BY <3>1, <2>1, <2>2, <1>1, <1>3, RepliedOne DEF SoundAt
  <2>4. /\ \A d : Working(m, d)' <=> Working(m, d)
        /\ \A d : Active(m, d)' <=> Active(m, d)
        /\ WorkOnce(m)'
    BY <1>1, <1>5, SameWork DEF SoundAt
  <2>5. SoundAt(m)'
    BY <1>1, <1>2, <1>3, <2>3, <2>4 DEF SoundAt, OnePlace
  <2> QED
    BY <1>2, <1>4, <2>3, <2>4, <2>5 DEF MovesOn, At, Held, Reached
<1>6. CASE work' = [work EXCEPT ![m] = Append(@, c)] /\ toClient' = toClient
  <2>1. work'[m] = Append(work[m], c)
    BY <1>1, <1>6 DEF TypeOK
  <2>2. /\ \A d : Working(m, d)' <=> Working(m, d) \/ d = c
        /\ \A d : Active(m, d) => Active(m, d)'
        /\ WorkOnce(m)'
    BY <1>1, <1>3, <2>1, Enqueued DEF SoundAt
  <2>3. /\ \A d : Replying(m, d)' <=> Replying(m, d)
        /\ \A d : Answered(m, d)' <=> Answered(m, d)
        /\ AnswersOnce(m)'
    BY <1>1, <1>6, SameToClient DEF SoundAt
  <2>4. SoundAt(m)'
    BY <1>1, <1>2, <1>3, <2>2, <2>3 DEF SoundAt, OnePlace
  <2> QED
    BY <1>2, <1>4, <2>2, <2>3, <2>4 DEF MovesOn, At, Held, Reached
<1> QED
  BY <1>5, <1>6 DEF ReadCall

LEMMA FinishMoves ==
  ASSUME IInv, NEW m \in Members, NEW how \in {"result", "failed"}, Finish(m, how)
  PROVE  MovesOn(m)
<1> DEFINE c == Head(work[m])
<1>1. SoundAt(m) /\ TypeOK
  BY DEF IInv, Sound, Single, SoundAt
<1>2. work[m] # <<>> /\ work'[m] = Tail(work[m])
  BY <1>1 DEF Finish, TypeOK
<1>3. c \in Calls
  BY <1>1, <1>2, TailFacts DEF TypeOK
<1>4. toClient'[m] = toClient[m] \o <<Message(how, c)>>
  BY <1>1 DEF Finish, Replied, TypeOK
<1>5. \A d : Active(m, d) => d = c
  BY DEF Active
<1>6. toWorker' = toWorker /\ entry' = entry
  BY DEF Finish
<1> HIDE DEF c
<1>7. /\ \A d : Working(m, d)' <=> Working(m, d) /\ d # c
      /\ WorkOnce(m)' /\ Working(m, c)
  BY <1>1, <1>2, Ended DEF SoundAt, c
<1>8. ~Unread(m, "call", c) /\ ~Answered(m, c)
  BY <1>1, <1>3, <1>7 DEF SoundAt, OnePlace
<1>9. /\ Message(how, c) \in ToClient /\ Message(how, c).id = c /\ Message(how, c).kind # "ack"
  BY <1>3, MessageTypes DEF Replies, Message
<1>10. /\ \A d : Replying(m, d)' <=> Replying(m, d) \/ d = c
       /\ \A d : Answered(m, d)' <=> Answered(m, d) \/ d = c
       /\ AnswersOnce(m)'
  <2>1. \A d : IsAnswer(Message(how, c), d) <=> d = c
    BY <1>9 DEF IsAnswer
  <2> QED
    BY <2>1, <1>1, <1>4, <1>8, <1>9, RepliedOne DEF SoundAt
<1>11. /\ \A d : Unread(m, "call", d)' <=> Unread(m, "call", d)
       /\ \A d : Unread(m, "cancel", d)' <=> Unread(m, "cancel", d)
       /\ CallsOnce(m)' /\ CallFirst(m)'
  BY <1>1, <1>6, SameToWorker DEF SoundAt
<1>12. SoundAt(m)'
  BY <1>1, <1>7, <1>8, <1>10, <1>11 DEF SoundAt, OnePlace
<1> QED
  BY <1>5, <1>6, <1>7, <1>8, <1>10, <1>11, <1>12 DEF MovesOn, At, Held, Reached

-----------------------------------------------------------------------------
(* The steps of the calling side.                                          *)

(* Nothing happens on the worker's side of m. *)
LEMMA SameAnswers ==
  ASSUME NEW m \in Members, toClient'[m] = toClient[m], work'[m] = work[m]
  PROVE  /\ \A c : Replying(m, c)' <=> Replying(m, c)
         /\ \A c : Answered(m, c)' <=> Answered(m, c)
         /\ \A c : Working(m, c)' <=> Working(m, c)
         /\ \A c : Active(m, c)' <=> Active(m, c)
         /\ AnswersOnce(m)' <=> AnswersOnce(m)
         /\ WorkOnce(m)' <=> WorkOnce(m)
BY SameToClient, SameWork

LEMMA RefuseStep ==
  ASSUME IInv, TypeOK', NEW c \in Calls, call[c] = "fresh",
         NEW why \in {"closed", "crashed", "full"}, Refuse(c, why)
  PROVE  IInv'
<1>1. /\ pending' = pending /\ abandoned' = abandoned /\ entry' = entry /\ told' = told
      /\ cancelled' = cancelled \ {c}
      /\ call'[c] = why /\ \A d \in Calls \ {c} : call'[d] = call[d]
  BY DEF Refuse, Answer, server
<1>2. /\ \A m \in Members : \A k, d : Unread(m, k, d)' <=> Unread(m, k, d)
      /\ \A m \in Members : \A d : Replying(m, d)' <=> Replying(m, d)
      /\ \A m \in Members : \A d : Answered(m, d)' <=> Answered(m, d)
      /\ \A m \in Members : \A d : Working(m, d)' <=> Working(m, d)
      /\ \A m \in Members : \A d : Active(m, d)' <=> Active(m, d)
      /\ \A m \in Members : SoundAt(m) => SoundAt(m)'
  <2>1. toWorker' = toWorker /\ toClient' = toClient /\ work' = work
    BY DEF Refuse, server
  <2> QED
    BY <2>1 DEF Unread, Replying, Answered, Working, Active, SoundAt, OnePlace, CallsOnce,
                WorkOnce, AnswersOnce, CallFirst
<1>3. Sound' /\ Single'
  BY <1>2 DEF IInv, Sound, Single, SoundAt
<1>4. \A m \in Members : c \notin pending[m]
  BY DEF IInv, PendingHere
<1>5. PendingHere'
  BY <1>1, <1>2, <1>4 DEF IInv, PendingHere, At, TypeOK
<1>6. Known'
  BY <1>1, <1>2 DEF IInv, Known, At
<1>7. Present' /\ Owed'
  BY <1>1, <1>2 DEF IInv, Present, Owed, At
<1>8. CancelReaches'
  BY <1>1, <1>2 DEF IInv, CancelReaches
<1> QED
  BY <1>3, <1>5, <1>6, <1>7, <1>8 DEF IInv

LEMMA SendStep ==
  ASSUME IInv, TypeOK', NEW f, NEW t \in BOOLEAN, DOMAIN f \subseteq Live,
         \A m \in DOMAIN f : f[m] \in Calls /\ call[f[m]] = "fresh",
         \A m, n \in DOMAIN f : f[m] = f[n] => m = n,
         Send(f, t)
  PROVE  IInv'
<1> DEFINE cs == {f[m] : m \in DOMAIN f}
           Sent(m, c) == m \in DOMAIN f /\ c = f[m]
<1>1. /\ abandoned' = abandoned /\ entry' = entry /\ told' = told /\ cancelled' = cancelled
      /\ toClient' = toClient /\ work' = work
  BY DEF Send, server
<1>2. /\ \A c \in Calls : call'[c] = IF c \in cs THEN "pending" ELSE call[c]
      /\ \A m \in Members, c \in Calls : c \in pending'[m] <=> c \in pending[m] \/ Sent(m, c)
  BY DEF Send
<1>3. /\ \A c \in cs : c \in Calls /\ call[c] = "fresh"
      /\ \A m \in Members : \A c : Sent(m, c) => c \in cs
      /\ \A m, n \in Members : \A c : Sent(m, c) /\ Sent(n, c) => m = n
      /\ \A c \in cs : \E m \in Members : Sent(m, c)
  BY DEF Live
<1>4. ASSUME NEW m \in Members
      PROVE  /\ \A c : Unread(m, "call", c)' <=> Unread(m, "call", c) \/ Sent(m, c)
             /\ \A c : Unread(m, "cancel", c)' <=> Unread(m, "cancel", c)
             /\ CallsOnce(m)' /\ CallFirst(m)'
  <2>1. TypeOK /\ CallsOnce(m) /\ CallFirst(m)
    BY DEF IInv, Sound
  <2>2. CASE m \notin DOMAIN f
    BY <2>1, <2>2, SameToWorker DEF Send
  <2>3. CASE m \in DOMAIN f
    <3>1. /\ Message("call", f[m]) \in ToWorker
          /\ toWorker'[m] = Append(toWorker[m], Message("call", f[m]))
      BY <2>3, MessageTypes DEF Send
    <3>2. ~Unread(m, "call", f[m]) /\ ~Unread(m, "cancel", f[m])
      BY <2>3 DEF IInv, Known, At
    <3>3. /\ Message("call", f[m]).kind = "call" /\ Message("call", f[m]).id = f[m]
          /\ \A c : Message("call", f[m]) = Message("call", c) <=> c = f[m]
          /\ \A c : Message("call", f[m]) # Message("cancel", c)
      BY DEF Message
    <3> QED
      BY <2>1, <2>3, <3>1, <3>2, <3>3, Posted
  <2> QED
    BY <2>2, <2>3
<1> HIDE DEF cs, Sent
<1>5. /\ \A m \in Members : \A c : Replying(m, c)' <=> Replying(m, c)
      /\ \A m \in Members : \A c : Answered(m, c)' <=> Answered(m, c)
      /\ \A m \in Members : \A c : Working(m, c)' <=> Working(m, c)
      /\ \A m \in Members : \A c : Active(m, c)' <=> Active(m, c)
      /\ \A m \in Members : AnswersOnce(m)' <=> AnswersOnce(m)
      /\ \A m \in Members : WorkOnce(m)' <=> WorkOnce(m)
  BY <1>1, SameAnswers
<1>6. \A m \in Members, c \in cs : ~At(m, c) /\ c \notin pending[m] /\ c \notin cancelled
  BY <1>3 DEF IInv, Known, PendingHere
<1>7. \A m \in Members : \A c : At(m, c)' <=> At(m, c) \/ Sent(m, c)
  BY <1>4, <1>5 DEF At
<1>8. Sound'
  BY <1>4, <1>5 DEF IInv, Sound
<1>9. Single'
  BY <1>3, <1>4, <1>5, <1>6 DEF IInv, Single, OnePlace, At
<1>10. PendingHere'
  <2>1. ASSUME NEW m \in Members, NEW c \in Calls, c \in pending'[m]
        PROVE  /\ call'[c] = "pending"
               /\ \A n \in Members : At(n, c)' \/ c \in pending'[n] => n = m
    <3>1. CASE c \in cs
      BY <2>1, <3>1, <1>2, <1>3, <1>6, <1>7
    <3>2. CASE c \notin cs
      BY <2>1, <3>2, <1>2, <1>3, <1>7 DEF IInv, PendingHere
    <3> QED
      BY <3>1, <3>2
  <2>2. \A m \in Members : pending'[m] \subseteq Calls
    BY DEF TypeOK
  <2> QED
    BY <2>1, <2>2 DEF PendingHere
<1>11. Known'
  BY <1>1, <1>2, <1>3, <1>4, <1>7 DEF IInv, Known
<1>12. Present'
  <2>1. \A m \in Members : pending'[m] \subseteq Calls
    BY DEF TypeOK
  <2> QED
    BY <2>1, <1>1, <1>2, <1>7 DEF IInv, Present
<1>13. Owed'
  BY <1>1, <1>4, <1>5 DEF IInv, Owed
<1>14. CancelReaches'
  BY <1>1, <1>2, <1>3, <1>4, <1>5, <1>6 DEF IInv, CancelReaches
<1> QED
  BY <1>8, <1>9, <1>10, <1>11, <1>12, <1>13, <1>14 DEF IInv

(* A cancel is posted behind everything else. *)
LEMMA CancelPosted ==
  ASSUME IInv, NEW m \in Members, NEW c \in Calls, Post(m, Message("cancel", c)),
         toClient' = toClient, work' = work
  PROVE  /\ \A n \in Members : \A d : Unread(n, "call", d)' <=> Unread(n, "call", d)
         /\ \A n \in Members : \A d :
              Unread(n, "cancel", d)' <=> Unread(n, "cancel", d) \/ (n = m /\ d = c)
         /\ \A n \in Members : \A d : Replying(n, d)' <=> Replying(n, d)
         /\ \A n \in Members : \A d : Working(n, d)' <=> Working(n, d)
         /\ \A n \in Members : \A d : Active(n, d)' <=> Active(n, d)
         /\ \A n \in Members : \A d : At(n, d)' <=> At(n, d)
         /\ Sound' /\ Single'
<1>1. ASSUME NEW n \in Members
      PROVE  /\ \A d : Unread(n, "call", d)' <=> Unread(n, "call", d)
             /\ \A d : Unread(n, "cancel", d)' <=> Unread(n, "cancel", d) \/ (n = m /\ d = c)
             /\ CallsOnce(n)' /\ CallFirst(n)'
  <2>1. TypeOK /\ CallsOnce(n) /\ CallFirst(n)
    BY DEF IInv, Sound
  <2>2. CASE n # m
    <3>1. toWorker'[n] = toWorker[n]
      BY <2>1, <2>2 DEF Post, TypeOK
    <3> QED
      BY <2>1, <2>2, <3>1, SameToWorker
  <2>3. CASE n = m
    <3>1. /\ Message("cancel", c) \in ToWorker
          /\ toWorker'[n] = Append(toWorker[n], Message("cancel", c))
      BY <2>1, <2>3, MessageTypes DEF Post, TypeOK
    <3>2. /\ Message("cancel", c).kind = "cancel"
          /\ \A d : Message("cancel", c) = Message("cancel", d) <=> d = c
          /\ \A d : Message("cancel", c) # Message("call", d)
      BY DEF Message
    <3> QED
      BY <2>1, <2>3, <3>1, <3>2, Posted
  <2> QED
    BY <2>2, <2>3
<1>2. ASSUME NEW n \in Members
      PROVE  /\ \A d : Replying(n, d)' <=> Replying(n, d)
             /\ \A d : Answered(n, d)' <=> Answered(n, d)
             /\ \A d : Working(n, d)' <=> Working(n, d)
             /\ \A d : Active(n, d)' <=> Active(n, d)
             /\ AnswersOnce(n)' <=> AnswersOnce(n)
             /\ WorkOnce(n)' <=> WorkOnce(n)
  BY SameAnswers
<1>3. Sound'
  BY <1>1, <1>2 DEF IInv, Sound
<1>4. Single'
  BY <1>1, <1>2 DEF IInv, Single, OnePlace
<1> QED
  BY <1>1, <1>2, <1>3, <1>4 DEF At

LEMMA CancelStep ==
  ASSUME IInv, TypeOK', NEW m \in Members, NEW c \in Calls, Cancel(m, c)
  PROVE  IInv'
<1>1. /\ call' = call /\ pending' = pending /\ abandoned' = abandoned /\ entry' = entry
      /\ told' = told /\ cancelled' = cancelled \cup {c} /\ c \in pending[m]
  BY DEF Cancel, server
<1>2. /\ \A n \in Members : \A d : Unread(n, "call", d)' <=> Unread(n, "call", d)
      /\ \A n \in Members : \A d :
           Unread(n, "cancel", d)' <=> Unread(n, "cancel", d) \/ (n = m /\ d = c)
      /\ \A n \in Members : \A d : Replying(n, d)' <=> Replying(n, d)
      /\ \A n \in Members : \A d : Working(n, d)' <=> Working(n, d)
      /\ \A n \in Members : \A d : Active(n, d)' <=> Active(n, d)
      /\ \A n \in Members : \A d : At(n, d)' <=> At(n, d)
      /\ Sound' /\ Single'
  BY CancelPosted DEF Cancel, server
<1>3. call[c] = "pending" /\ \A n \in Members : At(n, c) => n = m
  BY <1>1 DEF IInv, PendingHere
<1>4. PendingHere'
  BY <1>1, <1>2 DEF IInv, PendingHere, TypeOK
<1>5. Known'
  BY <1>1, <1>2, <1>3 DEF IInv, Known
<1>6. Present'
  BY <1>1, <1>2 DEF IInv, Present, TypeOK
<1>7. Owed'
  BY <1>1, <1>2 DEF IInv, Owed
<1>8. CancelReaches'
  <2>1. \A n \in Members : Unread(n, "call", c) \/ Working(n, c) => n = m
    BY <1>3 DEF At
  <2> QED
    BY <2>1, <1>1, <1>2 DEF IInv, CancelReaches
<1> QED
  BY <1>2, <1>4, <1>5, <1>6, <1>7, <1>8 DEF IInv

LEMMA TimeoutStep ==
  ASSUME IInv, TypeOK', NEW m \in Members, NEW c \in Calls, Timeout(m, c)
  PROVE  IInv'
<1>1. /\ entry' = entry /\ told' = told /\ cancelled' = cancelled \ {c} /\ c \in pending[m]
      /\ call'[c] = "timeout" /\ \A d \in Calls \ {c} : call'[d] = call[d]
      /\ pending'[m] = pending[m] \ {c} /\ abandoned'[m] = abandoned[m] \cup {c}
      /\ \A n \in Members \ {m} : pending'[n] = pending[n] /\ abandoned'[n] = abandoned[n]
  BY DEF Timeout, server, Answer, GraceFor, IInv, TypeOK
<1>2. /\ \A n \in Members : \A d : Unread(n, "call", d)' <=> Unread(n, "call", d)
      /\ \A n \in Members : \A d :
           Unread(n, "cancel", d)' <=> Unread(n, "cancel", d) \/ (n = m /\ d = c)
      /\ \A n \in Members : \A d : Replying(n, d)' <=> Replying(n, d)
      /\ \A n \in Members : \A d : Working(n, d)' <=> Working(n, d)
      /\ \A n \in Members : \A d : Active(n, d)' <=> Active(n, d)
      /\ \A n \in Members : \A d : At(n, d)' <=> At(n, d)
      /\ Sound' /\ Single'
  BY CancelPosted DEF Timeout, server
<1>3. /\ call[c] = "pending" /\ \A n \in Members : At(n, c) => n = m
      /\ \A n \in Members : c \notin pending'[n]
  BY <1>1 DEF IInv, PendingHere
<1>4. PendingHere'
  <2>1. ASSUME NEW n \in Members, NEW d \in pending'[n]
        PROVE  d \in pending[n] /\ d # c /\ d \in Calls
    BY <1>1, <1>3 DEF IInv, TypeOK
  <2>2. ASSUME NEW n \in Members, NEW d \in pending'[n]
        PROVE  /\ call'[d] = "pending"
               /\ \A o \in Members : At(o, d)' \/ d \in pending'[o] => o = n
    BY <2>1, <1>1, <1>2 DEF IInv, PendingHere
  <2> QED
    BY <2>2 DEF PendingHere
<1>5. Known'
  BY <1>1, <1>2, <1>3 DEF IInv, Known
<1>6. Present'
  BY <1>1, <1>2 DEF IInv, Present, TypeOK
<1>7. Owed'
  BY <1>1, <1>2 DEF IInv, Owed
<1>8. CancelReaches'
  <2>1. \A n \in Members : Unread(n, "call", c) \/ Working(n, c) => n = m
    BY <1>3 DEF At
  <2> QED
    BY <2>1, <1>1, <1>2 DEF IInv, CancelReaches
<1> QED
  BY <1>2, <1>4, <1>5, <1>6, <1>7, <1>8 DEF IInv

(* What a terminated Worker had is gone; its calls are answered. *)
LEMMA TerminateStep ==
  ASSUME IInv, TypeOK', NEW ms \in SUBSET Members,
         NEW why \in {"crashed", "closed"}, Terminate(ms, why)
  PROVE  IInv'
<1> DEFINE gone == UNION {pending[m] : m \in ms}
<1>1. /\ \A c \in Calls : call'[c] = IF c \in gone THEN why ELSE call[c]
      /\ cancelled' = cancelled \ gone
      /\ \A m \in ms : /\ pending'[m] = {} /\ abandoned'[m] = {} /\ entry'[m] = "dead"
                       /\ toWorker'[m] = <<>> /\ toClient'[m] = <<>> /\ work'[m] = <<>>
      /\ \A m \in Members \ ms : pending'[m] = pending[m] /\ abandoned'[m] = abandoned[m]
      /\ \A m \in Members \ ms : SameAt(m)
  BY DEF Terminate, Answer, SameAt
<1>2. \A c : c \in gone <=> \E m \in ms : c \in pending[m]
  OBVIOUS
<1> HIDE DEF gone
<1>3. \A m \in Members : MovesOn(m)
  <2>1. ASSUME NEW m \in ms
        PROVE  MovesOn(m)
    <3>1. /\ (\A k, c : ~Unread(m, k, c)') /\ \A c : ~Working(m, c)'
          /\ \A c : ~Answered(m, c)'
          /\ CallsOnce(m)' /\ WorkOnce(m)' /\ AnswersOnce(m)' /\ CallFirst(m)'
      <4>1. DOMAIN (<<>>) = {}
        OBVIOUS
      <4> QED
        BY <4>1, <1>1 DEF Unread, Working, Answered, CallsOnce, WorkOnce, AnswersOnce, CallFirst
    <3> QED
      BY <3>1, <1>1 DEF MovesOn, SoundAt, OnePlace, At
  <2>2. ASSUME NEW m \in Members \ ms
        PROVE  MovesOn(m)
    BY <2>2, <1>1, Unmoved
  <2> QED
    BY <2>1, <2>2
<1>4. Sound' /\ Single'
  BY <1>3 DEF MovesOn, SoundAt, Sound, Single
<1>5. \A m \in Members, c \in Calls :
        /\ At(m, c)' => At(m, c)
        /\ Unread(m, "cancel", c)' => Unread(m, "cancel", c)
  BY <1>3 DEF MovesOn
<1>6. /\ \A m \in Members : pending'[m] \subseteq pending[m]
      /\ \A m \in Members : entry'[m] # "dead" => m \notin ms /\ entry[m] # "dead"
      /\ \A m \in Members : pending[m] \subseteq Calls /\ abandoned[m] \subseteq Calls
  BY <1>1 DEF SameAt, IInv, TypeOK
<1>7. ASSUME NEW m \in Members, NEW c \in pending'[m]
      PROVE  c \in Calls /\ c \in pending[m] /\ c \notin gone
  BY <1>1, <1>2, <1>6 DEF IInv, PendingHere
<1>8. PendingHere'
  <2>1. ASSUME NEW m \in Members, NEW c \in pending'[m]
        PROVE  /\ call'[c] = "pending"
               /\ \A n \in Members : At(n, c)' \/ c \in pending'[n] => n = m
    BY <1>1, <1>5, <1>6, <1>7 DEF IInv, PendingHere
  <2> QED
    BY <2>1 DEF PendingHere
<1>9. Known'
  <2>1. why # "fresh"
    OBVIOUS
  <2> QED
    BY <2>1, <1>1, <1>5 DEF IInv, Known
<1>10. Present'
  BY <1>3, <1>6 DEF IInv, Present, MovesOn
<1>11. Owed'
  BY <1>1, <1>3, <1>6 DEF IInv, Owed, MovesOn
<1>12. CancelReaches'
  <2>1. ASSUME NEW m \in Members, NEW c \in Calls, c \in cancelled' \/ call'[c] = "timeout",
               Held(m, c)', entry'[m] # "dead"
        PROVE  Reached(m, c)'
    <3>1. Held(m, c) /\ entry[m] # "dead"
      BY <2>1, <1>3 DEF MovesOn
    <3>2. c \in cancelled \/ call[c] = "timeout"
      BY <2>1, <1>1
    <3>3. Reached(m, c)
      BY <3>1, <3>2 DEF IInv, CancelReaches, Held, Reached
    <3> QED
      BY <2>1, <1>3, <3>3 DEF MovesOn
  <2> QED
    BY <2>1 DEF CancelReaches, Held, Reached
<1> QED
  BY <1>4, <1>8, <1>9, <1>10, <1>11, <1>12 DEF IInv

(* A reply leaves the channel; an answer ends the wait for it. *)
LEMMA ReceiveStep ==
  ASSUME IInv, TypeOK', NEW m \in Members, Receive(m)
  PROVE  IInv'
<1> DEFINE reply == Head(toClient[m])
           c == reply.id
<1>1. /\ TypeOK /\ toClient[m] # <<>>
      /\ toClient'[m] = Tail(toClient[m])
      /\ \A n \in Members \ {m} : toClient'[n] = toClient[n]
      /\ toWorker' = toWorker /\ work' = work /\ entry' = entry /\ told' = told
  BY DEF Receive, server, IInv, TypeOK
<1>2. reply \in ToClient /\ c \in Calls
  <2>1. reply \in ToClient
    BY <1>1, TailFacts DEF TypeOK, ToClient
  <2> QED
    BY <2>1 DEF ToClient
<1>3. /\ abandoned'[m] = abandoned[m] \ {c}
      /\ \A n \in Members \ {m} : abandoned'[n] = abandoned[n]
      /\ \/ /\ reply.kind = "ack" \/ c \notin pending[m]
            /\ call' = call /\ pending' = pending /\ cancelled' = cancelled
         \/ /\ reply.kind # "ack" /\ c \in pending[m]
            /\ pending'[m] = pending[m] \ {c}
            /\ \A n \in Members \ {m} : pending'[n] = pending[n]
            /\ call'[c] \in {"cancelled", "result", "failed", "refused"}
            /\ \A d \in Calls \ {c} : call'[d] = call[d]
            /\ cancelled' = cancelled \ {c}
  BY <1>1, <1>2 DEF Receive, Answer, TypeOK, ToClient, Replies
<1>4. /\ \A d : Replying(m, d) <=> Replying(m, d)' \/ d = c
      /\ \A d : Answered(m, d) <=> Answered(m, d)' \/ (d = c /\ reply.kind # "ack")
      /\ AnswersOnce(m)'
  <2>1. AnswersOnce(m)
    BY DEF IInv, Sound
  <2> QED
    BY <2>1, <1>1, Received DEF IsAnswer
<1>5. ASSUME NEW n \in Members, n # m
      PROVE  /\ \A d : Replying(n, d)' <=> Replying(n, d)
             /\ \A d : Answered(n, d)' <=> Answered(n, d)
             /\ AnswersOnce(n)'
  <2>1. AnswersOnce(n)
    BY DEF IInv, Sound
  <2> QED
    BY <2>1, <1>1, <1>5, SameToClient
<1> HIDE DEF c, reply
<1>6. ASSUME NEW n \in Members
      PROVE  /\ \A k, d : Unread(n, k, d)' <=> Unread(n, k, d)
             /\ \A d : Working(n, d)' <=> Working(n, d)
             /\ \A d : Active(n, d)' <=> Active(n, d)
             /\ CallsOnce(n)' /\ CallFirst(n)' /\ WorkOnce(n)'
  <2>1. CallsOnce(n) /\ CallFirst(n) /\ WorkOnce(n)
    BY DEF IInv, Sound
  <2> QED
    BY <2>1, <1>1, SameToWorker, SameWork
<1>7. \A n \in Members : \A d : Answered(n, d)' => Answered(n, d)
  BY <1>4, <1>5
<1>8. \A n \in Members : \A d : At(n, d)' => At(n, d)
  BY <1>6, <1>7 DEF At
<1>9. \A n \in Members : \A d :
        At(n, d) => At(n, d)' \/ (n = m /\ d = c /\ reply.kind # "ack")
  BY <1>4, <1>5, <1>6 DEF At
<1>10. Sound'
  BY <1>4, <1>5, <1>6 DEF Sound
<1>11. Single'
  BY <1>6, <1>7 DEF IInv, Single, OnePlace
<1>12. ASSUME NEW n \in Members, NEW d \in pending'[n]
       PROVE  /\ d \in Calls /\ d \in pending[n] /\ call'[d] = call[d]
              /\ (n = m /\ d = c) => reply.kind = "ack"
  <2>1. d \in pending[n] /\ d \in Calls
    BY <1>3 DEF IInv, TypeOK
  <2>2. d = c /\ c \in pending[m] => n = m
    BY <2>1 DEF IInv, PendingHere
  <2> QED
    BY <2>1, <2>2, <1>2, <1>3
<1>13. \A n \in Members : pending'[n] \subseteq pending[n]
  BY <1>12
<1>14. PendingHere'
  <2>1. ASSUME NEW n \in Members, NEW d \in pending'[n]
        PROVE  /\ call'[d] = "pending"
               /\ \A o \in Members : At(o, d)' \/ d \in pending'[o] => o = n
    BY <1>8, <1>12, <1>13 DEF IInv, PendingHere
  <2> QED
    BY <2>1 DEF PendingHere
<1>15. Known'
  <2>1. \A d \in Calls : call'[d] = "fresh" => call[d] = "fresh"
    BY <1>2, <1>3
  <2>2. \A d \in Calls : d \in cancelled' => d \in cancelled /\ call'[d] = call[d]
    BY <1>2, <1>3
  <2> QED
    BY <2>1, <2>2, <1>6, <1>8 DEF IInv, Known
<1>16. Present'
  BY <1>1, <1>9, <1>12 DEF IInv, Present
<1>17. Owed'
  <2>1. ASSUME NEW n \in Members, entry'[n] # "dead", NEW d \in abandoned'[n]
        PROVE  Unread(n, "cancel", d)' \/ Replying(n, d)'
    <3>1. d \in abandoned[n] /\ (n = m => d # c)
      BY <1>3
    <3> QED
      BY <2>1, <3>1, <1>1, <1>4, <1>5, <1>6 DEF IInv, Owed
  <2> QED
    BY <2>1 DEF Owed
<1>18. CancelReaches'
  <2>1. \A d \in Calls : d \in cancelled' \/ call'[d] = "timeout"
                         => d \in cancelled \/ call[d] = "timeout"
    BY <1>2, <1>3
  <2> QED
    BY <2>1, <1>1, <1>6 DEF IInv, CancelReaches
<1> QED
  BY <1>10, <1>11, <1>14, <1>15, <1>16, <1>17, <1>18 DEF IInv

-----------------------------------------------------------------------------
(* The steps of a Worker.                                                  *)

LEMMA OthersUnmoved ==
  ASSUME IInv, NEW m \in Members, MovesOn(m), \A n \in Members \ {m} : SameAt(n)
  PROVE  \A n \in Members : MovesOn(n)
BY Unmoved

LEMMA ReadStep ==
  ASSUME IInv, TypeOK', NEW m \in Members, Read(m)
  PROVE  IInv'
<1> DEFINE message == Head(toWorker[m])
           c == message.id
<1>1. /\ TypeOK /\ toWorker[m] # <<>>
      /\ toWorker'[m] = Tail(toWorker[m]) /\ entry' = entry
      /\ \A n \in Members \ {m} : toWorker'[n] = toWorker[n]
  BY DEF Read, IInv, TypeOK
<1>2. /\ c \in Calls /\ message = Message(message.kind, c)
      /\ message.kind \in {"call", "cancel"}
  BY <1>1, HeadMessage
<1>3. \/ message.kind = "cancel" /\ CancelActive(m, c)
      \/ message.kind = "cancel"
           /\ \E i \in 2..Len(work[m]) : work[m][i] = c /\ CancelQueued(m, i, c)
      \/ message.kind = "cancel" /\ CancelUnknown(m, c)
      \/ message.kind = "call" /\ ReadCall(m, c)
  BY DEF Read
<1> HIDE DEF c
<1>4. MovesOn(m)
  <2>1. CASE message.kind = "cancel" /\ CancelActive(m, c)
    BY <2>1, <1>1, <1>2, CancelActiveMoves
  <2>2. CASE message.kind = "cancel"
               /\ \E i \in 2..Len(work[m]) : work[m][i] = c /\ CancelQueued(m, i, c)
    BY <2>2, <1>1, <1>2, CancelQueuedMoves
  <2>3. CASE message.kind = "cancel" /\ CancelUnknown(m, c)
    BY <2>3, <1>1, <1>2, CancelUnknownMoves
  <2>4. CASE message.kind = "call" /\ ReadCall(m, c)
    BY <2>4, <1>1, <1>2, ReadCallMoves
  <2> QED
    BY <2>1, <2>2, <2>3, <2>4, <1>3
<1>5. \A n \in Members \ {m} : SameAt(n)
  <2>1. /\ \A n \in Members \ {m} : toClient'[n] = toClient[n] /\ work'[n] = work[n]
        /\ \A n \in Members \ {m} : n \in told' <=> n \in told
    BY <1>1, <1>3 DEF CancelActive, CancelQueued, CancelUnknown, ReadCall, Replied, TypeOK
  <2> QED
    BY <2>1, <1>1 DEF SameAt
<1>6. UNCHANGED client
  BY DEF Read
<1> QED
  BY <1>4, <1>5, <1>6, OthersUnmoved, WorkerStep

LEMMA FinishStep ==
  ASSUME IInv, TypeOK', NEW m \in Members, NEW how \in {"result", "failed"}, Finish(m, how)
  PROVE  IInv'
<1>1. MovesOn(m)
  BY FinishMoves
<1>2. \A n \in Members \ {m} : SameAt(n)
  BY DEF Finish, Replied, SameAt, IInv, TypeOK
<1>3. UNCHANGED client
  BY DEF Finish
<1> QED
  BY <1>1, <1>2, <1>3, OthersUnmoved, WorkerStep

(* A loop that is kept busy, or is not any more, or has ended. *)
LEMMA ThreadStep ==
  ASSUME IInv, TypeOK', NEW m \in Members, Stick(m) \/ Resume(m) \/ Die(m)
  PROVE  IInv'
<1>1. SoundAt(m) /\ TypeOK
  BY DEF IInv, Sound, Single, SoundAt
<1>2. toWorker' = toWorker /\ toClient' = toClient /\ UNCHANGED client
  BY DEF Stick, Resume, Die
<1>3. /\ \A k, c : Unread(m, k, c)' <=> Unread(m, k, c)
      /\ \A c : Replying(m, c)' <=> Replying(m, c)
      /\ \A c : Answered(m, c)' <=> Answered(m, c)
      /\ CallsOnce(m)' /\ CallFirst(m)' /\ AnswersOnce(m)'
  BY <1>1, <1>2, SameToWorker, SameToClient DEF SoundAt
<1>4. \A n \in Members \ {m} : SameAt(n)
  BY <1>1, <1>2 DEF SameAt, Stick, Resume, Die, TypeOK
<1>5. MovesOn(m)
  <2>1. CASE Stick(m) \/ Resume(m)
    <3>1. work' = work /\ told' = told /\ entry[m] # "dead"
      BY <2>1 DEF Stick, Resume
    <3>2. /\ \A c : Working(m, c)' <=> Working(m, c)
          /\ \A c : Active(m, c)' <=> Active(m, c)
          /\ WorkOnce(m)'
      BY <3>1, <1>1, SameWork DEF SoundAt
    <3>3. SoundAt(m)'
      BY <1>1, <1>3, <3>2 DEF SoundAt, OnePlace
    <3> QED
      BY <1>3, <3>1, <3>2, <3>3 DEF MovesOn, At, Held, Reached
  <2>2. CASE Die(m)
    <3>1. work'[m] = <<>> /\ entry'[m] = "dead"
      BY <2>2, <1>1 DEF Die, TypeOK
    <3>2. DOMAIN (<<>>) = {}
      OBVIOUS
    <3>3. (\A c : ~Working(m, c)') /\ WorkOnce(m)'
      BY <3>1, <3>2 DEF Working, WorkOnce
    <3>4. SoundAt(m)'
      BY <1>1, <1>3, <3>3 DEF SoundAt, OnePlace
    <3> QED
      BY <1>3, <3>1, <3>3, <3>4 DEF MovesOn, At
  <2> QED
    BY <2>1, <2>2
<1> QED
  BY <1>2, <1>4, <1>5, OthersUnmoved, WorkerStep

-----------------------------------------------------------------------------
(* The inductive invariant holds.                                          *)

LEMMA InitInv == ASSUME Init PROVE IInv
<1>1. TypeOK
  BY InitTypeOK
<1>2. DOMAIN (<<>>) = {}
  OBVIOUS
<1>3. ASSUME NEW m \in Members
      PROVE  /\ (\A k, c : ~Unread(m, k, c)) /\ (\A c : ~Working(m, c)) /\ \A c : ~Answered(m, c)
             /\ CallsOnce(m) /\ WorkOnce(m) /\ AnswersOnce(m) /\ CallFirst(m)
             /\ pending[m] = {} /\ abandoned[m] = {}
  BY <1>2 DEF Init, Unread, Working, Answered, CallsOnce, WorkOnce, AnswersOnce, CallFirst
<1>4. Sound /\ Single
  BY <1>3 DEF Sound, Single, OnePlace
<1>5. PendingHere /\ Present /\ Owed /\ CancelReaches
  BY <1>3 DEF PendingHere, Present, Owed, CancelReaches
<1>6. Known
  <2>1. cancelled = {}
    BY DEF Init
  <2> QED
    BY <2>1, <1>3 DEF Known, At
<1> QED
  BY <1>1, <1>4, <1>5, <1>6 DEF IInv

LEMMA Invariance ==
  ASSUME IInv, [Next]_vars
  PROVE  IInv'
<1>0. TypeOK'
  BY TypesKept DEF IInv
<1>1. ASSUME NEW c \in Calls, NEW t \in BOOLEAN, Call(c, t)
      PROVE  IInv'
  <2>1. ASSUME NEW why \in {"closed", "crashed", "full"}, Refuse(c, why)
        PROVE  IInv'
    BY <2>1, <1>0, <1>1, RefuseStep DEF Call
  <2>2. ASSUME NEW m \in Live, Send([n \in {m} |-> c], t)
        PROVE  IInv'
    <3> DEFINE f == [n \in {m} |-> c]
    <3>1. /\ DOMAIN f \subseteq Live /\ \A n \in DOMAIN f : f[n] \in Calls /\ call[f[n]] = "fresh"
          /\ \A n, o \in DOMAIN f : f[n] = f[o] => n = o
      BY <1>1 DEF Call
    <3> HIDE DEF f
    <3> QED
      BY <2>2, <3>1, <1>0, SendStep DEF f
  <2> QED
    BY <1>1, <2>1, <2>2 DEF Call, LeastLoaded
<1>2. ASSUME NEW t \in BOOLEAN, NEW f \in Assignments, Broadcast(f, t)
      PROVE  IInv'
  BY <1>0, <1>2, SendStep DEF Broadcast, Assignments
<1>3. ASSUME NEW c \in Calls, BroadcastRefused(c)
      PROVE  IInv'
  BY <1>0, <1>3, RefuseStep DEF BroadcastRefused
<1>4. ASSUME NEW m \in Members, NEW c \in Calls, Cancel(m, c) \/ Timeout(m, c)
      PROVE  IInv'
  BY <1>0, <1>4, CancelStep, TimeoutStep
<1>5. ASSUME NEW m \in Members, Grace(m) \/ Notice(m)
      PROVE  IInv'
  BY <1>0, <1>5, TerminateStep DEF Grace, Notice
<1>6. CASE ClosePool
  BY <1>0, <1>6, TerminateStep DEF ClosePool, Live
<1>7. ASSUME NEW m \in Members, Receive(m) \/ Read(m)
      PROVE  IInv'
  BY <1>0, <1>7, ReceiveStep, ReadStep
<1>8. ASSUME NEW m \in Members, NEW how \in {"result", "failed"}, Finish(m, how)
      PROVE  IInv'
  BY <1>0, <1>8, FinishStep
<1>9. ASSUME NEW m \in Members, Stick(m) \/ Resume(m) \/ Die(m)
      PROVE  IInv'
  BY <1>0, <1>9, ThreadStep
<1>10. CASE UNCHANGED vars
  <2>1. UNCHANGED client /\ \A m \in Members : SameAt(m)
    BY <1>10 DEF vars, server, SameAt
  <2> QED
    BY <2>1, <1>0, Unmoved, WorkerStep
<1> QED
  BY <1>1, <1>2, <1>3, <1>4, <1>5, <1>6, <1>7, <1>8, <1>9, <1>10 DEF Next

(* Every variable has its type, in every state of every behaviour. *)
THEOREM TypeCorrect == Spec => []TypeOK
<1>1. Init => TypeOK
  BY InitTypeOK
<1>2. TypeOK /\ [Next]_vars => TypeOK'
  BY TypesKept
<1> QED
  BY <1>1, <1>2, PTL DEF Spec

(* The strengthening every result below follows from. *)
THEOREM Inductive == Spec => []IInv
<1>1. Init => IInv
  BY InitInv
<1>2. IInv /\ [Next]_vars => IInv'
  BY Invariance
<1> QED
  BY <1>1, <1>2, PTL DEF Spec

(* A Worker whose loop runs is never taken for a wedged one: whenever the  *)
(* grace timer of call's timeout (worker.js) runs for it, the cancel that  *)
(* timeout posted is unread or its acknowledgement is on its way.          *)
THEOREM TheLivelyAreSpared == Spec => []AckIsOwed
<1>1. IInv => AckIsOwed
  BY DEF IInv, Owed, AckIsOwed
<1> QED
  BY <1>1, Inductive, PTL

(* A call the caller has cancelled, or has stopped waiting for, is never   *)
(* left to run unaware: its cancel is behind it in the channel, or its     *)
(* handler has its Cancellation cancelled (the message handler of          *)
(* serveWorker).                                                           *)
THEOREM NoCancelIsForgotten == Spec => []CancelReaches
<1>1. IInv => CancelReaches
  BY DEF IInv
<1> QED
  BY <1>1, Inductive, PTL

-----------------------------------------------------------------------------
(* Carried: at most one place holds a call, and one does while it waits.   *)

AtPlace(m, c) ==
  {i \in DOMAIN toWorker[m] : toWorker[m][i] = Message("call", c)} \X {"toWorker"}
WorkPlace(m, c) == {i \in DOMAIN work[m] : work[m][i] = c} \X {"work"}
AnswerPlace(m, c) ==
  {i \in DOMAIN toClient[m] : toClient[m][i].kind # "ack" /\ toClient[m][i].id = c}
    \X {"toClient"}

(* A set whose members are all the same has at most one. *)
LEMMA AtMostOne ==
  ASSUME NEW S, \A x, y \in S : x = y
  PROVE  Cardinality(S) \in {0, 1} /\ (S # {} => Cardinality(S) = 1)
<1>1. CASE S = {}
  BY <1>1, FS_EmptySet
<1>2. CASE S # {}
  <2>1. PICK x : x \in S
    BY <1>2
  <2>2. S = {x}
    BY <2>1
  <2> QED
    BY <2>2, FS_Singleton
<1> QED
  BY <1>1, <1>2

LEMMA OneOrNone ==
  ASSUME IInv, NEW m \in Members, NEW c \in Calls
  PROVE  /\ Cardinality(Places(m, c)) <= 1
         /\ c \in pending[m] /\ entry[m] # "dead" => Cardinality(Places(m, c)) = 1
<1> DEFINE P == AtPlace(m, c)
           W == WorkPlace(m, c)
           A == AnswerPlace(m, c)
<1>1. Places(m, c) = P \cup W \cup A
  BY DEF Places, AtPlace, WorkPlace, AnswerPlace
<1>2. /\ P # {} <=> Unread(m, "call", c)
      /\ W # {} <=> Working(m, c)
      /\ A # {} <=> Answered(m, c)
  <2>1. ASSUME NEW X, NEW v
        PROVE  X \X {v} # {} <=> \E i \in X : TRUE
    <3>1. \A i \in X : <<i, v>> \in X \X {v}
      OBVIOUS
    <3> QED
      BY <3>1
  <2>2. P # {} <=> Unread(m, "call", c)
    BY <2>1 DEF AtPlace, Unread
  <2>3. W # {} <=> Working(m, c)
    BY <2>1 DEF WorkPlace, Working
  <2>4. A # {} <=> Answered(m, c)
    BY <2>1 DEF AnswerPlace, Answered, IsAnswer
  <2> QED
    BY <2>2, <2>3, <2>4
<1>3. CallsOnce(m) /\ WorkOnce(m) /\ AnswersOnce(m) /\ OnePlace(m, c)
  BY DEF IInv, Sound, Single
<1>4. /\ \A x, y \in P : x = y
      /\ \A x, y \in W : x = y
      /\ \A x, y \in A : x = y
  <2>1. ASSUME NEW x \in P, NEW y \in P
        PROVE  x = y
    BY <1>3 DEF AtPlace, CallsOnce, Message
  <2>2. ASSUME NEW x \in W, NEW y \in W
        PROVE  x = y
    BY <1>3 DEF WorkPlace, WorkOnce
  <2>3. ASSUME NEW x \in A, NEW y \in A
        PROVE  x = y
    BY <1>3 DEF AnswerPlace, AnswersOnce, IsAnswer
  <2> QED
    BY <2>1, <2>2, <2>3
<1> HIDE DEF P, W, A
<1>5. \A x, y \in Places(m, c) : x = y
  BY <1>1, <1>2, <1>3, <1>4 DEF OnePlace
<1>6. c \in pending[m] /\ entry[m] # "dead" => Places(m, c) # {}
  BY <1>1, <1>2 DEF IInv, Present, At
<1> QED
  BY <1>5, <1>6, AtMostOne

(* No call is lost, doubled or run twice while its Worker lives: what a    *)
(* caller of worker.js waits for is a request not yet read, or in the      *)
(* entry's queue, or a reply not yet received, and in one of them only.    *)
THEOREM NoCallIsLost == Spec => []Carried
<1>1. IInv => Carried
  BY OneOrNone DEF Carried
<1> QED
  BY <1>1, Inductive, PTL

-----------------------------------------------------------------------------
(* RefusedOnlyBehindTheLost.  Of the calls a member has pending, those the *)
(* entry will have in its queue when it reads the request at i are fewer   *)
(* than the member's capacity: the client counted them all, and the new    *)
(* one, when it posted the request, and they only get fewer.               *)

Ahead(m, i) ==
  {d \in pending[m] : Working(m, d) \/ \E j \in 1..(i - 1) : toWorker[m][j] = Message("call", d)}

Room ==
  \A m \in Members : \A i \in DOMAIN toWorker[m] :
    toWorker[m][i].kind = "call" => Cardinality(Ahead(m, i)) < MemberCapacity

(* Every request of the next state has no more before it than one of this. *)
Nearer(m) ==
  \A i \in DOMAIN toWorker'[m] : toWorker'[m][i].kind = "call" =>
    \E k \in DOMAIN toWorker[m] :
      toWorker[m][k].kind = "call" /\ Ahead(m, i)' \subseteq Ahead(m, k)

LEMMA SizesType ==
  ASSUME TypeOK
  PROVE  /\ MemberCapacity \in Int
         /\ \A m \in Members : IsFiniteSet(pending[m])
<1>1. Cardinality(Members) \in Nat /\ Cardinality(Members) > 0
  BY WorkersAssumption, FS_CardinalityType, FS_EmptySet
<1>2. MemberCapacity \in Int
  BY <1>1, WorkersAssumption DEF MemberCapacity
<1>3. \A m \in Members : IsFiniteSet(pending[m])
  BY WorkersAssumption, FS_Subset DEF TypeOK
<1> QED
  BY <1>2, <1>3

LEMMA NoMore ==
  ASSUME TypeOK, NEW m \in Members, NEW k, NEW S, S \subseteq Ahead(m, k)
  PROVE  /\ IsFiniteSet(S) /\ Cardinality(S) \in Nat /\ Cardinality(Ahead(m, k)) \in Nat
         /\ Cardinality(S) <= Cardinality(Ahead(m, k))
<1>1. IsFiniteSet(Ahead(m, k))
  BY SizesType, FS_Subset DEF Ahead
<1> QED
  BY <1>1, FS_Subset, FS_CardinalityType

LEMMA NearerKeepsRoom ==
  ASSUME TypeOK, Room, \A m \in Members : Nearer(m)
  PROVE  Room'
<1>1. ASSUME NEW m \in Members, NEW i \in DOMAIN toWorker'[m], toWorker'[m][i].kind = "call"
      PROVE  Cardinality(Ahead(m, i)') < MemberCapacity
  <2>1. PICK k \in DOMAIN toWorker[m] :
              toWorker[m][k].kind = "call" /\ Ahead(m, i)' \subseteq Ahead(m, k)
    BY <1>1 DEF Nearer
  <2>2. Cardinality(Ahead(m, k)) < MemberCapacity
    BY <2>1 DEF Room
  <2>3. /\ Cardinality(Ahead(m, i)') \in Nat /\ Cardinality(Ahead(m, k)) \in Nat
        /\ Cardinality(Ahead(m, i)') <= Cardinality(Ahead(m, k))
    BY <2>1, NoMore
  <2> QED
    BY <2>2, <2>3, SizesType
<1> QED
  BY <1>1 DEF Room, MemberCapacity

(* Requests stand where they stood, and less is pending or queued. *)
LEMMA StandingNearer ==
  ASSUME NEW m \in Members, pending'[m] \subseteq pending[m],
         \A d : Working(m, d)' => Working(m, d),
         \A i \in DOMAIN toWorker'[m] : toWorker'[m][i].kind = "call" =>
           /\ i \in DOMAIN toWorker[m]
           /\ \A j \in 1..i : toWorker'[m][j] = toWorker[m][j],
         DOMAIN toWorker'[m] \subseteq Nat \ {0}
  PROVE  Nearer(m)
<1>1. ASSUME NEW i \in DOMAIN toWorker'[m], toWorker'[m][i].kind = "call"
      PROVE  /\ i \in DOMAIN toWorker[m] /\ toWorker[m][i].kind = "call"
             /\ Ahead(m, i)' \subseteq Ahead(m, i)
  <2>1. /\ i \in DOMAIN toWorker[m] /\ i \in Nat \ {0}
        /\ \A j \in 1..i : toWorker'[m][j] = toWorker[m][j]
    BY <1>1
  <2>2. i \in 1..i /\ \A j \in 1..(i - 1) : j \in 1..i
    BY <2>1
  <2>3. Ahead(m, i)' \subseteq Ahead(m, i)
    BY <2>1, <2>2 DEF Ahead
  <2> QED
    BY <1>1, <2>1, <2>2, <2>3
<1> QED
  BY <1>1 DEF Nearer

LEMMA SameNearer ==
  ASSUME TypeOK, NEW m \in Members, pending'[m] \subseteq pending[m],
         \A d : Working(m, d)' => Working(m, d), toWorker'[m] = toWorker[m]
  PROVE  Nearer(m)
<1>1. toWorker[m] \in Seq(ToWorker)
  BY DEF TypeOK, ToWorker
<1>2. DOMAIN toWorker[m] \subseteq Nat \ {0}
  BY <1>1
<1> QED
  BY <1>2, StandingNearer

LEMMA PostedNearer ==
  ASSUME TypeOK, NEW m \in Members, NEW c \in Calls, pending'[m] \subseteq pending[m],
         \A d : Working(m, d)' => Working(m, d),
         toWorker'[m] = Append(toWorker[m], Message("cancel", c))
  PROVE  Nearer(m)
<1> DEFINE s == toWorker[m]
<1>1. s \in Seq(ToWorker) /\ Message("cancel", c) \in ToWorker
  BY MessageTypes DEF TypeOK, ToWorker
<1>2. /\ DOMAIN s = 1..Len(s) /\ Len(s) \in Nat
      /\ DOMAIN toWorker'[m] = 1..(Len(s) + 1)
      /\ \A i \in 1..Len(s) : toWorker'[m][i] = s[i]
      /\ toWorker'[m][Len(s) + 1] = Message("cancel", c)
  BY <1>1, AppendFacts
<1>3. Message("cancel", c).kind # "call"
  BY DEF Message
<1> HIDE DEF s
<1>4. ASSUME NEW i \in DOMAIN toWorker'[m], toWorker'[m][i].kind = "call"
      PROVE  /\ i \in DOMAIN s
             /\ \A j \in 1..i : toWorker'[m][j] = s[j]
  <2>1. i \in 1..Len(s)
    BY <1>4, <1>2, <1>3
  <2>2. \A j \in 1..i : j \in 1..Len(s)
    BY <2>1, <1>2
  <2> QED
    BY <2>1, <2>2, <1>2
<1>5. DOMAIN toWorker'[m] \subseteq Nat \ {0}
  BY <1>2
<1> QED
  BY <1>4, <1>5, StandingNearer DEF s

LEMMA ReadNearer ==
  ASSUME TypeOK, NEW m \in Members, pending'[m] = pending[m], toWorker[m] # <<>>,
         toWorker'[m] = Tail(toWorker[m]),
         \A d : Working(m, d)' => Working(m, d) \/ Head(toWorker[m]) = Message("call", d)
  PROVE  Nearer(m)
<1> DEFINE s == toWorker[m]
<1>1. s \in Seq(ToWorker)
  BY DEF TypeOK, ToWorker
<1>2. /\ DOMAIN s = 1..Len(s) /\ Len(s) \in Nat /\ Len(s) > 0 /\ Head(s) = s[1]
      /\ DOMAIN toWorker'[m] = 1..(Len(s) - 1)
      /\ \A i \in 1..(Len(s) - 1) : toWorker'[m][i] = s[i + 1]
  BY <1>1, TailFacts
<1> HIDE DEF s
<1>3. ASSUME NEW i \in DOMAIN toWorker'[m], toWorker'[m][i].kind = "call"
      PROVE  /\ i + 1 \in DOMAIN s /\ s[i + 1].kind = "call"
             /\ Ahead(m, i)' \subseteq Ahead(m, i + 1)
  <2>1. i \in 1..(Len(s) - 1) /\ i + 1 \in DOMAIN s /\ (i + 1) - 1 = i
    BY <1>2
  <2>2. s[i + 1].kind = "call"
    BY <1>2, <1>3, <2>1
  <2>3. \A j \in 1..(i - 1) : j + 1 \in 1..i /\ toWorker'[m][j] = s[j + 1]
    BY <1>2, <2>1
  <2>4. 1 \in 1..i
    BY <2>1
  <2>5. ASSUME NEW d \in Ahead(m, i)'
        PROVE  d \in Ahead(m, i + 1)
    <3>1. d \in pending[m]
      BY <2>5 DEF Ahead
    <3>2. Working(m, d)' \/ \E j \in 1..(i - 1) : toWorker'[m][j] = Message("call", d)
      BY <2>5 DEF Ahead
    <3>3. Working(m, d) \/ \E j \in 1..i : s[j] = Message("call", d)
      BY <3>2, <2>3, <2>4, <1>2 DEF s
    <3> QED
      BY <3>1, <3>3, <2>1 DEF Ahead, s
  <2> QED
    BY <2>1, <2>2, <2>5
<1> QED
  BY <1>3 DEF Nearer, s

LEMMA SendKeepsRoom ==
  ASSUME IInv, Room, NEW f, NEW t \in BOOLEAN, DOMAIN f \subseteq Live,
         \A m \in DOMAIN f : f[m] \in Calls /\ call[f[m]] = "fresh" /\ HasRoom(m),
         Send(f, t)
  PROVE  Room'
<1>0. TypeOK
  BY DEF IInv
<1>1. ASSUME NEW m \in Members, m \notin DOMAIN f
      PROVE  \A i \in DOMAIN toWorker'[m] : toWorker'[m][i].kind = "call" =>
               Cardinality(Ahead(m, i)') < MemberCapacity
  <2>1. toWorker'[m] = toWorker[m] /\ pending'[m] = pending[m] /\ work' = work
    BY <1>1 DEF Send, server
  <2> QED
    BY <2>1 DEF Room, Ahead, Working
<1>2. ASSUME NEW m \in DOMAIN f
      PROVE  \A i \in DOMAIN toWorker'[m] : toWorker'[m][i].kind = "call" =>
               Cardinality(Ahead(m, i)') < MemberCapacity
  <2> DEFINE s == toWorker[m]
             x == Message("call", f[m])
  <2>1. m \in Members /\ f[m] \in Calls
    BY DEF Live
  <2>2. /\ toWorker'[m] = Append(s, x) /\ pending'[m] = pending[m] \cup {f[m]} /\ work' = work
    BY <2>1 DEF Send, server
  <2>3. s \in Seq(ToWorker) /\ x \in ToWorker
    BY <1>0, <2>1, MessageTypes DEF TypeOK, ToWorker
  <2>4. /\ DOMAIN s = 1..Len(s) /\ Len(s) \in Nat
        /\ DOMAIN toWorker'[m] = 1..(Len(s) + 1)
        /\ \A i \in 1..Len(s) : toWorker'[m][i] = s[i]
    BY <2>2, <2>3, AppendFacts
  <2>5. ~Working(m, f[m]) /\ ~Unread(m, "call", f[m])
    BY <2>1 DEF IInv, Known, At
  <2> HIDE DEF x
  <2>6. ASSUME NEW i \in 1..(Len(s) + 1)
        PROVE  Ahead(m, i)' \subseteq Ahead(m, i)
    <3>1. \A j \in 1..(i - 1) : j \in DOMAIN s /\ toWorker'[m][j] = s[j]
      BY <2>4
    <3>2. \A j \in 1..(i - 1) : s[j] # Message("call", f[m])
      BY <3>1, <2>5 DEF Unread
    <3> QED
      BY <3>1, <3>2, <2>2, <2>5 DEF Ahead, Working
  <2>7. ASSUME NEW i \in DOMAIN toWorker'[m], toWorker'[m][i].kind = "call"
        PROVE  Cardinality(Ahead(m, i)) < MemberCapacity
    <3>1. CASE i \in 1..Len(s)
      BY <3>1, <2>7, <2>1, <2>4 DEF Room
    <3>2. CASE i = Len(s) + 1
      <4>1. Cardinality(pending[m]) < MemberCapacity /\ IsFiniteSet(pending[m])
        BY <1>0, <2>1, SizesType DEF HasRoom
      <4>2. Ahead(m, i) \subseteq pending[m]
        BY DEF Ahead
      <4>3. /\ Cardinality(Ahead(m, i)) <= Cardinality(pending[m])
            /\ Cardinality(Ahead(m, i)) \in Nat /\ Cardinality(pending[m]) \in Nat
        BY <4>1, <4>2, FS_Subset, FS_CardinalityType
      <4> QED
        BY <4>1, <4>3, <1>0, SizesType
    <3> QED
      BY <3>1, <3>2, <2>4
  <2>8. ASSUME NEW i \in DOMAIN toWorker'[m], toWorker'[m][i].kind = "call"
        PROVE  Cardinality(Ahead(m, i)') < MemberCapacity
    <3>1. Ahead(m, i)' \subseteq Ahead(m, i)
      BY <2>4, <2>6
    <3>2. /\ Cardinality(Ahead(m, i)') <= Cardinality(Ahead(m, i))
          /\ Cardinality(Ahead(m, i)') \in Nat /\ Cardinality(Ahead(m, i)) \in Nat
      BY <1>0, <2>1, <3>1, NoMore
    <3> QED
      BY <2>7, <2>8, <3>2, <1>0, SizesType
  <2> QED
    BY <2>8
<1> QED
  BY <1>1, <1>2 DEF Room, MemberCapacity

LEMMA RoomKept ==
  ASSUME IInv, Room, [Next]_vars
  PROVE  Room'
<1>0. TypeOK
  BY DEF IInv
<1>1. ASSUME UNCHANGED <<pending, work, toWorker>>
      PROVE  Room'
  <2>1. ASSUME NEW n \in Members
        PROVE  Nearer(n)
    <3>1. /\ pending'[n] \subseteq pending[n] /\ toWorker'[n] = toWorker[n]
          /\ \A d : Working(n, d)' => Working(n, d)
      BY <1>1 DEF Working
    <3> QED
      BY <3>1, <1>0, SameNearer
  <2> QED
    BY <2>1, <1>0, NearerKeepsRoom
<1>2. ASSUME NEW c \in Calls, NEW t \in BOOLEAN, Call(c, t)
      PROVE  Room'
  <2>1. ASSUME NEW why, Refuse(c, why)
        PROVE  Room'
    BY <2>1, <1>1 DEF Refuse, server
  <2>2. ASSUME NEW m \in Live, HasRoom(m), Send([n \in {m} |-> c], t)
        PROVE  Room'
    <3> DEFINE f == [n \in {m} |-> c]
    <3>1. DOMAIN f \subseteq Live
      OBVIOUS
    <3>2. \A n \in DOMAIN f : f[n] \in Calls /\ call[f[n]] = "fresh" /\ HasRoom(n)
      BY <1>2, <2>2 DEF Call
    <3> HIDE DEF f
    <3> QED
      BY <2>2, <3>1, <3>2, SendKeepsRoom DEF f
  <2> QED
    BY <1>2, <2>1, <2>2 DEF Call, LeastLoaded
<1>3. ASSUME NEW t \in BOOLEAN, NEW f \in Assignments, Broadcast(f, t)
      PROVE  Room'
  <2>1. /\ DOMAIN f = Live /\ Send(f, t)
        /\ \A m \in DOMAIN f : f[m] \in Calls /\ call[f[m]] = "fresh" /\ HasRoom(m)
    BY <1>3 DEF Broadcast, BroadcastFits, Assignments
  <2> QED
    BY <2>1, SendKeepsRoom
<1>4. ASSUME NEW c \in Calls, BroadcastRefused(c)
      PROVE  Room'
  BY <1>4, <1>1 DEF BroadcastRefused, Refuse, server
<1>5. ASSUME NEW m \in Members, NEW c \in Calls, Cancel(m, c) \/ Timeout(m, c)
      PROVE  Room'
  <2>1. /\ work' = work
        /\ toWorker'[m] = Append(toWorker[m], Message("cancel", c))
        /\ \A n \in Members : n # m => toWorker'[n] = toWorker[n]
        /\ \A n \in Members : pending'[n] \subseteq pending[n]
    <3>1. CASE Cancel(m, c)
      BY <3>1, <1>0 DEF Cancel, Post, server, TypeOK
    <3>2. CASE Timeout(m, c)
      BY <3>2, <1>0 DEF Timeout, Post, server, TypeOK
    <3> QED
      BY <1>5, <3>1, <3>2
  <2>2. ASSUME NEW n \in Members
        PROVE  Nearer(n)
    <3>1. pending'[n] \subseteq pending[n] /\ \A d : Working(n, d)' => Working(n, d)
      BY <2>1 DEF Working
    <3>2. CASE n = m
      BY <3>1, <3>2, <2>1, <1>0, PostedNearer
    <3>3. CASE n # m
      BY <3>1, <3>3, <2>1, <1>0, SameNearer
    <3> QED
      BY <3>2, <3>3
  <2> QED
    BY <2>2, <1>0, NearerKeepsRoom
<1>6. ASSUME NEW ms \in SUBSET Members, NEW why, Terminate(ms, why)
      PROVE  Room'
  <2>1. ASSUME NEW n \in Members
        PROVE  Nearer(n)
    <3>1. CASE n \in ms
      <4>1. toWorker'[n] = <<>>
        BY <1>6, <3>1 DEF Terminate
      <4>2. DOMAIN toWorker'[n] = {}
        BY <4>1
      <4> QED
        BY <4>2 DEF Nearer
    <3>2. CASE n \notin ms
      <4>1. pending'[n] = pending[n] /\ toWorker'[n] = toWorker[n] /\ work'[n] = work[n]
        BY <1>6, <3>2 DEF Terminate
      <4>2. \A d : Working(n, d)' => Working(n, d)
        BY <4>1 DEF Working
      <4> QED
        BY <4>1, <4>2, <1>0, SameNearer
    <3> QED
      BY <3>1, <3>2
  <2> QED
    BY <2>1, <1>0, NearerKeepsRoom
<1>7. ASSUME NEW m \in Members, Receive(m)
      PROVE  Room'
  <2>1. ASSUME NEW n \in Members
        PROVE  Nearer(n)
    <3>1. pending'[n] \subseteq pending[n] /\ toWorker'[n] = toWorker[n]
          /\ \A d : Working(n, d)' => Working(n, d)
      BY <1>7, <1>0 DEF Receive, TypeOK, server, Working
    <3> QED
      BY <3>1, <1>0, SameNearer
  <2> QED
    BY <2>1, <1>0, NearerKeepsRoom
<1>8. ASSUME NEW m \in Members, Read(m)
      PROVE  Room'
  <2> DEFINE message == Head(toWorker[m])
             c == message.id
  <2>1. /\ toWorker[m] # <<>> /\ toWorker'[m] = Tail(toWorker[m]) /\ pending' = pending
        /\ \A n \in Members : n # m => toWorker'[n] = toWorker[n]
    BY <1>8, <1>0 DEF Read, client, TypeOK
  <2>2. c \in Calls /\ message = Message(message.kind, c)
    BY <1>0, <2>1, HeadMessage
  <2>3. \/ CancelActive(m, c) \/ CancelUnknown(m, c)
        \/ \E i \in 2..Len(work[m]) : work[m][i] = c /\ CancelQueued(m, i, c)
        \/ message.kind = "call" /\ ReadCall(m, c)
    BY <1>8 DEF Read
  <2> HIDE DEF message, c
  <2>4. \A n \in Members : n # m => work'[n] = work[n]
    BY <2>3, <1>0 DEF CancelActive, CancelUnknown, CancelQueued, ReadCall, TypeOK
  <2>5. \A d : Working(m, d)' => Working(m, d) \/ message = Message("call", d)
    <3>1. CASE CancelActive(m, c) \/ CancelUnknown(m, c)
      BY <3>1 DEF CancelActive, CancelUnknown, Working
    <3>2. ASSUME NEW i \in 2..Len(work[m]), CancelQueued(m, i, c)
          PROVE  \A d : Working(m, d)' => Working(m, d)
      <4>1. work[m] \in Seq(Calls) /\ i \in DOMAIN work[m]
        BY <1>0 DEF TypeOK
      <4>2. work'[m] = SE!RemoveAt(work[m], i) /\ WorkOnce(m)
        BY <3>2, <1>0 DEF CancelQueued, TypeOK, IInv, Sound
      <4> QED
        BY <4>1, <4>2, <1>0, Removed
    <3>3. CASE message.kind = "call" /\ ReadCall(m, c)
      <4>1. CASE work' = work
        BY <4>1 DEF Working
      <4>2. CASE work' = [work EXCEPT ![m] = Append(@, c)]
        <5>1. work'[m] = Append(work[m], c)
          BY <4>2, <1>0 DEF TypeOK
        <5>2. \A d : Working(m, d)' <=> Working(m, d) \/ c = d
          BY <5>1, <2>2, <1>0, Enqueued
        <5> QED
          BY <5>2, <2>2, <3>3
      <4> QED
        BY <3>3, <4>1, <4>2 DEF ReadCall
    <3> QED
      BY <3>1, <3>2, <3>3, <2>3
  <2>6. ASSUME NEW n \in Members
        PROVE  Nearer(n)
    <3>1. CASE n = m
      BY <3>1, <2>1, <2>5, <1>0, ReadNearer DEF message
    <3>2. CASE n # m
      <4>1. /\ pending'[n] \subseteq pending[n] /\ toWorker'[n] = toWorker[n]
            /\ \A d : Working(n, d)' => Working(n, d)
        BY <3>2, <2>1, <2>4 DEF Working
      <4> QED
        BY <4>1, <1>0, SameNearer
    <3> QED
      BY <3>1, <3>2
  <2> QED
    BY <2>6, <1>0, NearerKeepsRoom
<1>9. ASSUME NEW m \in Members, Die(m) \/ \E how \in {"result", "failed"} : Finish(m, how)
      PROVE  Room'
  <2>1. ASSUME NEW n \in Members
        PROVE  Nearer(n)
    <3>1. pending'[n] = pending[n] /\ toWorker'[n] = toWorker[n]
      BY <1>9 DEF Die, Finish, client
    <3>2. \A d : Working(n, d)' => Working(n, d)
      <4>1. CASE n # m
        <5>1. work'[n] = work[n]
          BY <4>1, <1>9, <1>0 DEF Die, Finish, TypeOK
        <5> QED
          BY <5>1 DEF Working
      <4>2. CASE n = m /\ Die(m)
        <5>1. work'[n] = <<>>
          BY <4>2, <1>0 DEF Die, TypeOK
        <5>2. DOMAIN work'[n] = {}
          BY <5>1
        <5> QED
          BY <5>2 DEF Working
      <4>3. CASE n = m /\ \E how \in {"result", "failed"} : Finish(m, how)
        <5>1. /\ work[n] \in Seq(Calls) /\ work[n] # <<>> /\ work'[n] = Tail(work[n])
          BY <4>3, <1>0 DEF Finish, TypeOK
        <5>2. /\ DOMAIN work[n] = 1..Len(work[n]) /\ Len(work[n]) \in Nat
              /\ DOMAIN work'[n] = 1..(Len(work[n]) - 1)
              /\ \A i \in 1..(Len(work[n]) - 1) : work'[n][i] = work[n][i + 1]
          BY <5>1, TailFacts
        <5>3. \A i \in 1..(Len(work[n]) - 1) : i + 1 \in DOMAIN work[n]
          BY <5>2
        <5> QED
          BY <5>2, <5>3 DEF Working
      <4> QED
        BY <4>1, <4>2, <4>3, <1>9
    <3> QED
      BY <3>1, <3>2, <1>0, SameNearer
  <2> QED
    BY <2>1, <1>0, NearerKeepsRoom
<1>10. ASSUME NEW m \in Members, Stick(m) \/ Resume(m)
       PROVE  Room'
  BY <1>10, <1>1 DEF Stick, Resume, client
<1>11. ASSUME NEW m \in Members, Grace(m) \/ Notice(m)
       PROVE  Room'
  BY <1>11, <1>6 DEF Grace, Notice
<1>12. CASE ClosePool
  BY <1>12, <1>6 DEF ClosePool, Live
<1>13. CASE UNCHANGED vars
  BY <1>13, <1>1 DEF vars, client, server
<1> QED
  BY <1>2, <1>3, <1>4, <1>5, <1>7, <1>8, <1>9, <1>10, <1>11, <1>12, <1>13 DEF Next

LEMMA InitRoom == ASSUME Init PROVE Room
<1>1. \A m \in Members : DOMAIN toWorker[m] = {}
  BY DEF Init
<1> QED
  BY <1>1 DEF Room

(* A queue without repetitions is no longer than a set it is drawn from. *)
LEMMA NoLonger ==
  ASSUME NEW S, IsFiniteSet(S), NEW s \in Seq(S),
         \A i, j \in DOMAIN s : s[i] = s[j] => i = j
  PROVE  Len(s) <= Cardinality(S)
<1> DEFINE D == 1..Len(s)
<1>1. Len(s) \in Nat /\ DOMAIN s = D /\ s \in [D -> S]
  OBVIOUS
<1>2. s \in Injection(D, S)
  BY <1>1 DEF Injection, IsInjective
<1>3. Cardinality(D) <= Cardinality(S)
  BY <1>2, FS_Injection
<1>4. Cardinality(D) = Len(s)
  BY <1>1, FS_Interval
<1> QED
  BY <1>3, <1>4

(* What a refused request stands behind, when the entry is full. *)
LEMMA FullBehindTheLost ==
  ASSUME IInv, Room, NEW m \in Members, NEW c \in Calls, toWorker[m] # <<>>,
         Head(toWorker[m]).kind = "call", EntryFull(m), MemberCapacity <= capacity
  PROVE  \E i \in DOMAIN work[m] : work[m][i] \notin pending[m]
<1> SUFFICES ASSUME \A i \in DOMAIN work[m] : work[m][i] \in pending[m]
             PROVE  FALSE
  OBVIOUS
<1> DEFINE s == work[m]
<1>0. TypeOK
  BY DEF IInv
<1>1. s \in Seq(Calls) /\ Len(s) \in Nat /\ capacity \in Nat
  BY <1>0, WorkersAssumption DEF TypeOK
<1>2. \A i \in DOMAIN s : s[i] \in Ahead(m, 1)
  BY DEF Ahead, Working
<1>3. IsFiniteSet(Ahead(m, 1)) /\ Cardinality(Ahead(m, 1)) \in Nat
  BY <1>0, NoMore
<1>4. \A i, j \in DOMAIN s : s[i] = s[j] => i = j
  BY DEF IInv, Sound, WorkOnce
<1>5. Len(s) >= capacity
  BY DEF EntryFull
<1> HIDE DEF s
<1>6. s \in Seq(Ahead(m, 1))
  BY <1>1, <1>2
<1>7. Len(s) <= Cardinality(Ahead(m, 1))
  BY <1>3, <1>4, <1>6, NoLonger
<1>8. Cardinality(Ahead(m, 1)) < MemberCapacity
  <2>1. toWorker[m] \in Seq(ToWorker)
    BY <1>0 DEF TypeOK, ToWorker
  <2>2. 1 \in DOMAIN toWorker[m] /\ toWorker[m][1].kind = "call"
    BY <2>1, TailFacts
  <2> QED
    BY <2>2 DEF Room
<1> QED
  BY <1>0, <1>1, <1>3, <1>5, <1>7, <1>8, SizesType

(* Only an entry that is full, on reading a call, answers "refused". *)
LEMMA RefusesAtAFullQueue ==
  ASSUME IInv, Next, NEW m \in Members, Len(toClient'[m]) > Len(toClient[m]),
         toClient'[m][Len(toClient'[m])].kind = "refused"
  PROVE  /\ toWorker[m] # <<>> /\ Head(toWorker[m]).kind = "call"
         /\ EntryFull(m) /\ Head(toWorker[m]).id \in Calls
<1>0. TypeOK
  BY DEF IInv
<1>1. toClient[m] \in Seq(ToClient) /\ Len(toClient[m]) \in Nat
  <2>1. toClient[m] \in Seq(ToClient)
    BY <1>0 DEF TypeOK, ToClient
  <2> QED
    BY <2>1
<1>2. toClient'[m] # toClient[m]
  BY <1>1
<1>3. ASSUME NEW x \in ToClient, toClient'[m] = Append(toClient[m], x)
      PROVE  x.kind = "refused"
  <2>1. toClient'[m][Len(toClient'[m])] = x
    BY <1>1, <1>3, AppendFacts
  <2> QED
    BY <2>1
<1>4. CASE Read(m)
  <2> DEFINE message == Head(toWorker[m])
             c == message.id
  <2>1. toWorker[m] # <<>> /\ c \in Calls
    BY <1>4, <1>0, HeadMessage DEF Read
  <2>2. \/ CancelActive(m, c) \/ CancelUnknown(m, c)
        \/ \E i \in 2..Len(work[m]) : work[m][i] = c /\ CancelQueued(m, i, c)
        \/ message.kind = "call" /\ ReadCall(m, c)
    BY <1>4 DEF Read
  <2> HIDE DEF message, c
  <2>3. ~(CancelActive(m, c) \/ CancelUnknown(m, c))
    <3>1. ASSUME Replied(m, <<Message("ack", c)>>)
          PROVE  FALSE
      <4>1. Message("ack", c) \in ToClient
        BY <2>1, MessageTypes DEF Replies
      <4>2. toClient'[m] = toClient[m] \o <<Message("ack", c)>>
        BY <3>1, <1>0 DEF Replied, TypeOK
      <4>3. toClient'[m] = Append(toClient[m], Message("ack", c))
        BY <4>1, <4>2, <1>1, AppendFacts
      <4> QED
        BY <4>1, <4>3, <1>3 DEF Message
    <3> QED
      BY <3>1 DEF CancelActive, CancelUnknown
  <2>4. ASSUME NEW i \in 2..Len(work[m]), CancelQueued(m, i, c)
        PROVE  FALSE
    <3> DEFINE a == Message("ack", c)
               f == Message("failed", c)
    <3>1. a \in ToClient /\ f \in ToClient /\ f.kind = "failed"
      BY <2>1, MessageTypes DEF Replies, Message
    <3>2. toClient'[m] = toClient[m] \o <<a, f>>
      BY <2>4, <1>0 DEF CancelQueued, Replied, TypeOK
    <3> HIDE DEF a, f
    <3>3. toClient'[m][Len(toClient'[m])] = f
      BY <3>1, <3>2, <1>1
    <3> QED
      BY <3>1, <3>3
  <2>5. message.kind = "call" /\ EntryFull(m)
    BY <1>2, <2>2, <2>3, <2>4 DEF ReadCall
  <2> QED
    BY <2>1, <2>5 DEF message, c
<1>5. ASSUME NEW n \in Members, Read(n), n # m
      PROVE  FALSE
  BY <1>0, <1>2, <1>5 DEF Read, CancelActive, CancelQueued, CancelUnknown, ReadCall, Replied, TypeOK
<1>6. ASSUME NEW n \in Members, NEW how \in {"result", "failed"}, Finish(n, how)
      PROVE  FALSE
  <2>1. n = m
    BY <1>0, <1>2, <1>6 DEF Finish, Replied, TypeOK
  <2>2. Head(work[m]) \in Calls
    BY <1>0, <1>6, <2>1, TailFacts DEF Finish, TypeOK
  <2> DEFINE x == Message(how, Head(work[m]))
  <2>3. x \in ToClient /\ x.kind # "refused"
    BY <2>2, MessageTypes DEF Replies, Message
  <2>4. toClient'[m] = toClient[m] \o <<x>>
    BY <1>0, <1>6, <2>1 DEF Finish, Replied, TypeOK
  <2> HIDE DEF x
  <2>5. toClient'[m] = Append(toClient[m], x)
    BY <2>3, <2>4, <1>1, AppendFacts
  <2> QED
    BY <2>3, <2>5, <1>3
<1>7. ASSUME NEW ms, NEW why, Terminate(ms, why)
      PROVE  FALSE
  <2>1. toClient'[m] = <<>>
    BY <1>2, <1>7 DEF Terminate
  <2>2. Len(toClient'[m]) = 0
    BY <2>1
  <2> QED
    BY <2>2, <1>1
<1>8. ASSUME NEW n \in Members, Receive(n)
      PROVE  FALSE
  <2>1. n = m
    BY <1>0, <1>2, <1>8 DEF Receive, TypeOK
  <2>2. toClient[m] # <<>> /\ toClient'[m] = Tail(toClient[m])
    BY <1>0, <1>8, <2>1 DEF Receive, TypeOK
  <2> QED
    BY <2>2, <1>1, TailFacts
<1>9. CASE UNCHANGED toClient
  BY <1>2, <1>9
<1> QED
  <2>1. ASSUME NEW c \in Calls, NEW t \in BOOLEAN, Call(c, t)
        PROVE  UNCHANGED toClient
    BY <2>1 DEF Call, Refuse, Send
  <2>2. ASSUME NEW t \in BOOLEAN, NEW f \in Assignments, Broadcast(f, t)
        PROVE  UNCHANGED toClient
    BY <2>2 DEF Broadcast, Send
  <2>3. ASSUME NEW c \in Calls, BroadcastRefused(c)
        PROVE  UNCHANGED toClient
    BY <2>3 DEF BroadcastRefused, Refuse
  <2>4. ASSUME NEW n \in Members, NEW c \in Calls, Cancel(n, c) \/ Timeout(n, c)
        PROVE  UNCHANGED toClient
    BY <2>4 DEF Cancel, Timeout
  <2>5. ASSUME NEW n \in Members, Stick(n) \/ Resume(n) \/ Die(n)
        PROVE  UNCHANGED toClient
    BY <2>5 DEF Stick, Resume, Die
  <2>6. ASSUME (\E n \in Members : Grace(n) \/ Notice(n)) \/ ClosePool
        PROVE  FALSE
    BY <2>6, <1>7 DEF Grace, Notice, ClosePool
  <2> QED
    BY <1>4, <1>5, <1>6, <1>8, <1>9, <2>1, <2>2, <2>3, <2>4, <2>5, <2>6 DEF Next

(* Whenever a member's entry refuses a call though its queue is at least   *)
(* as long as the pool lets a member have, it still has a call whose       *)
(* caller has gone: the bound workerPool counts by and the bound           *)
(* serveWorker counts by disagree for no other reason (worker.js).         *)
THEOREM OnlyTheLostFillTheQueue == Spec => RefusedOnlyBehindTheLost
<1>1. Init => IInv /\ Room
  BY InitInv, InitRoom
<1>2. IInv /\ Room /\ [Next]_vars => (IInv /\ Room)'
  BY Invariance, RoomKept
<1>3. IInv /\ Room /\ [Next]_vars =>
        [\A m \in Members :
           /\ MemberCapacity <= capacity
           /\ Len(toClient'[m]) > Len(toClient[m])
           /\ toClient'[m][Len(toClient'[m])].kind = "refused"
           => \E i \in DOMAIN work[m] : work[m][i] \notin pending[m]]_vars
  <2>1. ASSUME IInv, Room, Next, NEW m \in Members, MemberCapacity <= capacity,
               Len(toClient'[m]) > Len(toClient[m]),
               toClient'[m][Len(toClient'[m])].kind = "refused"
        PROVE  \E i \in DOMAIN work[m] : work[m][i] \notin pending[m]
    BY <2>1, RefusesAtAFullQueue, FullBehindTheLost
  <2> QED
    BY <2>1
<1> QED
  BY <1>1, <1>2, <1>3, PTL DEF Spec, RefusedOnlyBehindTheLost
=============================================================================
