------------------------------- MODULE Channel -------------------------------
(***************************************************************************)
(* channel() of velar/task (packages/core/runtime/task.js): a bounded      *)
(* buffer with a bounded line of waiting senders, at most one waiting      *)
(* receiver, cancellation of either kind of waiter, and close().           *)
(*                                                                         *)
(* One JavaScript turn runs an operation to its end, so an operation is    *)
(* one action.  The exception is the walk of a cancelled token's           *)
(* listeners: it rejects the waiters one after the other, and the states   *)
(* between two of them are kept (variable firing), with every other        *)
(* operation held back until the walk is over.                             *)
(*                                                                         *)
(* A value is named by the call that sends it: no property looks into it.  *)
(***************************************************************************)
EXTENDS Naturals, Sequences

SE == INSTANCE SequencesExt

CONSTANTS Calls,      \* the send, trySend and next calls of a run
          Tokens,     \* the Cancellation values those calls may be given
          Capacity,   \* the capacity channel() was created with
          None        \* the absence of a receiver, a token or a value

ASSUME CapacityAssumption == Capacity \in Nat \ {0}
ASSUME NoneAssumption == None \notin Calls /\ None \notin Tokens

VARIABLES
  values,     \* the buffered values, oldest first
  senders,    \* the waiting send calls, in the order they were made
  receiver,   \* the waiting next call, or None
  closed,
  status,     \* what the promise (or the return) of each call says so far
  token,      \* the cancellation each waiting call was given, or None
  listeners,  \* the calls each token would reject
  cancelled,  \* the tokens cancelled so far
  firing,     \* the listeners the running cancellation has still to call
  taken,      \* history: the values handed to receivers, in order
  stamp,      \* history: when each accepted or waiting send was made
  clock       \* history: how many were made

queues == <<values, senders, receiver, closed>>
tokens == <<token, listeners, cancelled, firing>>
history == <<taken, stamp, clock>>
vars == <<values, senders, receiver, closed, status, token, listeners,
          cancelled, firing, taken, stamp, clock>>

Refusals == {"closed", "invalid", "backpressure", "cancelled", "full"}
Outcomes == Refusals \cup {"sent", "received", "ended"}

Init ==
  /\ values = <<>> /\ senders = <<>> /\ receiver = None /\ closed = FALSE
  /\ status = [c \in Calls |-> "idle"]
  /\ token = [c \in Calls |-> None]
  /\ listeners = [t \in Tokens |-> {}]
  /\ cancelled = {} /\ firing = {}
  /\ taken = <<>> /\ stamp = [c \in Calls |-> 0] /\ clock = 0

-----------------------------------------------------------------------------
(* Pieces of the operations.                                               *)

(* A call can be made when no listener walk is under way. *)
Callable(c) == firing = {} /\ status[c] = "idle"

(* The arrays are pushed at the back and shifted at the front. *)
PushAtFront(queue, c) == <<c>> \o queue
Push(queue, c) == Append(queue, c)

(* send and trySend buffer while this holds. *)
HasRoom == Len(values) < Capacity

(* The listeners that remain once the waiters W have unsubscribed. *)
ForgettingNothing(W) == listeners
Forgetting(W) == [t \in Tokens |-> listeners[t] \ W]

(* A waiter is active until something settles it. *)
Active(w) == status[w] = "waiting"

(* The call is answered on the spot and leaves no other trace. *)
Answer(c, outcome) ==
  /\ status' = [status EXCEPT ![c] = outcome]
  /\ UNCHANGED <<queues, tokens, history>>

(* History: the call is stamped with its turn. *)
Stamp(c) == clock' = clock + 1 /\ stamp' = [stamp EXCEPT ![c] = clock + 1]

(* Send and trySend begin alike: a waiting receiver takes the value at     *)
(* once, and otherwise a free place of the buffer does.  Whether the       *)
(* receiver was still active is not looked at: were it not, the value      *)
(* would be lost.                                                          *)
HandOver(c) ==
  /\ ~closed /\ receiver # None
  /\ receiver' = None
  /\ IF Active(receiver)
       THEN /\ status' = [status EXCEPT ![c] = "sent", ![receiver] = "received"]
            /\ taken' = Append(taken, c)
       ELSE status' = [status EXCEPT ![c] = "sent"] /\ UNCHANGED taken
  /\ listeners' = Forgetting({receiver})
  /\ Stamp(c)
  /\ UNCHANGED <<values, senders, closed, token, cancelled, firing>>

Buffer(c) ==
  /\ ~closed /\ receiver = None /\ HasRoom
  /\ values' = Push(values, c)
  /\ status' = [status EXCEPT ![c] = "sent"]
  /\ Stamp(c)
  /\ UNCHANGED <<senders, receiver, closed, tokens, taken>>

Full == ~closed /\ receiver = None /\ ~HasRoom

(* A waiter registers with the token its call was given. *)
Wait(c, t) ==
  /\ status' = [status EXCEPT ![c] = "waiting"]
  /\ token' = [token EXCEPT ![c] = t]
  /\ listeners' = [u \in Tokens |-> IF u = t THEN listeners[u] \cup {c}
                                             ELSE listeners[u]]
  /\ UNCHANGED <<cancelled, firing>>

-----------------------------------------------------------------------------
(* The operations.  The value is parsed after the closed test.             *)

(* A cancelled token's listener runs at once and undoes the wait. *)
SendWaits(c, t) ==
  /\ Full /\ Len(senders) < Capacity
  /\ IF t \in cancelled
       THEN Answer(c, "cancelled")
       ELSE /\ Wait(c, t)
            /\ senders' = Push(senders, c)
            /\ Stamp(c)
            /\ UNCHANGED <<values, receiver, closed, taken>>

Send(c, t) ==
  /\ Callable(c)
  /\ \/ closed /\ Answer(c, "closed")
     \/ ~closed /\ Answer(c, "invalid")
     \/ HandOver(c)
     \/ Buffer(c)
     \/ Full /\ Len(senders) >= Capacity /\ Answer(c, "backpressure")
     \/ SendWaits(c, t)

TrySend(c) ==
  /\ Callable(c)
  /\ \/ closed /\ Answer(c, "closed")
     \/ ~closed /\ Answer(c, "invalid")
     \/ HandOver(c)
     \/ Buffer(c)
     \/ Full /\ Answer(c, "full")

(* A next that finds the buffer occupied takes its oldest value and lets   *)
(* the first waiting sender put its own in the place that became free.     *)
PromotesNobody == FALSE
Promotes == senders # <<>>

Take(c) ==
  /\ values # <<>>
  /\ taken' = Append(taken, Head(values))
  /\ IF Promotes
       THEN /\ values' = Push(Tail(values), Head(senders))
            /\ senders' = Tail(senders)
            /\ status' = [status EXCEPT ![c] = "received",
                                        ![Head(senders)] = "sent"]
            /\ listeners' = Forgetting({Head(senders)})
       ELSE /\ values' = Tail(values)
            /\ status' = [status EXCEPT ![c] = "received"]
            /\ UNCHANGED <<senders, listeners>>
  /\ UNCHANGED <<receiver, closed, token, cancelled, firing, stamp, clock>>

NextWaits(c, t) ==
  /\ values = <<>> /\ ~closed /\ receiver = None
  /\ IF t \in cancelled
       THEN Answer(c, "cancelled")
       ELSE /\ Wait(c, t)
            /\ receiver' = c
            /\ UNCHANGED <<values, senders, closed, history>>

NextCall(c, t) ==
  /\ Callable(c)
  /\ \/ Take(c)
     \/ values = <<>> /\ closed /\ Answer(c, "ended")
     \/ values = <<>> /\ ~closed /\ receiver # None /\ Answer(c, "backpressure")
     \/ NextWaits(c, t)

(* close() rejects every waiting sender and ends the waiting receiver when *)
(* nothing is buffered; what is buffered stays to be taken.                *)
KeptNothing == <<>>
Kept == values

Close ==
  /\ firing = {} /\ ~closed
  /\ closed' = TRUE
  /\ values' = Kept
  /\ LET rejected == SE!ToSet(senders)
         ended == IF values = <<>> THEN {receiver} ELSE {} IN
     /\ senders' = <<>>
     /\ receiver' = IF values = <<>> THEN None ELSE receiver
     /\ status' = [c \in Calls |-> IF c \in rejected THEN "closed"
                                   ELSE IF c \in ended THEN "ended"
                                   ELSE status[c]]
     /\ listeners' = Forgetting(rejected \cup ended)
  /\ UNCHANGED <<token, cancelled, firing, history>>

(* A token is cancelled once; its listeners are then called one by one,    *)
(* and each takes its waiter out of the channel and rejects it.            *)
Cancel(t) ==
  /\ firing = {} /\ t \notin cancelled
  /\ cancelled' = cancelled \cup {t}
  /\ firing' = listeners[t]
  /\ UNCHANGED <<queues, status, token, listeners, history>>

Fire(c) ==
  /\ c \in firing
  /\ firing' = firing \ {c}
  /\ status' = [status EXCEPT ![c] = "cancelled"]
  /\ listeners' = Forgetting({c})
  /\ UNCHANGED <<values, closed, token, cancelled, history>>

FireSender(c) ==
  /\ Fire(c)
  /\ \E i \in DOMAIN senders :
       senders[i] = c /\ senders' = SE!RemoveAt(senders, i)
  /\ UNCHANGED receiver

ReceiverKept == receiver
ReceiverCleared == None

FireReceiver(c) ==
  /\ Fire(c)
  /\ receiver = c
  /\ receiver' = ReceiverCleared
  /\ UNCHANGED senders

Next ==
  \/ \E c \in Calls, t \in Tokens \cup {None} : Send(c, t)
  \/ \E c \in Calls : TrySend(c)
  \/ \E c \in Calls, t \in Tokens \cup {None} : NextCall(c, t)
  \/ Close
  \/ \E t \in Tokens : Cancel(t)
  \/ \E c \in Calls : FireSender(c) \/ FireReceiver(c)

Spec == Init /\ [][Next]_vars

-----------------------------------------------------------------------------
(* Type invariant. *)
TypeOK ==
  /\ values \in Seq(Calls) /\ Len(values) <= Capacity
  /\ senders \in Seq(Calls) /\ Len(senders) <= Capacity
  /\ receiver \in Calls \cup {None}
  /\ closed \in BOOLEAN
  /\ status \in [Calls -> Outcomes \cup {"idle", "waiting"}]
  /\ token \in [Calls -> Tokens \cup {None}]
  /\ listeners \in [Tokens -> SUBSET Calls]
  /\ cancelled \subseteq Tokens /\ firing \subseteq Calls
  /\ taken \in Seq(Calls)
  /\ stamp \in [Calls -> Nat] /\ clock \in Nat

(* No lost wake-up: a sender waits only behind a full buffer, a receiver   *)
(* only before an empty one, and neither outlives close().  It relates     *)
(* what send, next, close and the cancellation listeners each leave.       *)
NobodyWaitsInVain ==
  /\ senders # <<>> => Len(values) = Capacity /\ ~closed
  /\ receiver # None => values = <<>> /\ ~closed

(* No orphan promise: an unsettled call is exactly one the channel still   *)
(* holds, so something can still settle it; and a token keeps a listener   *)
(* exactly for the waiting calls it was given to, so a settled wait leaves *)
(* nothing behind in a long-lived token.                                   *)
WaitersAreHeld ==
  /\ \A c \in Calls :
       status[c] = "waiting" <=> receiver = c \/ c \in SE!ToSet(senders)
  /\ \A t \in Tokens : \A c \in Calls :
       c \in listeners[t] <=> status[c] = "waiting" /\ token[c] = t

(* Everything that went in, in the order it will come out. *)
Line == taken \o values \o senders

(* First in, first out across the buffer and the waiting line: the values  *)
(* come out in the order of the send calls, each one once, however         *)
(* cancellations and trySend calls fall in between.                        *)
Fifo == \A i, j \in DOMAIN Line : i < j => stamp[Line[i]] < stamp[Line[j]]

(* A send that resolved is buffered or taken, and one that was refused,    *)
(* rejected or cancelled never reaches a receiver.                         *)
SentIsKept ==
  \A c \in Calls :
    status[c] = "sent" <=> c \in SE!ToSet(taken) \cup SE!ToSet(values)

(* The channel keeps the promise of a bounded first-in first-out line:     *)
(* ChannelPromise says which changes of the line an operation may make.    *)
Promise == INSTANCE ChannelPromise WITH
             line <- values \o senders, out <- taken, open <- ~closed
KeepsPromise == Promise!Spec
=============================================================================
