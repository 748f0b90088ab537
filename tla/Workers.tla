------------------------------ MODULE Workers -------------------------------
(***************************************************************************)
(* The workers of velar/worker: a pool of native Workers on the side that  *)
(* calls, and the message loop serveWorker installs in each of them.  A    *)
(* single Worker is a pool of one (but for the error that names it).       *)
(*                                                                         *)
(* A step is a turn of one event loop.  The two directions of a message    *)
(* channel are queues in posting order; a Worker that is terminated takes  *)
(* its channel along.  A call is known by its id; requests, responses and  *)
(* their checks are left out, a reply says only how the handler ended.     *)
(* Time is left out, but for one assumption: the grace period is longer    *)
(* than a message loop that runs, the caller's included, needs to read     *)
(* what was posted to it.                                                  *)
(***************************************************************************)
EXTENDS Naturals, FiniteSets, Sequences

SE == INSTANCE SequencesExt

CONSTANTS
  Calls,          \* the ids of calls, each used once
  Members,        \* the Workers of the pool
  PoolCapacity,   \* capacity of workerPool
  Capacities      \* what the entry may give serveWorker as its capacity

ASSUME WorkersAssumption ==
  /\ PoolCapacity \in Nat \ {0} /\ Capacities \subseteq Nat \ {0}
  /\ IsFiniteSet(Members) /\ Members # {} /\ IsFiniteSet(Calls)
  /\ PoolCapacity >= Cardinality(Members)

VARIABLES
  call,       \* what each call was answered: "fresh" before, "pending" until then
  pending, abandoned, closed,  \* of the members, on the calling side
  timed, cancelled,            \* the pending calls with a timer; those cancelled
  poolClosed,
  toWorker, toClient,          \* the channel of each member
  capacity,   \* of serveWorker, the same in every member
  entry,      \* the message loop of each member: "running", "stuck" or "dead"
  work,       \* active and queue of the entry: the head is the active call
  told        \* the entries whose active handler has its Cancellation cancelled

client == <<call, pending, abandoned, closed, timed, cancelled, poolClosed>>
server == <<capacity, entry, work, told>>
vars == <<client, toWorker, toClient, server>>

Answers == {"result", "failed", "refused", "cancelled", "timeout", "crashed", "closed", "full"}
Replies == {"ack", "result", "failed", "refused"}

Message(kind, c) == [kind |-> kind, id |-> c]

(* Math.ceil(capacity / size) *)
MemberCapacity == (PoolCapacity + Cardinality(Members) - 1) \div Cardinality(Members)

Live == Members \ closed
Waiting == UNION {pending[m] : m \in Live}

Init ==
  /\ call = [c \in Calls |-> "fresh"]
  /\ pending = [m \in Members |-> {}] /\ abandoned = [m \in Members |-> {}]
  /\ closed = {} /\ timed = {} /\ cancelled = {} /\ poolClosed = FALSE
  /\ toWorker = [m \in Members |-> <<>>] /\ toClient = [m \in Members |-> <<>>]
  /\ capacity \in Capacities /\ entry = [m \in Members |-> "running"]
  /\ work = [m \in Members |-> <<>>] /\ told = {}

-----------------------------------------------------------------------------
(* The calling side.                                                       *)

Post(m, message) == toWorker' = [toWorker EXCEPT ![m] = Append(@, message)]

Answer(cs, how) ==
  /\ call' = [c \in Calls |-> IF c \in cs THEN how ELSE call[c]]
  /\ timed' = timed \ cs /\ cancelled' = cancelled \ cs

(* Worker.call at each member of the domain of f at once.                  *)
Send(f, withTimeout) ==
  LET cs == {f[m] : m \in DOMAIN f}
      sent(m) == IF m \in DOMAIN f THEN {f[m]} ELSE {} IN
  /\ call' = [c \in Calls |-> IF c \in cs THEN "pending" ELSE call[c]]
  /\ pending' = [m \in Members |-> pending[m] \cup sent(m)]
  /\ timed' = IF withTimeout THEN timed \cup cs ELSE timed
  /\ toWorker' = [m \in Members |-> IF m \in DOMAIN f
                    THEN Append(toWorker[m], Message("call", f[m])) ELSE toWorker[m]]
  /\ UNCHANGED <<abandoned, closed, cancelled, poolClosed, toClient, server>>

Refuse(c, why) ==
  /\ Answer({c}, why)
  /\ UNCHANGED <<pending, abandoned, closed, poolClosed, toWorker, toClient, server>>

HasRoom(m) == Cardinality(pending[m]) < MemberCapacity
PoolHasRoom(n) == Cardinality(Waiting) + n <= PoolCapacity

(* The members a call may go to; of several the code takes the first.      *)
LeastLoaded ==
  {m \in Live : \A n \in Live : Cardinality(pending[m]) <= Cardinality(pending[n])}

(* WorkerPool.call and Worker.call.  A timer is armed for a timeout.       *)
Call(c, withTimeout) ==
  /\ call[c] = "fresh"
  /\ \/ poolClosed /\ Refuse(c, "closed")
     \/ ~poolClosed /\ Live = {} /\ Refuse(c, "crashed")
     \/ /\ ~poolClosed
        /\ \E m \in LeastLoaded :
             \/ ~(PoolHasRoom(1) /\ HasRoom(m)) /\ Refuse(c, "full")
             \/ PoolHasRoom(1) /\ HasRoom(m) /\ Send([n \in {m} |-> c], withTimeout)

(* WorkerPool.broadcast: to all live members or to none.                   *)
BroadcastFits == PoolHasRoom(Cardinality(Live)) /\ \A m \in Live : HasRoom(m)

Broadcast(f, withTimeout) ==
  /\ \A m \in Live : call[f[m]] = "fresh"
  /\ ~poolClosed /\ Live # {} /\ BroadcastFits
  /\ Send(f, withTimeout)

BroadcastRefused(c) ==
  /\ call[c] = "fresh"
  /\ ~poolClosed /\ Live # {} /\ ~BroadcastFits
  /\ Refuse(c, "full")

(* The listener of the caller's Cancellation.  A call made with one that   *)
(* is cancelled already is this step right after Call.                     *)
Cancel(m, c) ==
  /\ c \in pending[m] /\ c \notin cancelled
  /\ cancelled' = cancelled \cup {c}
  /\ Post(m, Message("cancel", c))
  /\ UNCHANGED <<call, pending, abandoned, closed, timed, poolClosed, toClient, server>>

(* The timer of a call; it starts a grace period for the Worker.           *)
NoGrace(c) == {}
GraceFor(c) == {c}

Timeout(m, c) ==
  /\ c \in pending[m] /\ c \in timed /\ c \notin cancelled
  /\ pending' = [pending EXCEPT ![m] = @ \ {c}]
  /\ abandoned' = [abandoned EXCEPT ![m] = @ \cup GraceFor(c)]
  /\ Answer({c}, "timeout")
  /\ Post(m, Message("cancel", c))
  /\ UNCHANGED <<closed, poolClosed, toClient, server>>

(* RejectAll and terminate, for the members ms.                            *)
Terminate(ms, why) ==
  /\ closed' = closed \cup ms
  /\ Answer(UNION {pending[m] : m \in ms}, why)
  /\ pending' = [m \in Members |-> IF m \in ms THEN {} ELSE pending[m]]
  /\ abandoned' = [m \in Members |-> IF m \in ms THEN {} ELSE abandoned[m]]
  /\ toWorker' = [m \in Members |-> IF m \in ms THEN <<>> ELSE toWorker[m]]
  /\ toClient' = [m \in Members |-> IF m \in ms THEN <<>> ELSE toClient[m]]
  /\ entry' = [m \in Members |-> IF m \in ms THEN "dead" ELSE entry[m]]
  /\ work' = [m \in Members |-> IF m \in ms THEN <<>> ELSE work[m]]
  /\ told' = told \ ms
  /\ UNCHANGED capacity

(* The timer of the grace period.                                          *)
Grace(m) ==
  /\ abandoned[m] # {}
  /\ toClient[m] = <<>> /\ (entry[m] = "running" => toWorker[m] = <<>>)
  /\ Terminate({m}, "crashed") /\ UNCHANGED poolClosed

(* The "error" or "exit" event of the native Worker; replies that had not  *)
(* arrived are lost.                                                       *)
Notice(m) ==
  /\ m \in Live /\ entry[m] = "dead"
  /\ Terminate({m}, "crashed") /\ UNCHANGED poolClosed

ClosePool ==
  /\ ~poolClosed /\ poolClosed' = TRUE
  /\ Terminate(Live, "closed")

(* The "message" event: any reply ends the grace period of its call.       *)
Receive(m) ==
  /\ toClient[m] # <<>>
  /\ toClient' = [toClient EXCEPT ![m] = Tail(@)]
  /\ LET reply == Head(toClient[m]) IN
       /\ abandoned' = [abandoned EXCEPT ![m] = @ \ {reply.id}]
       /\ IF reply.kind = "ack" \/ reply.id \notin pending[m]
            THEN UNCHANGED <<call, pending, timed, cancelled>>
            ELSE /\ pending' = [pending EXCEPT ![m] = @ \ {reply.id}]
                 /\ Answer({reply.id}, IF reply.id \in cancelled THEN "cancelled" ELSE reply.kind)
  /\ UNCHANGED <<closed, poolClosed, toWorker, server>>

-----------------------------------------------------------------------------
(* The worker's side: serveWorker.                                         *)

Replied(m, messages) == toClient' = [toClient EXCEPT ![m] = @ \o messages]

Active(m, c) == work[m] # <<>> /\ Head(work[m]) = c
Working(m, c) == \E i \in DOMAIN work[m] : work[m][i] = c

(* A cancel is acknowledged first, whatever it finds.                      *)
CancelActiveUntold(m, c) ==
  Active(m, c) /\ Replied(m, <<Message("ack", c)>>) /\ UNCHANGED <<work, told>>
CancelActiveSilent(m, c) ==
  Active(m, c) /\ told' = told \cup {m} /\ UNCHANGED <<work, toClient>>
CancelActive(m, c) ==
  /\ Active(m, c)
  /\ told' = told \cup {m}
  /\ Replied(m, <<Message("ack", c)>>)
  /\ UNCHANGED work

CancelQueuedKept(m, i, c) ==
  Replied(m, <<Message("ack", c), Message("failed", c)>>) /\ UNCHANGED <<work, told>>
CancelQueuedSilent(m, i, c) ==
  /\ work' = [work EXCEPT ![m] = SE!RemoveAt(@, i)]
  /\ Replied(m, <<Message("ack", c)>>) /\ UNCHANGED told
CancelQueued(m, i, c) ==
  /\ work' = [work EXCEPT ![m] = SE!RemoveAt(@, i)]
  /\ Replied(m, <<Message("ack", c), Message("failed", c)>>)
  /\ UNCHANGED told

CancelUnknown(m, c) ==
  /\ ~Working(m, c)
  /\ Replied(m, <<Message("ack", c)>>)
  /\ UNCHANGED <<work, told>>

EntryFullEarly(m) == Len(work[m]) + 1 >= capacity
EntryFull(m) == Len(work[m]) >= capacity

(* A call: refused, or queued; drain starts its handler in this very turn  *)
(* when no other is active.                                                *)
ReadCall(m, c) ==
  \/ /\ EntryFull(m)
     /\ Replied(m, <<Message("refused", c)>>)
     /\ UNCHANGED <<work, told>>
  \/ /\ ~EntryFull(m)
     /\ work' = [work EXCEPT ![m] = Append(@, c)]
     /\ UNCHANGED <<toClient, told>>

Read(m) ==
  /\ entry[m] = "running" /\ toWorker[m] # <<>>
  /\ toWorker' = [toWorker EXCEPT ![m] = Tail(@)]
  /\ LET message == Head(toWorker[m]) IN
       \/ /\ message.kind = "cancel"
          /\ \/ CancelActive(m, message.id)
             \/ \E i \in 2..Len(work[m]) :
                  work[m][i] = message.id /\ CancelQueued(m, i, message.id)
             \/ CancelUnknown(m, message.id)
       \/ message.kind = "call" /\ ReadCall(m, message.id)
  /\ UNCHANGED <<client, capacity, entry>>

(* The handler of the active call ends, or its request or response is not  *)
(* of its type; drain replies and goes on to the next.                     *)
Finish(m, how) ==
  /\ entry[m] = "running" /\ work[m] # <<>>
  /\ Replied(m, <<Message(how, Head(work[m]))>>)
  /\ work' = [work EXCEPT ![m] = Tail(@)]
  /\ told' = told \ {m}
  /\ UNCHANGED <<client, toWorker, capacity, entry>>

(* A handler keeps the thread to itself, for a time or for ever.           *)
Stick(m) ==
  /\ entry[m] = "running" /\ work[m] # <<>>
  /\ entry' = [entry EXCEPT ![m] = "stuck"]
  /\ UNCHANGED <<client, toWorker, toClient, capacity, work, told>>

Resume(m) ==
  /\ entry[m] = "stuck"
  /\ entry' = [entry EXCEPT ![m] = "running"]
  /\ UNCHANGED <<client, toWorker, toClient, capacity, work, told>>

(* The thread ends: an uncaught error, an exit, memory.                    *)
Die(m) ==
  /\ entry[m] # "dead"
  /\ entry' = [entry EXCEPT ![m] = "dead"]
  /\ work' = [work EXCEPT ![m] = <<>>]
  /\ told' = told \ {m}
  /\ UNCHANGED <<client, toWorker, toClient, capacity>>

-----------------------------------------------------------------------------
Assignments == {f \in [Live -> Calls] : \A m, n \in Live : f[m] = f[n] => m = n}

Next ==
  \/ \E c \in Calls, t \in BOOLEAN : Call(c, t)
  \/ \E t \in BOOLEAN : \E f \in Assignments : Broadcast(f, t)
  \/ \E c \in Calls : BroadcastRefused(c)
  \/ \E m \in Members, c \in Calls : Cancel(m, c) \/ Timeout(m, c)
  \/ \E m \in Members : Grace(m) \/ Notice(m) \/ Receive(m)
  \/ ClosePool
  \/ \E m \in Members : Read(m) \/ Stick(m) \/ Resume(m) \/ Die(m)
  \/ \E m \in Members, how \in {"result", "failed"} : Finish(m, how)

(* A handler that has been told to stop: it observes its Cancellation.     *)
Heeds(m) == m \in told /\ Finish(m, "failed")

(* Timers fire, events arrive and a loop that runs reads on.  A handler    *)
(* owes nothing until it is cancelled; nothing makes a stuck one go on.    *)
Fairness ==
  \A m \in Members :
    /\ WF_vars(Read(m)) /\ WF_vars(Heeds(m)) /\ WF_vars(Receive(m))
    /\ WF_vars(Notice(m)) /\ WF_vars(Grace(m))
    /\ \A c \in Calls : WF_vars(Timeout(m, c))

Spec == Init /\ [][Next]_vars /\ Fairness

-----------------------------------------------------------------------------
(* Every variable has its type.                                            *)
TypeOK ==
  /\ call \in [Calls -> Answers \cup {"fresh", "pending"}]
  /\ pending \in [Members -> SUBSET Calls] /\ abandoned \in [Members -> SUBSET Calls]
  /\ closed \subseteq Members /\ poolClosed \in BOOLEAN
  /\ timed \subseteq Calls /\ cancelled \subseteq Calls
  /\ toWorker \in [Members -> Seq([kind : {"call", "cancel"}, id : Calls])]
  /\ toClient \in [Members -> Seq([kind : Replies, id : Calls])]
  /\ capacity \in Capacities
  /\ entry \in [Members -> {"running", "stuck", "dead"}]
  /\ work \in [Members -> Seq(Calls)] /\ told \subseteq Members

Unread(m, kind, c) == \E i \in DOMAIN toWorker[m] : toWorker[m][i] = Message(kind, c)
Replying(m, c) == \E i \in DOMAIN toClient[m] : toClient[m][i].id = c

(* A Worker whose loop runs is never taken for a wedged one: as long as a  *)
(* grace period runs for a call, the cancel it waits on is still unread or *)
(* a reply that ends the period is on its way.                             *)
AckIsOwed ==
  \A m \in Members : entry[m] = "running" =>
    \A c \in abandoned[m] :
      Unread(m, "cancel", c) \/ Replying(m, c)

(* No call is lost, doubled or run twice while its Worker lives: what a    *)
(* caller waits for is in one of three places, a request not yet read,     *)
(* the entry's queue or a reply not yet received, and no call is in two.   *)
Places(m, c) ==
  {i \in DOMAIN toWorker[m] : toWorker[m][i] = Message("call", c)} \X {"toWorker"}
    \cup {i \in DOMAIN work[m] : work[m][i] = c} \X {"work"}
    \cup {i \in DOMAIN toClient[m] : toClient[m][i].kind # "ack" /\ toClient[m][i].id = c}
           \X {"toClient"}
Carried ==
  \A m \in Members, c \in Calls :
    /\ Cardinality(Places(m, c)) <= 1
    /\ c \in pending[m] /\ entry[m] # "dead" => Cardinality(Places(m, c)) = 1

(* Nobody's cancellation is forgotten: a call its caller has cancelled, or *)
(* has stopped waiting for, that the entry still has or will get, has a    *)
(* cancel behind it or runs with its Cancellation cancelled.               *)
CancelReaches ==
  \A m \in Members, c \in Calls :
    /\ c \in cancelled \/ call[c] = "timeout"
    /\ Unread(m, "call", c) \/ Working(m, c)
    /\ entry[m] # "dead"
    => Unread(m, "cancel", c) \/ (Active(m, c) /\ m \in told)

(* The two queue bounds agree: when the entry queues as much as the pool   *)
(* lets a member have, it refuses a call only while it still has one whose *)
(* caller has gone.                                                        *)
RefusedOnlyBehindTheLost ==
  [][\A m \in Members :
       /\ MemberCapacity <= capacity
       /\ Len(toClient'[m]) > Len(toClient[m])
       /\ toClient'[m][Len(toClient'[m])].kind = "refused"
       => \E i \in DOMAIN work[m] : work[m][i] \notin pending[m]]_vars

(* A wedged Worker is found out: when one sits on a call with a timeout    *)
(* that nobody cancelled, the pool gives it up.                            *)
StuckIsFound ==
  \A m \in Members, c \in Calls :
    (/\ entry[m] = "stuck" /\ c \in pending[m] /\ c \in timed
     /\ ~Replying(m, c))
      ~> (m \in closed \/ entry[m] # "stuck" \/ c \in cancelled)

(* A caller that cancels is answered, unless a handler keeps the thread.   *)
CancelEnds ==
  \A c \in Calls :
    (c \in cancelled) ~> (\/ call[c] # "pending"
                          \/ \E m \in Members : c \in pending[m] /\ entry[m] = "stuck")
=============================================================================
