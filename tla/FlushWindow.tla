----------------------------- MODULE FlushWindow -----------------------------
(***************************************************************************)
(* The window of flushes that share one budget, the overrun that stops     *)
(* runaway observers, and the tick() promises that wait for a flush and    *)
(* take its failure (packages/web/runtime: flush.js, emitted-settle.js,    *)
(* foundation.js, graph.js).                                               *)
(*                                                                         *)
(* What an observer does is left open: its run may queue any observers,    *)
(* start asynchronous work and fail.  So is the order within a flush, the  *)
(* subject of Reactive; what runs never stops a queued observer here.  The *)
(* microtasks under way may run in any order, since between any two of     *)
(* them user code may have more awaits; a macrotask waits for them all.    *)
(***************************************************************************)
EXTENDS Naturals, FiniteSets

CONSTANTS
  Observers, Ticks,
  Budget,   \* observer runs a window grants (100000)
  Often,    \* runs after which an overrun stops a queued observer (4)
  Rounds,   \* flushes a tick() runs or finds pending before it gives up (10000)
  MaxRows   \* rounds of a handler's loop that awaits between its writes

ASSUME BoundsAssumption ==
  /\ Budget \in Nat \ {0} /\ Often \in Nat \ {0}
  /\ Rounds \in Nat \ {0} /\ MaxRows \in Nat
ASSUME NamesAssumption ==
  /\ IsFiniteSet(Observers) /\ IsFiniteSet(Ticks)
  /\ Ticks \cap {"none", "job"} = {}

VARIABLES
  queue,      \* the observers in the two queues
  stopped,    \* those an overrun has stopped
  pending,    \* flushPending
  jobs,       \* microtasks that will call flush
  turn,       \* who runs a flush now: "job", a tick, or "none"
  open,       \* there is a token: the window is open
  left,       \* what is left of the budget
  runs,       \* runs under the present token, counted as far as Often
  carried,    \* the next flush continues an overrun
  noted,      \* an observer of the window has started asynchronous work
  armed,      \* the sentinel's timer is set
  resuming,   \* observers whose asynchronous work goes on in a microtask
  rows,       \* rounds the handler's loop has left
  tick,       \* where each tick() stands, or how the last one ended
  rounds,     \* the rounds it has left
  parked,     \* a failure waits for the ticks
  broke,      \* history: ticks that waited while a failure went unclaimed
  detached,   \* history: an observer has started work since the sentinel
  chain       \* history: until then, the runs of this flush and the overruns before it

window == <<open, left, runs, carried, noted, armed>>
history == <<broke, chain, detached>>
vars == <<queue, stopped, pending, jobs, turn, window, resuming, rows,
          tick, rounds, parked, history>>

Nothing == [count |-> 0, who |-> {}]

Init ==
  /\ queue = {} /\ stopped = {} /\ pending = FALSE /\ jobs = 0 /\ turn = "none"
  /\ open = FALSE /\ left = 0 /\ runs = [o \in Observers |-> 0]
  /\ carried = FALSE /\ noted = FALSE /\ armed = FALSE
  /\ resuming = {} /\ rows = 0
  /\ tick = [t \in Ticks |-> "resolved"] /\ rounds = [t \in Ticks |-> 0]
  /\ parked = FALSE
  /\ broke = {} /\ chain = Nothing /\ detached = FALSE

Live == Observers \ stopped
Waiting == {t \in Ticks : tick[t] \in {"asked", "settled"}}

(* No turn is under way, and no microtask is left. *)
Between == turn = "none"
TaskOver == /\ Between /\ jobs = 0 /\ resuming = {} /\ rows = 0 /\ Waiting = {}

-----------------------------------------------------------------------------
(* Writes queue the observers Q; the first one schedules a flush.          *)

Schedules(Q) ==
  /\ pending' = (pending \/ Q # {})
  /\ jobs' = IF Q # {} /\ ~pending THEN jobs + 1 ELSE jobs


(* A failure nobody handles is parked for the ticks that wait; while one   *)
(* is parked, or nobody waits, it goes to the host.                        *)
Parks == Waiting # {}

Escalates ==
  /\ parked' = (parked \/ Parks)
  /\ broke' = broke \cup Waiting

-----------------------------------------------------------------------------
(* The flush.                                                              *)

(* A flush continues the open window if it is the continuation of an       *)
(* overrun or if an observer in the window has started asynchronous work.  *)
ContinuesAny == open
ContinuesNever == open /\ carried
Continues == open /\ (carried \/ noted)

Begin(by) ==
  /\ turn' = by /\ pending' = FALSE
  /\ open' = TRUE /\ carried' = FALSE
  /\ IF Continues THEN UNCHANGED <<left, runs, noted>>
     ELSE /\ left' = Budget /\ noted' = FALSE
          /\ runs' = [o \in Observers |-> 0]
  /\ chain' = IF carried THEN chain ELSE Nothing
  /\ UNCHANGED <<queue, stopped, armed, resuming, rows, tick, rounds,
                 parked, broke, detached>>

FlushJob ==
  /\ Between /\ jobs > 0
  /\ Begin("job") /\ jobs' = jobs - 1

Counted(n) == IF n < Often THEN n + 1 ELSE n

(* A queued observer runs.  It may write, which queues the observers Q,    *)
(* start work that awaits a settled promise or a later task, and fail.     *)
Run(o, Q, work, fails) ==
  /\ ~Between /\ o \in queue /\ left > 0
  /\ left' = left - 1
  /\ runs' = [runs EXCEPT ![o] = Counted(@)]
  /\ queue' = (queue \ {o}) \cup Q
  /\ Schedules(Q)
  /\ noted' = (noted \/ work # "none")
  /\ resuming' = IF work = "soon" THEN resuming \cup {o} ELSE resuming
  /\ IF fails THEN Escalates ELSE UNCHANGED <<parked, broke>>
  /\ detached' = (detached \/ work # "none")
  /\ chain' = IF detached' THEN Nothing
              ELSE [count |-> IF chain.count < Budget THEN chain.count + 1 ELSE Budget,
                    who |-> chain.who \cup {o}]
  /\ UNCHANGED <<stopped, turn, open, carried, armed, rows, tick, rounds>>

(* The flush is over: it arms the sentinel, and a tick that ran it waits   *)
(* for another if there is more to do and it has rounds left.              *)
Again == rounds[turn] > 1 /\ (queue' # {} \/ pending')

Leave ==
  /\ turn' = "none" /\ armed' = TRUE
  /\ tick' = IF turn \notin Ticks \/ Again THEN tick
             ELSE [tick EXCEPT ![turn] = "settled"]
  /\ rounds' = IF turn \notin Ticks THEN rounds
               ELSE [rounds EXCEPT ![turn] = IF Again THEN @ - 1 ELSE 0]

EndFlush ==
  /\ ~Between /\ queue = {}
  /\ UNCHANGED <<queue, stopped, pending, jobs, open, left, runs, carried, noted,
                 resuming, rows, parked, history>>
  /\ Leave

(* The budget is spent: of the queued observers those that have run        *)
(* Often, or as often as any of them, are stopped, and the others are put  *)
(* back for a flush that goes on with the same counts and a new budget.    *)
Runaway(o) ==
  /\ runs[o] > 0
  /\ runs[o] >= Often \/ \A p \in queue : runs[p] <= runs[o]

Overrun ==
  LET runaways == {o \in queue : Runaway(o)} IN
  /\ ~Between /\ queue # {} /\ left = 0
  /\ stopped' = stopped \cup runaways
  /\ queue' = queue \ runaways
  /\ left' = Budget /\ carried' = (queue' # {})
  /\ Schedules(queue') /\ Leave /\ Escalates
  /\ UNCHANGED <<open, runs, noted, resuming, rows, chain, detached>>

-----------------------------------------------------------------------------
(* The program around it.                                                  *)

(* A turn of user code writes and calls tick(), which begins to wait. *)
Does(Q, T) ==
  /\ queue' = queue \cup Q /\ Schedules(Q)
  /\ T \cap Waiting = {}
  /\ tick' = [t \in Ticks |-> IF t \in T THEN "asked" ELSE tick[t]]
  /\ rounds' = [t \in Ticks |-> IF t \in T THEN Rounds ELSE rounds[t]]
  /\ broke' = broke \ T
  /\ UNCHANGED <<stopped, turn, window, parked, chain, detached>>

(* A macrotask: an event, a timer or an answer of the network, whose       *)
(* handler may go on between awaits.                                       *)
Event(Q, T, n) ==
  /\ TaskOver /\ rows' = n /\ Does(Q, T)
  /\ UNCHANGED resuming

Row(Q, T) ==
  /\ Between /\ rows > 0 /\ rows' = rows - 1 /\ Does(Q, T)
  /\ UNCHANGED resuming

(* The work an observer has started goes on. *)
Resume(o, Q, T) ==
  /\ Between /\ o \in resuming /\ resuming' = resuming \ {o} /\ Does(Q, T)
  /\ UNCHANGED rows

(* The sentinel's timer fires, sooner or later than other macrotasks. *)
Sentinel ==
  /\ TaskOver /\ armed
  /\ armed' = FALSE /\ open' = FALSE /\ noted' = FALSE /\ detached' = FALSE
  /\ UNCHANGED <<queue, stopped, pending, jobs, turn, left, runs, carried,
                 resuming, rows, tick, rounds, parked, broke, chain>>

(* A microtask after it was called a tick runs the flush that is pending,  *)
(* or finds none; and one more microtask later it takes the parked         *)
(* failure.  The job of a flush that it runs is left behind, and comes     *)
(* before this tick looks again.                                           *)
TickFlushes(t) ==
  /\ Between /\ tick[t] = "asked" /\ pending /\ jobs <= Cardinality(Ticks)
  /\ Begin(t) /\ UNCHANGED jobs

TickFindsNone(t) ==
  /\ Between /\ tick[t] = "asked" /\ ~pending
  /\ tick' = [tick EXCEPT ![t] = "settled"]
  /\ rounds' = [rounds EXCEPT ![t] = 0]
  /\ UNCHANGED <<queue, stopped, pending, jobs, turn, window, resuming, rows,
                 parked, history>>

(* The last to leave the wait releases the failure. *)
ReleasedAtOnce(t) == TRUE
Released(t) == Waiting = {t}

Claim(t) ==
  /\ Between /\ tick[t] = "settled"
  /\ tick' = [tick EXCEPT ![t] = IF parked THEN "rejected" ELSE "resolved"]
  /\ parked' = (parked /\ ~Released(t))
  /\ UNCHANGED <<queue, stopped, pending, jobs, turn, window, resuming, rows,
                 rounds, history>>

-----------------------------------------------------------------------------
Work == {"none", "soon", "later"}

Runs(o) ==
  \E Q \in SUBSET Live, work \in Work, fails \in BOOLEAN : Run(o, Q, work, fails)

Microtask ==
  \/ FlushJob \/ EndFlush \/ Overrun
  \/ \E o \in Observers : Runs(o)
  \/ \E Q \in SUBSET Live, T \in SUBSET Ticks :
       Row(Q, T) \/ \E o \in Observers : Resume(o, Q, T)
  \/ \E t \in Ticks : TickFlushes(t) \/ TickFindsNone(t) \/ Claim(t)

Macrotask ==
  \/ \E Q \in SUBSET Live, T \in SUBSET Ticks, n \in 0..MaxRows : Event(Q, T, n)
  \/ Sentinel

Next == Microtask \/ Macrotask

(* A microtask runs while there is one; no macrotask need come.  And no    *)
(* queued observer is passed over for ever, which is what the passes of a  *)
(* flush see to.                                                           *)
Fairness == WF_vars(Microtask) /\ \A o \in Observers : SF_vars(Runs(o))

Spec == Init /\ [][Next]_vars /\ Fairness

-----------------------------------------------------------------------------
(* Type invariant. *)
TypeOK ==
  /\ queue \subseteq Live /\ stopped \subseteq Observers
  /\ pending \in BOOLEAN /\ jobs \in Nat /\ turn \in Ticks \cup {"none", "job"}
  /\ open \in BOOLEAN /\ left \in 0..Budget /\ runs \in [Observers -> 0..Often]
  /\ carried \in BOOLEAN /\ noted \in BOOLEAN /\ armed \in BOOLEAN
  /\ resuming \subseteq Observers /\ rows \in 0..MaxRows
  /\ tick \in [Ticks -> {"asked", "settled", "resolved", "rejected"}]
  /\ rounds \in [Ticks -> 0..Rounds]
  /\ parked \in BOOLEAN /\ broke \subseteq Ticks
  /\ chain \in [count : 0..Budget, who : SUBSET Observers] /\ detached \in BOOLEAN

(* Whatever the observers queue, start and fail at, a task comes to its    *)
(* end: an overrun always takes something away, stopped observers or ones  *)
(* its window had not reached, so the page is not frozen for ever.         *)
TaskEnds == []<>TaskOver

(* An observer is stopped only if it has run and is queued again in a      *)
(* chain of flushes that has spent a whole budget.  Only when observers    *)
(* have started asynchronous work may earlier flushes count against it: a  *)
(* handler's loop of writes and awaits, however long, stops nobody.        *)
OnlyRunaways ==
  [][\A o \in stopped' \ stopped :
       detached \/ (chain.count = Budget /\ o \in chain.who)]_vars

(* An awaited tick() does not step over a broken update: if an unhandled   *)
(* failure came up while it waited, it does not resolve.                   *)
NotSteppedOver == \A t \in broke : tick[t] # "resolved"

(* A failure is kept only for ticks that wait, not for later ones. *)
ParkedForSomeone == parked => Waiting # {}

(* A tick() awaited after the flush resolves: it rejects only if a failure *)
(* came up while it waited.                                                *)
RejectsThePendingOnly == \A t \in Ticks : tick[t] = "rejected" => t \in broke
=============================================================================
