-------------------------- MODULE FlushWindowProofs --------------------------
(***************************************************************************)
(* That no awaited tick steps over a failure and that an overrun stops     *)
(* only what ran away, for any observers, ticks and budget.                *)
(***************************************************************************)
EXTENDS FlushWindow, TLAPS

(* A tick that runs a flush has not stopped waiting. *)
TurnIsAsked == turn \in Ticks => tick[turn] = "asked"

(* A failure that came up while a tick waits is still there for it. *)
KeptForIt == \A t \in broke : tick[t] \in {"asked", "settled"} => parked

(* A flush that is pending has its microtask, and a flush has its window. *)
Booked == (pending => jobs > 0) /\ (turn # "none" => open)

(* After an overrun the next flush is pending, with a new budget, in the   *)
(* window of the last one.                                                 *)
GoesOn == carried => pending /\ turn = "none" /\ open /\ left = Budget

(* Until an observer starts asynchronous work, the chain of overruns has   *)
(* made every run that is counted, and all that the budget lacks.          *)
NotedIsDetached == noted => detached
ChainCounts ==
  ~detached /\ (turn # "none" \/ carried) =>
    /\ chain.count + left >= Budget
    /\ \A o \in Observers : runs[o] > 0 => o \in chain.who

TickInv == TurnIsAsked /\ KeptForIt /\ ParkedForSomeone /\ NotSteppedOver
ChainInv == Booked /\ GoesOn /\ NotedIsDetached /\ ChainCounts
IInv == TypeOK /\ TickInv /\ ChainInv

-----------------------------------------------------------------------------
(* The actions, sorted. *)

Starts == FlushJob \/ \E t \in Ticks : TickFlushes(t)
Ends == EndFlush \/ Overrun
Outside ==
  \E Q \in SUBSET Live, T \in SUBSET Ticks :
    \/ Row(Q, T) \/ \E o \in Observers : Resume(o, Q, T)
    \/ \E n \in 0..MaxRows : Event(Q, T, n)
Waits == \E t \in Ticks : TickFindsNone(t) \/ Claim(t)

(* Every step is of one of these kinds. *)
LEMMA NextIsSorted ==
  ASSUME Next
  PROVE  Starts \/ Ends \/ Outside \/ Waits \/ Sentinel \/ \E o \in Observers : Runs(o)
BY DEF Next, Microtask, Macrotask, Starts, Ends, Outside, Waits

-----------------------------------------------------------------------------
(* The type invariant. *)

LEMMA NothingTyped == Nothing \in [count : 0..Budget, who : SUBSET Observers]
<1>1. 0 \in 0..Budget /\ {} \in SUBSET Observers
  BY BoundsAssumption
<1> QED
  BY <1>1 DEF Nothing

(* Whatever begins a flush leaves the state well formed. *)
LEMMA BeginTyped ==
  ASSUME TypeOK, NEW by \in Ticks \cup {"job"}, Begin(by), jobs' \in Nat
  PROVE  TypeOK'
<1>1. chain' \in [count : 0..Budget, who : SUBSET Observers]
  BY NothingTyped DEF TypeOK, Begin
<1>2. left' \in 0..Budget /\ runs' \in [Observers -> 0..Often] /\ noted' \in BOOLEAN
  <2>1. CASE Continues
    <3>1. left' = left /\ runs' = runs /\ noted' = noted
      BY <2>1 DEF Begin
    <3> QED
      BY <3>1 DEF TypeOK
  <2>2. CASE ~Continues
    <3>1. left' = Budget /\ runs' = [o \in Observers |-> 0] /\ noted' = FALSE
      BY <2>2 DEF Begin
    <3>2. Budget \in 0..Budget /\ 0 \in 0..Often
      BY BoundsAssumption
    <3> QED
      BY <3>1, <3>2, Zenon
  <2> QED
    BY <2>1, <2>2
<1> QED
  BY <1>1, <1>2 DEF TypeOK, Begin, Live

(* A tick is given its rounds, uses one up, or gives up the rest. *)
LEMMA RoundsTyped ==
  ASSUME rounds \in [Ticks -> 0..Rounds],
         \/ \E Q \in SUBSET Live, T \in SUBSET Ticks : Does(Q, T)
         \/ Leave
         \/ \E t \in Ticks : TickFindsNone(t)
  PROVE  rounds' \in [Ticks -> 0..Rounds]
<1>0. 0 \in 0..Rounds /\ Rounds \in 0..Rounds /\ Rounds \in Nat
  BY BoundsAssumption
<1>1. CASE \E Q \in SUBSET Live, T \in SUBSET Ticks : Does(Q, T)
  BY <1>0, <1>1 DEF Does
<1>2. CASE Leave
  <2>1. \A n \in 0..Rounds : n > 1 => n - 1 \in 0..Rounds
    BY <1>0
  <2> QED
    BY <1>0, <1>2, <2>1 DEF Leave, Again
<1>3. CASE \E t \in Ticks : TickFindsNone(t)
  BY <1>0, <1>3 DEF TickFindsNone
<1> QED
  BY <1>1, <1>2, <1>3

(* Outside a flush only the queue, the ticks and the work to come change. *)
LEMMA DoesTyped ==
  ASSUME TypeOK, NEW Q \in SUBSET Live, NEW T \in SUBSET Ticks, Does(Q, T),
         resuming' \subseteq Observers, rows' \in 0..MaxRows
  PROVE  TypeOK'
<1>1. rounds' \in [Ticks -> 0..Rounds]
  BY RoundsTyped DEF TypeOK
<1> QED
  BY <1>1 DEF TypeOK, Does, Schedules, Live, window

(* A run of an observer leaves the state well formed. *)
LEMMA RunTyped ==
  ASSUME TypeOK, NEW o \in Observers, NEW Q \in SUBSET Live, NEW work \in Work,
         NEW fails \in BOOLEAN, Run(o, Q, work, fails)
  PROVE  TypeOK'
<1>1. runs' \in [Observers -> 0..Often] /\ left' \in 0..Budget
  BY BoundsAssumption DEF TypeOK, Run, Counted
<1>2. chain' \in [count : 0..Budget, who : SUBSET Observers]
  BY BoundsAssumption DEF TypeOK, Run, Nothing
<1>3. broke' \subseteq Ticks /\ parked' \in BOOLEAN
  BY DEF TypeOK, Run, Escalates, Parks, Waiting
<1>4. queue' \subseteq Live' /\ pending' \in BOOLEAN /\ jobs' \in Nat
  BY DEF TypeOK, Run, Schedules, Live
<1> QED
  BY <1>1, <1>2, <1>3, <1>4 DEF TypeOK, Run

(* The end of a flush and an overrun leave the state well formed. *)
LEMMA EndsTyped ==
  ASSUME TypeOK, Ends
  PROVE  TypeOK'
<1>0. rounds' \in [Ticks -> 0..Rounds]
  BY RoundsTyped DEF Ends, EndFlush, Overrun, TypeOK
<1>1. CASE EndFlush
  <2>1. tick' \in [Ticks -> {"asked", "settled", "resolved", "rejected"}]
    BY <1>1 DEF TypeOK, EndFlush, Leave
  <2> QED
    BY <1>0, <1>1, <2>1 DEF TypeOK, EndFlush, Leave, Live, history
<1>2. CASE Overrun
  <2>1. queue' \subseteq Live' /\ stopped' \subseteq Observers
    BY <1>2 DEF TypeOK, Overrun, Live
  <2>2. pending' \in BOOLEAN /\ jobs' \in Nat /\ carried' \in BOOLEAN
    BY <1>2 DEF TypeOK, Overrun, Schedules
  <2>3. broke' \subseteq Ticks /\ parked' \in BOOLEAN
    BY <1>2 DEF TypeOK, Overrun, Escalates, Parks, Waiting
  <2>4. tick' \in [Ticks -> {"asked", "settled", "resolved", "rejected"}]
    BY <1>2 DEF TypeOK, Overrun, Leave
  <2> QED
    BY <1>0, <1>2, <2>1, <2>2, <2>3, <2>4, BoundsAssumption DEF TypeOK, Overrun, Leave
<1> QED
  BY <1>1, <1>2 DEF Ends

LEMMA TypeStep ==
  ASSUME TypeOK, [Next]_vars
  PROVE  TypeOK'
<1>1. CASE Starts
  <2>1. CASE FlushJob
    BY <1>1, <2>1, BeginTyped DEF FlushJob, TypeOK
  <2>2. ASSUME NEW t \in Ticks, TickFlushes(t) PROVE TypeOK'
    BY <2>2, BeginTyped DEF TickFlushes, TypeOK
  <2> QED
    BY <1>1, <2>1, <2>2 DEF Starts
<1>2. CASE Outside
  <2> PICK Q \in SUBSET Live, T \in SUBSET Ticks :
        \/ Row(Q, T) \/ \E o \in Observers : Resume(o, Q, T)
        \/ \E n \in 0..MaxRows : Event(Q, T, n)
    BY <1>2 DEF Outside
  <2>1. /\ Does(Q, T) /\ resuming' \subseteq Observers /\ rows' \in 0..MaxRows
    BY BoundsAssumption DEF Row, Resume, Event, TypeOK
  <2> QED
    BY <2>1, DoesTyped
<1>3. CASE Waits
  <2>1. ASSUME NEW t \in Ticks, TickFindsNone(t) PROVE TypeOK'
    <3>1. rounds' \in [Ticks -> 0..Rounds]
      BY <2>1, RoundsTyped DEF TypeOK
    <3> QED
      BY <2>1, <3>1 DEF TickFindsNone, TypeOK, window, history, Live
  <2>2. ASSUME NEW t \in Ticks, Claim(t) PROVE TypeOK'
    BY <2>2 DEF Claim, TypeOK, window, history, Live
  <2> QED
    BY <1>3, <2>1, <2>2 DEF Waits
<1>4. CASE Sentinel
  BY <1>4 DEF Sentinel, TypeOK, Live
<1>5. CASE \E o \in Observers : Runs(o)
  BY <1>5, RunTyped DEF Runs
<1>6. CASE UNCHANGED vars
  BY <1>6 DEF vars, window, history, TypeOK, Live
<1> QED
  BY <1>1, <1>2, <1>3, <1>4, <1>5, <1>6, EndsTyped, NextIsSorted

LEMMA TypeInit ==
  ASSUME Init
  PROVE  TypeOK
<1>1. chain \in [count : 0..Budget, who : SUBSET Observers]
  BY NothingTyped DEF Init
<1>2. left \in 0..Budget /\ runs \in [Observers -> 0..Often] /\ rows \in 0..MaxRows
  BY BoundsAssumption DEF Init
<1>3. rounds \in [Ticks -> 0..Rounds]
  BY BoundsAssumption DEF Init
<1> QED
  BY <1>1, <1>2, <1>3 DEF Init, TypeOK, Live

(* The state of the window, its counters and the ticks stays well formed   *)
(* (flush.js, emitted-settle.js).                                          *)
THEOREM TypeCorrect == Spec => []TypeOK
<1>1. Init => TypeOK
  BY TypeInit
<1>2. TypeOK /\ [Next]_vars => TypeOK'
  BY TypeStep
<1> QED
  BY <1>1, <1>2, PTL DEF Spec

-----------------------------------------------------------------------------
(* The ticks. *)

(* An escalated failure is kept for each tick that waits, and only then. *)
LEMMA Unmoved ==
  ASSUME TypeOK, KeptForIt, ParkedForSomeone, NotSteppedOver, Escalates, tick' = tick
  PROVE  KeptForIt' /\ ParkedForSomeone' /\ NotSteppedOver'
BY DEF KeptForIt, ParkedForSomeone, NotSteppedOver, Escalates, Parks, Waiting, TypeOK

(* So it is when one of them goes on to wait in another way. *)
LEMMA EscalatesKeeps ==
  ASSUME TypeOK, KeptForIt, ParkedForSomeone, NotSteppedOver, Escalates,
         NEW t \in Ticks,
         tick' = [tick EXCEPT ![t] = "settled"], tick[t] = "asked"
  PROVE  KeptForIt' /\ ParkedForSomeone' /\ NotSteppedOver'
<1>1. \A u \in Ticks : tick[u] \in {"asked", "settled"} <=> tick'[u] \in {"asked", "settled"}
  BY DEF TypeOK
<1>2. \A u \in Ticks : tick[u] = "resolved" <=> tick'[u] = "resolved"
  BY DEF TypeOK
<1>3. Waiting' = Waiting
  BY <1>1 DEF Waiting
<1>4. broke' \subseteq Ticks /\ \A u \in Waiting : tick[u] # "resolved"
  BY DEF TypeOK, Escalates, Waiting
<1> QED
  BY <1>1, <1>2, <1>3, <1>4
  DEF KeptForIt, ParkedForSomeone, NotSteppedOver, Escalates, Parks, Waiting, TypeOK

(* No tick steps over a failure, which stays for those that wait. *)
LEMMA TickStep ==
  ASSUME TypeOK, TickInv, [Next]_vars
  PROVE  TickInv'
<1> USE DEF TickInv
<1>1. CASE Starts
  <2>1. /\ UNCHANGED <<tick, parked, broke>>
        /\ turn' = "job" \/ (\E t \in Ticks : turn' = t /\ tick[t] = "asked")
    BY <1>1 DEF Starts, FlushJob, TickFlushes, Begin
  <2> QED
    BY <2>1, NamesAssumption
    DEF TurnIsAsked, KeptForIt, ParkedForSomeone, NotSteppedOver, Waiting
<1>2. CASE EndFlush
  <2>1. turn' = "none" /\ UNCHANGED <<parked, broke>>
    BY <1>2 DEF EndFlush, Leave, history
  <2>2. tick' = tick \/ (turn \in Ticks /\ tick' = [tick EXCEPT ![turn] = "settled"])
    BY <1>2 DEF EndFlush, Leave
  <2>3. \A u \in Ticks : /\ tick[u] \in {"asked", "settled"} <=> tick'[u] \in {"asked", "settled"}
                         /\ tick[u] = "resolved" <=> tick'[u] = "resolved"
    BY <2>2 DEF TypeOK, TurnIsAsked
  <2> QED
    BY <2>1, <2>3, NamesAssumption
    DEF TypeOK, TurnIsAsked, KeptForIt, ParkedForSomeone, NotSteppedOver, Waiting
<1>3. CASE Overrun
  <2>1. turn' = "none" /\ Escalates
    BY <1>3 DEF Overrun, Leave
  <2>2. tick' = tick \/ (turn \in Ticks /\ tick' = [tick EXCEPT ![turn] = "settled"])
    BY <1>3 DEF Overrun, Leave
  <2>3. \A t \in Ticks : tick' = [tick EXCEPT ![t] = "settled"] /\ tick[t] = "asked"
          => KeptForIt' /\ ParkedForSomeone' /\ NotSteppedOver'
    BY <2>1, EscalatesKeeps
  <2>4. tick' = tick => KeptForIt' /\ ParkedForSomeone' /\ NotSteppedOver'
    BY <2>1, Unmoved
  <2> QED
    BY <2>1, <2>2, <2>3, <2>4, NamesAssumption DEF TurnIsAsked
<1>4. CASE Outside
  <2> PICK Q \in SUBSET Live, T \in SUBSET Ticks :
        \/ Row(Q, T) \/ \E o \in Observers : Resume(o, Q, T)
        \/ \E n \in 0..MaxRows : Event(Q, T, n)
    BY <1>4 DEF Outside
  <2>1. Does(Q, T) /\ Between
    BY DEF Row, Resume, Event, TaskOver
  <2>2. /\ turn' = "none" /\ parked' = parked /\ broke' = broke \ T
        /\ T \cap Waiting = {}
        /\ \A u \in Ticks : tick'[u] = IF u \in T THEN "asked" ELSE tick[u]
    BY <2>1 DEF Does, Between
  <2> QED
    BY <2>2, NamesAssumption
    DEF TypeOK, TurnIsAsked, KeptForIt, ParkedForSomeone, NotSteppedOver, Waiting
<1>5. ASSUME NEW t \in Ticks, TickFindsNone(t)
      PROVE  TickInv'
  <2>1. /\ turn' = "none" /\ UNCHANGED <<parked, broke>>
        /\ tick[t] = "asked" /\ tick' = [tick EXCEPT ![t] = "settled"]
    BY <1>5 DEF TickFindsNone, Between, history
  <2>2. \A u \in Ticks : /\ tick[u] \in {"asked", "settled"} <=> tick'[u] \in {"asked", "settled"}
                         /\ tick[u] = "resolved" <=> tick'[u] = "resolved"
    BY <2>1 DEF TypeOK
  <2> QED
    BY <2>1, <2>2, NamesAssumption
    DEF TypeOK, TurnIsAsked, KeptForIt, ParkedForSomeone, NotSteppedOver, Waiting
<1>6. ASSUME NEW t \in Ticks, Claim(t)
      PROVE  TickInv'
  <2>1. /\ turn' = "none" /\ broke' = broke /\ tick[t] = "settled"
        /\ tick' = [tick EXCEPT ![t] = IF parked THEN "rejected" ELSE "resolved"]
        /\ parked' = (parked /\ Waiting # {t})
    BY <1>6 DEF Claim, Between, history, Released
  <2>2. \A u \in Ticks : u # t => tick'[u] = tick[u]
    BY <2>1 DEF TypeOK
  <2>3. tick'[t] = IF parked THEN "rejected" ELSE "resolved"
    BY <2>1 DEF TypeOK
  <2>4. KeptForIt' /\ ParkedForSomeone'
    BY <2>1, <2>2, <2>3 DEF TypeOK, KeptForIt, ParkedForSomeone, Waiting
  <2>5. NotSteppedOver'
    BY <2>1, <2>2, <2>3 DEF TypeOK, KeptForIt, NotSteppedOver
  <2> QED
    BY <2>1, <2>4, <2>5, NamesAssumption DEF TurnIsAsked
<1>7. CASE Sentinel
  BY <1>7 DEF Sentinel, TurnIsAsked, KeptForIt, ParkedForSomeone, NotSteppedOver, Waiting
<1>8. ASSUME NEW o \in Observers, Runs(o)
      PROVE  TickInv'
  <2>1. /\ UNCHANGED <<turn, tick>>
        /\ Escalates \/ UNCHANGED <<parked, broke>>
    BY <1>8 DEF Runs, Run
  <2>2. CASE Escalates
    BY <2>1, <2>2, Unmoved DEF TurnIsAsked
  <2>3. CASE UNCHANGED <<parked, broke>>
    BY <2>1, <2>3 DEF TurnIsAsked, KeptForIt, ParkedForSomeone, NotSteppedOver, Waiting
  <2> QED
    BY <2>1, <2>2, <2>3
<1>9. CASE UNCHANGED vars
  BY <1>9 DEF vars, history, TurnIsAsked, KeptForIt, ParkedForSomeone, NotSteppedOver, Waiting
<1> QED
  BY <1>1, <1>2, <1>3, <1>4, <1>5, <1>6, <1>7, <1>8, <1>9, NextIsSorted DEF Ends, Waits

-----------------------------------------------------------------------------
(* The window. *)

(* A step that touches no window, and schedules what it queues. *)
LEMMA WindowKept ==
  ASSUME TypeOK, ChainInv, NEW Q, Schedules(Q), turn' = turn, UNCHANGED <<window, chain, detached>>
  PROVE  ChainInv'
BY DEF TypeOK, ChainInv, Booked, GoesOn, NotedIsDetached, ChainCounts, Schedules, window

(* The counts of a chain cover the budget it has spent. *)
LEMMA ChainStep ==
  ASSUME TypeOK, ChainInv, [Next]_vars
  PROVE  ChainInv'
<1> USE DEF ChainInv
<1>1. ASSUME NEW by \in Ticks \cup {"job"}, Begin(by) PROVE ChainInv'
  <2>1. Booked' /\ GoesOn' /\ NotedIsDetached'
    BY <1>1 DEF Begin, Booked, GoesOn, NotedIsDetached, TypeOK
  <2>2. ASSUME ~detached PROVE ChainCounts'
    <3>1. CASE carried
      BY <1>1, <3>1 DEF Begin, Continues, GoesOn, ChainCounts, TypeOK
    <3>2. CASE ~carried
      <4>1. ~Continues
        BY <2>2, <3>2 DEF Continues, NotedIsDetached
      <4>2. left' = Budget /\ runs' = [o \in Observers |-> 0] /\ chain' = Nothing
        BY <1>1, <3>2, <4>1 DEF Begin
      <4> QED
        BY <4>2, BoundsAssumption DEF ChainCounts, Nothing
    <3> QED
      BY <3>1, <3>2
  <2>3. detached => ChainCounts'
    BY <1>1 DEF Begin, ChainCounts
  <2> QED
    BY <2>1, <2>2, <2>3
<1>2. CASE Starts
  BY <1>1, <1>2 DEF Starts, FlushJob, TickFlushes
<1>3. CASE EndFlush
  BY <1>3 DEF EndFlush, Leave, history, Between, Booked, GoesOn, NotedIsDetached, ChainCounts
<1>4. CASE Overrun
  <2>1. /\ turn # "none" /\ turn' = "none" /\ left = 0 /\ left' = Budget
        /\ carried' = (queue' # {}) /\ Schedules(queue')
        /\ UNCHANGED <<open, runs, noted, chain, detached>>
    BY <1>4 DEF Overrun, Leave, Between
  <2>2. Booked' /\ GoesOn' /\ NotedIsDetached'
    BY <2>1 DEF Booked, GoesOn, NotedIsDetached, Schedules, TypeOK
  <2>3. ChainCounts'
    BY <2>1, BoundsAssumption DEF ChainCounts, TypeOK
  <2> QED
    BY <2>2, <2>3
<1>5. CASE Outside
  <2>1. \E Q, T : Does(Q, T)
    BY <1>5 DEF Outside, Row, Resume, Event
  <2> QED
    BY <2>1, WindowKept DEF Does
<1>6. CASE Waits
  BY <1>6 DEF Waits, TickFindsNone, Claim, window, history, Booked, GoesOn,
       NotedIsDetached, ChainCounts
<1>7. CASE Sentinel
  <2>1. jobs = 0 /\ turn = "none" /\ ~pending /\ ~carried
    BY <1>7 DEF Sentinel, TaskOver, Between, Booked, GoesOn, TypeOK
  <2> QED
    BY <1>7, <2>1 DEF Sentinel, Booked, GoesOn, NotedIsDetached, ChainCounts
<1>8. ASSUME NEW o \in Observers, NEW Q \in SUBSET Live, NEW work \in Work,
             NEW fails \in BOOLEAN, Run(o, Q, work, fails)
      PROVE  ChainInv'
  <2>1. /\ turn # "none" /\ turn' = turn /\ ~carried /\ carried' = carried /\ open' = open
        /\ Schedules(Q)
    BY <1>8 DEF Run, Between, GoesOn
  <2>2. Booked' /\ GoesOn'
    BY <2>1 DEF Booked, GoesOn, Schedules, TypeOK
  <2>3. NotedIsDetached'
    BY <1>8 DEF Run, NotedIsDetached
  <2>4. ASSUME ~detached' PROVE ChainCounts'
    <3>1. /\ ~detached /\ left > 0 /\ left' = left - 1
          /\ runs' = [runs EXCEPT ![o] = Counted(@)]
          /\ chain' = [count |-> IF chain.count < Budget THEN chain.count + 1 ELSE Budget,
                       who |-> chain.who \cup {o}]
      BY <1>8, <2>4 DEF Run
    <3>2. /\ chain.count + left >= Budget
          /\ \A p \in Observers : runs[p] > 0 => p \in chain.who
      BY <2>1, <3>1 DEF ChainCounts
    <3>3. chain'.count + left' >= Budget
      BY <3>1, <3>2, BoundsAssumption DEF TypeOK
    <3>4. \A p \in Observers : runs'[p] > 0 => p \in chain'.who
      BY <3>1, <3>2 DEF TypeOK
    <3> QED
      BY <3>3, <3>4 DEF ChainCounts
  <2>5. detached' => ChainCounts'
    BY DEF ChainCounts
  <2> QED
    BY <2>2, <2>3, <2>4, <2>5
<1>9. CASE UNCHANGED vars
  BY <1>9 DEF vars, window, history, Booked, GoesOn, NotedIsDetached, ChainCounts
<1> QED
  BY <1>2, <1>3, <1>4, <1>5, <1>6, <1>7, <1>8, <1>9, NextIsSorted DEF Ends, Runs

-----------------------------------------------------------------------------
(* The theorems. *)

LEMMA Invariance == Spec => []IInv
<1>1. Init => IInv
  <2>1. ASSUME Init PROVE TickInv
    BY <2>1, NamesAssumption
    DEF Init, TickInv, TurnIsAsked, KeptForIt, ParkedForSomeone, NotSteppedOver
  <2>2. ASSUME Init PROVE ChainInv
    BY <2>2 DEF Init, ChainInv, Booked, GoesOn, NotedIsDetached, ChainCounts
  <2> QED
    BY <2>1, <2>2, TypeInit DEF IInv
<1>2. IInv /\ [Next]_vars => IInv'
  BY TypeStep, TickStep, ChainStep DEF IInv
<1> QED
  BY <1>1, <1>2, PTL DEF Spec

(* A tick that waited while a failure went unclaimed does not resolve, and *)
(* no failure is kept for ticks to come when nobody waits                  *)
(* (__velarClaimUnhandledFailure and __velarLeaveTickWait).                *)
THEOREM NoTickStepsOver == Spec => [](NotSteppedOver /\ ParkedForSomeone)
<1>1. IInv => NotSteppedOver /\ ParkedForSomeone
  BY DEF IInv, TickInv
<1> QED
  BY <1>1, Invariance, PTL

(* An overrun stops only observers of a chain that has spent a budget, as  *)
(* long as no observer has started asynchronous work                       *)
(* (__velarFlushOverflow, __velarFlushSettle).                             *)
THEOREM OnlyRunawaysAreStopped == Spec => OnlyRunaways
<1> DEFINE A == \A o \in stopped' \ stopped :
                  detached \/ (chain.count = Budget /\ o \in chain.who)
<1>1. ASSUME IInv, Next PROVE A
  <2>1. CASE Overrun
    <3>1. /\ turn # "none" /\ left = 0
          /\ \A o \in stopped' \ stopped : o \in queue /\ runs[o] > 0
      BY <2>1 DEF Overrun, Between, Runaway
    <3>2. queue \subseteq Observers /\ chain.count \in 0..Budget
      BY <1>1 DEF IInv, TypeOK, Live
    <3>3. detached \/ (/\ chain.count + left >= Budget
                       /\ \A o \in Observers : runs[o] > 0 => o \in chain.who)
      BY <1>1, <3>1 DEF IInv, ChainInv, ChainCounts
    <3> QED
      BY <3>1, <3>2, <3>3, BoundsAssumption
  <2>2. CASE ~Overrun
    <3>1. stopped' = stopped
      BY <1>1, <2>2 DEF Next, Microtask, Macrotask, FlushJob, TickFlushes, Begin, EndFlush,
           Runs, Run, Row, Resume, Event, Does, TickFindsNone, Claim, Sentinel
    <3> QED
      BY <3>1
  <2> QED
    BY <2>1, <2>2
<1>2. IInv /\ [Next]_vars => [A]_vars
  BY <1>1
<1> QED
  BY <1>2, Invariance, PTL DEF Spec, OnlyRunaways
=============================================================================
