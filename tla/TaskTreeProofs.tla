---------------------------- MODULE TaskTreeProofs ----------------------------
(***************************************************************************)
(* Proofs about owned tasks (module TaskTree), for every finite set of     *)
(* tasks: what a cancellation reaches, what a Cancellation holds on to,    *)
(* and what an answered cancel(), close() or withTimeout has waited for.   *)
(***************************************************************************)
EXTENDS TaskTree, TLAPS

-----------------------------------------------------------------------------
(* The walk of a cancellation.  Reached(t) is a smallest closed set: it is *)
(* closed itself, and it holds nothing but t and children of its members.  *)

LEMMA ReachedStart ==
  ASSUME NEW t \in Tasks
  PROVE  /\ Reached(t) \subseteq Tasks
         /\ t \in CancelToken(t)
BY DEF Reached, CancelToken

LEMMA ReachedGoesOn ==
  ASSUME NEW t \in Tasks, children \in [Tasks -> SUBSET Tasks],
         NEW u \in Reached(t), NEW c \in children[u], c \notin cancelled
  PROVE  c \in Reached(t)
<1>1. u \in Tasks /\ c \in Tasks
  BY ReachedStart
<1> QED
  BY <1>1 DEF Reached

LEMMA ReachedFromAbove ==
  ASSUME NEW t \in Tasks, children \in [Tasks -> SUBSET Tasks], NEW u \in Reached(t)
  PROVE  u = t \/ \E q \in Reached(t) : u \in children[q]
<1> DEFINE S == {v \in Reached(t) : v = t \/ \E q \in Reached(t) : v \in children[q]}
<1>1. S \in SUBSET Tasks
  BY ReachedStart
<1>2. t \notin cancelled => t \in S
  BY DEF Reached
<1>3. ASSUME NEW v \in S, NEW c \in children[v], c \notin cancelled
      PROVE  c \in S
  <2>1. v \in Reached(t)
    OBVIOUS
  <2>2. c \in Reached(t)
    BY <1>3, <2>1, ReachedGoesOn
  <2> QED
    BY <2>1, <2>2
<1>4. u \in S
  <2> HIDE DEF S
  <2> QED
    BY <1>1, <1>2, <1>3 DEF Reached
<1> QED
  BY <1>4

-----------------------------------------------------------------------------
(* The inductive invariant adds to the safety properties that a wait has   *)
(* cancelled what it waits for, and that only tasks that were made have a  *)
(* task below them, a cancelled Cancellation or a time limit.              *)

WaitingIsCancelled == \A t \in Tasks : stop[t] = "waiting" => t \in cancelled

OnlyWhatExists ==
  \A t \in Tasks :
    /\ parent[t] # None => Exists(parent[t])
    /\ t \in cancelled \/ timeout[t] # "none" => Exists(t)

IInv == /\ TypeOK /\ ReachesDown /\ HoldsTheLiving /\ AnsweredMeansEnded
        /\ CancelledForAReason /\ WaitingIsCancelled /\ OnlyWhatExists

LEMMA InvInit == Init => IInv
BY TasksAssumption
   DEF Init, IInv, TypeOK, ReachesDown, HoldsTheLiving, AnsweredMeansEnded,
       CancelledForAReason, WaitingIsCancelled, OnlyWhatExists, Live, Exists, Outcomes

LEMMA CreateKeeps ==
  ASSUME IInv, NEW t \in Tasks, NEW p \in Tasks \cup {None}, Create(t, p)
  PROVE  IInv'
<1> USE TasksAssumption DEF IInv, Create, TypeOK
<1>1. t \notin cancelled /\ p # t /\ \A x \in Tasks : parent[x] # t
  BY DEF OnlyWhatExists, Exists
<1>2. /\ \A x \in Tasks : status'[x] = IF x = t THEN "starting" ELSE status[x]
      /\ \A x \in Tasks : parent'[x] = IF x = t THEN p ELSE parent[x]
      /\ \A q \in Tasks : children'[q] = IF q = p THEN children[q] \cup {t} ELSE children[q]
      /\ cancelled' = IF p \in cancelled THEN cancelled \cup {t} ELSE cancelled
  BY DEF Inherits
<1>3. TypeOK'
  BY <1>2
<1>4. ReachesDown'
  BY <1>1, <1>2 DEF ReachesDown, Live
<1>5. HoldsTheLiving'
  <2> SUFFICES ASSUME NEW q \in Tasks, NEW x \in Tasks
               PROVE  (x \in children[q] <=> Live(x) /\ parent[x] = q)'
    BY DEF HoldsTheLiving
  <2>1. x \in children[q] <=> Live(x) /\ parent[x] = q
    BY DEF HoldsTheLiving
  <2>2. ~Live(t)
    BY DEF Live, Exists
  <2> QED
    BY <1>2, <2>1, <2>2 DEF Live
<1>6. AnsweredMeansEnded'
  BY <1>1, <1>2 DEF AnsweredMeansEnded, Exists
<1>7. CancelledForAReason'
  BY <1>1, <1>2 DEF CancelledForAReason, Asked
<1>8. WaitingIsCancelled' /\ OnlyWhatExists'
  BY <1>1, <1>2 DEF WaitingIsCancelled, OnlyWhatExists, Exists
<1> QED
  BY <1>3, <1>4, <1>5, <1>6, <1>7, <1>8

(* The steps of the work itself. *)
LEMMA WorkKeeps ==
  ASSUME IInv, NEW t \in Tasks, Begin(t) \/ (\E how \in Outcomes : End(t, how)) \/ Settle(t)
  PROVE  IInv'
<1> USE DEF IInv, TypeOK
<1>1. CASE Begin(t) \/ \E how \in Outcomes : End(t, how)
  <2>1. /\ UNCHANGED <<parent, children, cancelled, stop, timeout>>
        /\ status' \in [Tasks -> {"absent", "starting", "running", "ending", "settled"}]
        /\ outcome' \in [Tasks -> Outcomes \cup {"none"}]
        /\ \A x \in Tasks : status[x] = "settled" <=> status'[x] = "settled"
        /\ \A x \in Tasks : status[x] = "absent" <=> status'[x] = "absent"
    BY <1>1 DEF Begin, End
  <2>2. \A x \in Tasks : (Live(x))' <=> Live(x)
    BY <2>1 DEF Live
  <2>3. TypeOK'
    BY <2>1
  <2>4. ReachesDown' /\ HoldsTheLiving'
    BY <2>1, <2>2 DEF ReachesDown, HoldsTheLiving
  <2>5. AnsweredMeansEnded' /\ CancelledForAReason'
    BY <2>1 DEF AnsweredMeansEnded, CancelledForAReason, Asked
  <2>6. WaitingIsCancelled' /\ OnlyWhatExists'
    BY <2>1, TasksAssumption DEF WaitingIsCancelled, OnlyWhatExists, Exists
  <2> QED
    BY <2>3, <2>4, <2>5, <2>6
<1>2. CASE Settle(t)
  <2>1. /\ UNCHANGED <<outcome, parent, cancelled, stop, timeout>>
        /\ status[t] = "ending"
        /\ \A x \in Tasks : status'[x] = IF x = t THEN "settled" ELSE status[x]
        /\ \A q \in Tasks : children'[q] = children[q] \ {t}
    BY <1>2 DEF Settle, DetachCancellation
  <2>2. TypeOK'
    BY <1>2 DEF Settle, DetachCancellation
  <2>3. \A x \in Tasks : (Live(x))' <=> Live(x) /\ x # t
    BY <2>1 DEF Live
  <2>4. ReachesDown' /\ HoldsTheLiving'
    BY <2>1, <2>3 DEF ReachesDown, HoldsTheLiving
  <2>5. AnsweredMeansEnded' /\ CancelledForAReason'
    BY <2>1 DEF AnsweredMeansEnded, CancelledForAReason, Asked
  <2>6. WaitingIsCancelled' /\ OnlyWhatExists'
    BY <2>1, TasksAssumption DEF WaitingIsCancelled, OnlyWhatExists, Exists
  <2> QED
    BY <2>2, <2>4, <2>5, <2>6
<1> QED
  BY <1>1, <1>2

(* A cancellation, whoever asks for it. *)
LEMMA CancelKeeps ==
  ASSUME IInv, NEW t \in Tasks, Exists(t), cancelled' = CancelToken(t),
         UNCHANGED <<status, outcome, parent, children>>,
         TypeOK', AnsweredMeansEnded', WaitingIsCancelled', Asked(t)',
         \A x \in Tasks : Asked(x) => Asked(x)',
         \A x \in Tasks : timeout'[x] # "none" => timeout[x] # "none"
  PROVE  IInv'
<1> USE DEF IInv, TypeOK
<1>1. cancelled' = cancelled \cup Reached(t) /\ Reached(t) \subseteq Tasks
  BY ReachedStart DEF CancelToken
<1>2. ReachesDown'
  <2> SUFFICES ASSUME NEW x \in Tasks, Live(x), parent[x] \in cancelled'
               PROVE  x \in cancelled'
    BY DEF ReachesDown, Live
  <2>1. CASE parent[x] \in cancelled
    BY <1>1, <2>1 DEF ReachesDown
  <2>2. CASE parent[x] \in Reached(t)
    <3>1. x \in children[parent[x]]
      BY <1>1, <2>2 DEF HoldsTheLiving
    <3> QED
      BY <1>1, <2>2, <3>1, ReachedGoesOn
  <2> QED
    BY <1>1, <2>1, <2>2
<1>3. HoldsTheLiving'
  BY DEF HoldsTheLiving, Live
<1>4. ASSUME NEW u \in Reached(t)
      PROVE  u = t \/ (Live(u) /\ parent[u] \in Reached(t))
  <2>1. CASE \E q \in Reached(t) : u \in children[q]
    <3>1. PICK q \in Reached(t) : u \in children[q]
      BY <2>1
    <3> QED
      BY <1>1, <3>1 DEF HoldsTheLiving
  <2> QED
    BY <2>1, ReachedFromAbove
<1>5. CancelledForAReason'
  BY <1>1, <1>4 DEF CancelledForAReason
<1>6. OnlyWhatExists'
  BY <1>1, <1>4 DEF OnlyWhatExists, Exists, Live
<1> QED
  BY <1>2, <1>3, <1>5, <1>6

LEMMA CancelTaskKeeps ==
  ASSUME IInv, NEW t \in Tasks, CancelTask(t)
  PROVE  IInv'
<1> USE DEF IInv, CancelTask
<1>1. cancelled \subseteq cancelled' /\ t \in cancelled' /\ cancelled' \subseteq Tasks
  BY ReachedStart DEF CancelToken, TypeOK
<1>2. TypeOK'
  BY <1>1 DEF TypeOK
<1>3. \A x \in Tasks : stop'[x] = IF x = t THEN "waiting" ELSE stop[x]
  BY DEF TypeOK
<1>4. AnsweredMeansEnded' /\ WaitingIsCancelled'
  BY <1>1, <1>3 DEF AnsweredMeansEnded, WaitingIsCancelled
<1>5. Asked(t)' /\ \A x \in Tasks : Asked(x) => Asked(x)'
  BY <1>3 DEF Asked
<1> QED
  BY <1>2, <1>4, <1>5, CancelKeeps

LEMMA TimerFiresKeeps ==
  ASSUME IInv, NEW t \in Tasks, TimerFires(t)
  PROVE  IInv'
<1> USE DEF IInv, TimerFires, TimesOut
<1>1. cancelled \subseteq cancelled' /\ t \in cancelled' /\ cancelled' \subseteq Tasks
  BY ReachedStart DEF CancelToken, TypeOK
<1>2. TypeOK'
  BY <1>1 DEF TypeOK
<1>3. \A x \in Tasks : timeout'[x] = IF x = t THEN "late" ELSE timeout[x]
  BY DEF TypeOK
<1>4. AnsweredMeansEnded' /\ WaitingIsCancelled'
  BY <1>1, <1>3 DEF AnsweredMeansEnded, WaitingIsCancelled
<1>5. Asked(t)' /\ \A x \in Tasks : Asked(x) => Asked(x)'
  BY <1>3 DEF Asked
<1>6. Exists(t)
  BY DEF OnlyWhatExists
<1> QED
  BY <1>2, <1>3, <1>4, <1>5, <1>6, CancelKeeps

(* The answers, and the call that arms a time limit. *)
LEMMA AnswersKeep ==
  ASSUME IInv, NEW t \in Tasks, AwaitStop(t) \/ WithTimeout(t) \/ Answer(t)
  PROVE  IInv'
<1> USE DEF IInv, TypeOK
<1>1. UNCHANGED <<status, outcome, parent, children, cancelled>>
  BY DEF AwaitStop, WithTimeout, Answer
<1>2. TypeOK'
  BY DEF AwaitStop, WithTimeout, Answer
<1>3. ReachesDown' /\ HoldsTheLiving'
  BY <1>1 DEF ReachesDown, HoldsTheLiving, Live
<1>4. CASE AwaitStop(t)
  <2>1. /\ stop[t] = "waiting" /\ status[t] = "settled" /\ timeout' = timeout
        /\ stop'[t] \in {"stopped", "raised"}
        /\ \A x \in Tasks : x # t => stop'[x] = stop[x]
    BY <1>4 DEF AwaitStop
  <2>2. AnsweredMeansEnded' /\ WaitingIsCancelled'
    BY <1>1, <2>1 DEF AnsweredMeansEnded, WaitingIsCancelled
  <2>3. CancelledForAReason' /\ OnlyWhatExists'
    BY <1>1, <2>1 DEF CancelledForAReason, Asked, OnlyWhatExists, Exists
  <2> QED
    BY <1>2, <1>3, <2>2, <2>3
<1>5. CASE WithTimeout(t)
  <2>1. /\ Exists(t) /\ timeout[t] = "none" /\ stop' = stop
        /\ \A x \in Tasks : timeout'[x] = IF x = t THEN "armed" ELSE timeout[x]
    BY <1>5 DEF WithTimeout
  <2>2. AnsweredMeansEnded' /\ WaitingIsCancelled'
    BY <1>1, <2>1 DEF AnsweredMeansEnded, WaitingIsCancelled
  <2>3. CancelledForAReason' /\ OnlyWhatExists'
    BY <1>1, <2>1 DEF CancelledForAReason, Asked, OnlyWhatExists, Exists
  <2> QED
    BY <1>2, <1>3, <2>2, <2>3
<1>6. CASE Answer(t)
  <2>1. /\ status[t] = "settled" /\ stop' = stop
        /\ timeout[t] \in {"armed", "late"}
        /\ timeout[t] = "late" => timeout'[t] = "TimeoutError"
        /\ timeout[t] = "armed" => timeout'[t] = outcome[t]
        /\ \A x \in Tasks : x # t => timeout'[x] = timeout[x]
    BY <1>6 DEF Answer
  <2>2. outcome[t] \notin {"late", "TimeoutError"}
    BY DEF Outcomes
  <2>3. AnsweredMeansEnded' /\ WaitingIsCancelled'
    BY <1>1, <2>1, <2>2 DEF AnsweredMeansEnded, WaitingIsCancelled
  <2>4. CancelledForAReason' /\ OnlyWhatExists'
    BY <1>1, <2>1 DEF CancelledForAReason, Asked, OnlyWhatExists, Exists
  <2> QED
    BY <1>2, <1>3, <2>3, <2>4
<1> QED
  BY <1>4, <1>5, <1>6

LEMMA StutterKeeps == IInv /\ UNCHANGED vars => IInv'
BY DEF vars, IInv, TypeOK, ReachesDown, HoldsTheLiving, AnsweredMeansEnded,
       CancelledForAReason, WaitingIsCancelled, OnlyWhatExists, Live, Exists, Asked

LEMMA Invariance == Spec => []IInv
<1>1. IInv /\ [Next]_vars => IInv'
  <2> SUFFICES ASSUME IInv, Next PROVE IInv'
    BY StutterKeeps
  <2> QED
    BY CreateKeeps, WorkKeeps, CancelTaskKeeps, TimerFiresKeeps, AnswersKeep DEF Next
<1> QED
  BY <1>1, InvInit, PTL DEF Spec

-----------------------------------------------------------------------------
(* The tree and the waits are well formed after every history of creating, *)
(* ending, cancelling and waiting for tasks.                               *)
THEOREM TypeCorrect == Spec => []TypeOK
<1>1. IInv => TypeOK
  BY DEF IInv
<1> QED
  BY <1>1, Invariance, PTL

(* __velarCancelToken and the creation of a Cancellation below a cancelled *)
(* one leave no live task uncancelled below a cancelled one, in whatever   *)
(* order tasks are made, cancelled and settled.                            *)
THEOREM CancellationReachesDown == Spec => []ReachesDown
<1>1. IInv => ReachesDown
  BY DEF IInv
<1> QED
  BY <1>1, Invariance, PTL

(* The detaching of a settled task (__velarMakeTask) leaves every          *)
(* Cancellation with exactly the live tasks that were made below it.       *)
THEOREM ChildrenAreTheLiving == Spec => []HoldsTheLiving
<1>1. IInv => HoldsTheLiving
  BY DEF IInv
<1> QED
  BY <1>1, Invariance, PTL

(* cancel(), close() and a late withTimeout answer only when the work they *)
(* cancelled has ended.                                                    *)
THEOREM NothingRunsBehindAnAnswer == Spec => []AnsweredMeansEnded
<1>1. IInv => AnsweredMeansEnded
  BY DEF IInv
<1> QED
  BY <1>1, Invariance, PTL

(* No cancellation goes up or sideways in the tree of tasks.               *)
THEOREM CancellationHasAReason == Spec => []CancelledForAReason
<1>1. IInv => CancelledForAReason
  BY DEF IInv
<1> QED
  BY <1>1, Invariance, PTL
=============================================================================
