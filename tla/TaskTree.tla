------------------------------ MODULE TaskTree ------------------------------
(***************************************************************************)
(* Owned tasks of velar/task (packages/core/runtime/task.js): the tree of  *)
(* Cancellation values behind them, task(work, parent), Task.cancel and    *)
(* Task.close, and withTimeout.                                            *)
(*                                                                         *)
(* A turn is an action.  What the code leaves to a microtask (the start of *)
(* the work, the settling of the task once the work has ended, the answer  *)
(* of whoever waits for it) is an action of its own, and a timer fires     *)
(* only when no microtask is left.  Waits on a Cancellation are those of   *)
(* module Channel; here the work sees its Cancellation at its checkpoints. *)
(***************************************************************************)
EXTENDS Naturals, FiniteSets

CONSTANTS Tasks, None

ASSUME TasksAssumption == None \notin Tasks /\ IsFiniteSet(Tasks)

VARIABLES
  status,     \* "absent", "starting", "running", "ending" or "settled"
  outcome,    \* how the work ended
  parent,     \* the task whose Cancellation the task was given, or None
  children,   \* the Cancellations each Cancellation would cancel
  cancelled,  \* the tasks whose Cancellation is cancelled
  stop,       \* the wait of a cancel() or close() call on each task
  timeout     \* the withTimeout call on each task

vars == <<status, outcome, parent, children, cancelled, stop, timeout>>

Outcomes == {"value", "failure", "cancelled"}

Init ==
  /\ status = [t \in Tasks |-> "absent"]
  /\ outcome = [t \in Tasks |-> "none"]
  /\ parent = [t \in Tasks |-> None]
  /\ children = [t \in Tasks |-> {}]
  /\ cancelled = {}
  /\ stop = [t \in Tasks |-> "none"]
  /\ timeout = [t \in Tasks |-> "none"]

Exists(t) == status[t] # "absent"
Live(t) == status[t] \in {"starting", "running", "ending"}

(* A Cancellation made below a cancelled one is cancelled from the start. *)
InheritsNothing(p) == FALSE
Inherits(p) == p \in cancelled

Create(t, p) ==
  /\ ~Exists(t) /\ (p # None => Exists(p))
  /\ status' = [status EXCEPT ![t] = "starting"]
  /\ parent' = [parent EXCEPT ![t] = p]
  /\ children' = [q \in Tasks |-> IF q = p THEN children[q] \cup {t} ELSE children[q]]
  /\ cancelled' = IF Inherits(p) THEN cancelled \cup {t} ELSE cancelled
  /\ UNCHANGED <<outcome, stop, timeout>>

(* The work starts in a microtask, cancelled or not. *)
Begin(t) ==
  /\ status[t] = "starting"
  /\ status' = [status EXCEPT ![t] = "running"]
  /\ UNCHANGED <<outcome, parent, children, cancelled, stop, timeout>>

(* The work ends as it likes; the CancellationError it ends with may be    *)
(* that of another Cancellation, which a stop does not tell from its own.  *)
End(t, how) ==
  /\ status[t] = "running"
  /\ status' = [status EXCEPT ![t] = "ending"]
  /\ outcome' = [outcome EXCEPT ![t] = how]
  /\ UNCHANGED <<parent, children, cancelled, stop, timeout>>

(* The task settles in the microtask after, and its Cancellation leaves    *)
(* the parent's.                                                           *)
NotDetached(t) == children
DetachCancellation(t) == [q \in Tasks |-> children[q] \ {t}]

Settle(t) ==
  /\ status[t] = "ending"
  /\ status' = [status EXCEPT ![t] = "settled"]
  /\ children' = DetachCancellation(t)
  /\ UNCHANGED <<outcome, parent, cancelled, stop, timeout>>

(* Cancelling t cancels what hangs below it; the walk returns at a         *)
(* Cancellation that is cancelled already.                                 *)
Reached(t) ==
  LET Closed(S) == (t \notin cancelled => t \in S) /\
        \A u \in S : \A c \in children[u] : c \notin cancelled => c \in S
  IN {u \in Tasks : \A S \in SUBSET Tasks : Closed(S) => u \in S}

CancelParentToo(t) == cancelled \cup Reached(t) \cup ({parent[t]} \ {None})
CancelToken(t) == cancelled \cup Reached(t)

(* cancel() and close() cancel and then wait for the task. *)
CancelTask(t) ==
  /\ Exists(t) /\ stop[t] = "none"
  /\ cancelled' = CancelToken(t)
  /\ stop' = [stop EXCEPT ![t] = "waiting"]
  /\ UNCHANGED <<status, outcome, parent, children, timeout>>

AwaitValue(t) ==
  /\ stop[t] = "waiting" /\ status[t] = "settled" /\ outcome[t] = "value"
  /\ stop' = [stop EXCEPT ![t] = "stopped"]
  /\ UNCHANGED <<status, outcome, parent, children, cancelled, timeout>>

(* The wait swallows the cancellation and nothing else. *)
AwaitStop(t) ==
  /\ stop[t] = "waiting" /\ status[t] = "settled"
  /\ stop' = [stop EXCEPT ![t] = IF outcome[t] = "failure" THEN "raised" ELSE "stopped"]
  /\ UNCHANGED <<status, outcome, parent, children, cancelled, timeout>>

WithTimeout(t) ==
  /\ Exists(t) /\ timeout[t] = "none"
  /\ timeout' = [timeout EXCEPT ![t] = "armed"]
  /\ UNCHANGED <<status, outcome, parent, children, cancelled, stop>>

(* No microtask is left to run. *)
Quiet ==
  \A t \in Tasks :
    /\ status[t] \notin {"starting", "ending"}
    /\ status[t] = "settled" => stop[t] # "waiting" /\ timeout[t] \notin {"armed", "late"}

(* The timer settles the call, cancels the task, and then waits for it.    *)
AbandonsTask(t) == cancelled
TimesOut(t) == CancelToken(t)

TimerFires(t) ==
  /\ timeout[t] = "armed" /\ Quiet
  /\ timeout' = [timeout EXCEPT ![t] = "late"]
  /\ cancelled' = TimesOut(t)
  /\ UNCHANGED <<status, outcome, parent, children, stop>>

AnswersAtOnce(t) ==
  /\ timeout[t] = "late" \/ (timeout[t] = "armed" /\ status[t] = "settled")
  /\ timeout' = [timeout EXCEPT ![t] =
                   IF timeout[t] = "late" THEN "TimeoutError" ELSE outcome[t]]
  /\ UNCHANGED <<status, outcome, parent, children, cancelled, stop>>

(* The call answers with the task's outcome, or with TimeoutError. *)
Answer(t) ==
  /\ timeout[t] \in {"armed", "late"} /\ status[t] = "settled"
  /\ timeout' = [timeout EXCEPT ![t] =
                   IF timeout[t] = "late" THEN "TimeoutError" ELSE outcome[t]]
  /\ UNCHANGED <<status, outcome, parent, children, cancelled, stop>>

Next ==
  \E t \in Tasks :
    \/ \E p \in Tasks \cup {None} : Create(t, p)
    \/ Begin(t)
    \/ \E how \in Outcomes : End(t, how)
    \/ Settle(t)
    \/ CancelTask(t) \/ AwaitStop(t)
    \/ WithTimeout(t) \/ TimerFires(t) \/ Answer(t)

(* Microtasks and timers run; and the work is cooperative: once cancelled  *)
(* it comes to a checkpoint and ends.                                      *)
Fairness ==
  \A t \in Tasks :
    /\ WF_vars(Begin(t)) /\ WF_vars(Settle(t)) /\ WF_vars(AwaitStop(t))
    /\ WF_vars(Answer(t)) /\ SF_vars(TimerFires(t))
    /\ WF_vars(t \in cancelled /\ \E how \in Outcomes : End(t, how))

Spec == Init /\ [][Next]_vars /\ Fairness

-----------------------------------------------------------------------------
(* Type invariant. *)
TypeOK ==
  /\ status \in [Tasks -> {"absent", "starting", "running", "ending", "settled"}]
  /\ outcome \in [Tasks -> Outcomes \cup {"none"}]
  /\ parent \in [Tasks -> Tasks \cup {None}]
  /\ children \in [Tasks -> SUBSET Tasks]
  /\ cancelled \subseteq Tasks
  /\ stop \in [Tasks -> {"none", "waiting", "stopped", "raised"}]
  /\ timeout \in [Tasks -> Outcomes \cup {"none", "armed", "late", "TimeoutError"}]

(* Cancellation reaches down: a live task below a cancelled Cancellation   *)
(* is cancelled too, in whatever order the two were made and cancelled,    *)
(* and whether or not the task above has settled meanwhile.                *)
ReachesDown ==
  \A t \in Tasks : Live(t) /\ parent[t] \in cancelled => t \in cancelled

(* A Cancellation holds on to the tasks below it while they live and not   *)
(* longer: a parent that outlives its children does not collect them, and  *)
(* loses none it must still reach.                                         *)
HoldsTheLiving ==
  \A p, t \in Tasks : t \in children[p] <=> Live(t) /\ parent[t] = p

(* cancel(), close() and a withTimeout that was too late answer only when  *)
(* the work has ended, so nothing of it runs behind the answer; and a late *)
(* withTimeout has cancelled it.                                           *)
AnsweredMeansEnded ==
  \A t \in Tasks :
    /\ stop[t] \in {"stopped", "raised"} => status[t] = "settled" /\ t \in cancelled
    /\ timeout[t] \notin {"none", "armed", "late"} => status[t] = "settled"
    /\ timeout[t] \in {"late", "TimeoutError"} => t \in cancelled

(* Cancellation does not go up, nor sideways: a task is cancelled because  *)
(* somebody stopped it or it ran into a time limit, or because the         *)
(* Cancellation it was given is cancelled.                                 *)
Asked(t) == stop[t] # "none" \/ timeout[t] \in {"late", "TimeoutError"}
CancelledForAReason ==
  \A t \in cancelled : Asked(t) \/ parent[t] \in cancelled

(* Whoever waits is answered once the task is cancelled. *)
StopEnds == \A t \in Tasks : stop[t] = "waiting" ~> stop[t] \in {"stopped", "raised"}
TimeoutEnds == \A t \in Tasks : timeout[t] = "late" ~> timeout[t] = "TimeoutError"
=============================================================================
