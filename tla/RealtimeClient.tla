--------------------------- MODULE RealtimeClient ---------------------------
(***************************************************************************)
(* The application client of velar/realtime (web/runtime/realtime-client): *)
(* one runner that connects, reads and reconnects, and callers of start,   *)
(* whenOpen and close.                                                     *)
(*                                                                         *)
(* A step is a turn: what the code does between two awaits.  runner names  *)
(* the await the runner is suspended in.  The callbacks of the application *)
(* (stateChanged, opened, receive, failed, closed) return or throw as they *)
(* like.  The connection below is that of velar/websocket: close() waits   *)
(* for the close event, closeInfo() for that or for an error, and the      *)
(* platform's own socket refuses the close codes in Refused with an        *)
(* exception.                                                              *)
(***************************************************************************)
EXTENDS Naturals, FiniteSets

CONSTANTS
  Callers,        \* each makes one call of start, whenOpen or close
  Delays,         \* the number of reconnectDelays
  RetryInitial,   \* the option of that name
  MaxWaiters,     \* 256 in the code
  Refused,        \* the close codes the platform's socket refuses
  MaxGeneration,  \* bound: connections made
  MaxInbox        \* bound: messages received and not read

ASSUME RealtimeAssumption ==
  /\ Delays \in Nat /\ MaxWaiters \in Nat /\ MaxGeneration \in Nat /\ MaxInbox \in Nat
  /\ RetryInitial \in BOOLEAN
  /\ Refused \subseteq {1007, 1011}

VARIABLES
  status, generation, stopping, connection, delayWake, failed, done,
  runner,      \* the await the runner is in, "idle" before start, "done" at the end
  attempt, openedOnce, reconnect, cause,  \* locals of the runner
  socket,      \* "none", "live", "closing", "failed" (an error, no close event yet), "gone"
  code,        \* what closeInfo answers
  asked,       \* close() was called on the connection
  inbox,
  call,        \* what each caller waits for or was told
  told         \* history: the generation closed() was last called for

client == <<status, generation, stopping, connection, delayWake, failed, done>>
locals == <<attempt, openedOnce, reconnect, cause>>
sockets == <<socket, code, asked, inbox>>
vars == <<client, runner, locals, sockets, call, told>>

Actions == {"continue", "reconnect", "stop"}
Transient == {1001, 1006, 1011}
Codes == Transient \cup {1000, 1007, 4009}

Init ==
  /\ status = "idle" /\ generation = 0
  /\ stopping = FALSE /\ connection = FALSE /\ delayWake = FALSE
  /\ failed = FALSE /\ done = FALSE
  /\ runner = "idle" /\ attempt = 0 /\ openedOnce = FALSE /\ reconnect = FALSE /\ cause = 1006
  /\ socket = "none" /\ code = 1006 /\ asked = FALSE /\ inbox = 0
  /\ call = [c \in Callers |-> "none"]
  /\ told = 0

-----------------------------------------------------------------------------
(* The connection: connect, next, close and closeInfo of velar/websocket.  *)

finished == socket \in {"failed", "gone"}

(* close(code): at once when the connection is finished; a second call     *)
(* waits with the first, whatever became of that one.                      *)
Closes(c) ==
  CASE finished -> "answered"
    [] ~finished /\ ~asked /\ c \in Refused -> "throws"
    [] OTHER -> "waits"

Closing(c) ==
  /\ asked' = (asked \/ ~finished)
  /\ socket' = IF finished \/ asked \/ c \in Refused THEN socket ELSE "closing"
  /\ code' = IF socket' = "closing" /\ socket = "live" THEN c ELSE code

(* The peer closes, or the close handshake that close() began completes.   *)
CloseEvent ==
  \/ /\ socket = "live" /\ socket' = "gone" /\ code' \in {1000, 1001}
     /\ UNCHANGED <<client, runner, locals, asked, inbox, call, told>>
  \/ /\ socket = "closing" /\ socket' = "gone" /\ code' \in {code, 1006}
     /\ UNCHANGED <<client, runner, locals, asked, inbox, call, told>>
  \/ /\ socket = "failed" /\ socket' = "gone"
     /\ UNCHANGED <<client, runner, locals, code, asked, inbox, call, told>>

(* An error rejects the next() that waits and drops what was not read.     *)
ErrorEvent ==
  /\ socket \in {"live", "closing"}
  /\ socket' = "failed" /\ code' = 1006 /\ inbox' = 0
  /\ IF runner = "next" /\ inbox = 0
       THEN runner' = "failing" /\ cause' = 1006
       ELSE UNCHANGED <<runner, cause>>
  /\ UNCHANGED <<client, attempt, openedOnce, reconnect, asked, call, told>>

(* A message that is too large, or finds the queue full, fails the         *)
(* connection too, and a next() that waits is answered null.               *)
RejectReceive ==
  /\ socket \in {"live", "closing"}
  /\ socket' = "failed" /\ code' = 4009 /\ inbox' = 0
  /\ UNCHANGED <<client, runner, locals, asked, call, told>>

Arrive ==
  /\ socket \in {"live", "closing"} /\ inbox < MaxInbox
  /\ inbox' = inbox + 1
  /\ UNCHANGED <<client, runner, locals, socket, code, asked, call, told>>

-----------------------------------------------------------------------------
(* The callers.                                                            *)

openWaiters == {c \in Callers : call[c] = "opening"}
Answered(S, answer) == [c \in Callers |-> IF c \in S THEN answer ELSE call[c]]

WhenOpen(c) ==
  call' = [call EXCEPT ![c] =
    CASE status = "open" -> "opened"
      [] status = "closed" \/ Cardinality(openWaiters) >= MaxWaiters -> "refused"
      [] OTHER -> "opening"]

Await(c) ==
  /\ call[c] = "none" /\ WhenOpen(c)
  /\ UNCHANGED <<client, runner, locals, sockets, told>>

(* start() of a client that was not started starts the runner, which       *)
(* announces "connecting" in the same turn.                                *)
Start(c) ==
  /\ call[c] = "none" /\ WhenOpen(c)
  /\ IF runner = "idle" /\ status # "closed"
       THEN status' = "connecting" /\ runner' = "entering"
       ELSE UNCHANGED <<status, runner>>
  /\ UNCHANGED <<generation, stopping, connection, delayWake, failed, done,
                 locals, sockets, told>>

CloseQuietly(c) ==
  /\ call[c] = "none" /\ status # "closed"
  /\ stopping' = TRUE /\ delayWake' = FALSE
  /\ status' = IF runner = "idle" THEN "closed" ELSE status
  /\ call' = [call EXCEPT ![c] = IF runner = "idle" THEN "ending" ELSE "joining"]
  /\ UNCHANGED <<generation, connection, failed, done, runner, locals, sockets, told>>

(* close(): the connection, then the runner; without a runner it announces *)
(* the end itself.  (Of the application's codes, 1000.)                    *)
Close(c) ==
  /\ call[c] = "none"
  /\ IF status = "closed"
       THEN /\ call' = [call EXCEPT ![c] = "closed"]
            /\ UNCHANGED <<status, stopping, delayWake, socket, code, asked>>
       ELSE /\ stopping' = TRUE /\ delayWake' = FALSE
            /\ status' = IF runner = "idle" THEN "closed" ELSE status
            /\ IF connection THEN Closing(1000) ELSE UNCHANGED <<socket, code, asked>>
            /\ call' = [call EXCEPT ![c] =
                 CASE runner = "idle" -> "ending"
                   [] connection /\ Closes(1000) = "waits" -> "closing"
                   [] OTHER -> "joining"]
  /\ UNCHANGED <<generation, connection, failed, done, runner, locals, inbox, told>>

CloseProceeds(c) ==
  \/ /\ call[c] = "closing" /\ socket = "gone"
     /\ call' = [call EXCEPT ![c] = "joining"]
     /\ UNCHANGED <<client, runner, locals, sockets, told>>
  \/ /\ call[c] = "joining" /\ done
     /\ call' = [call EXCEPT ![c] = IF failed THEN "raised" ELSE "closed"]
     /\ UNCHANGED <<client, runner, locals, sockets, told>>

(* close() of a client that never ran: stateChanged answered or threw.     *)
EndIdle(c, throws) ==
  /\ call[c] = "ending"
  /\ failed' = throws /\ done' = TRUE
  /\ call' = [Answered(openWaiters, "refused") EXCEPT ![c] =
                IF throws THEN "raised" ELSE "closed"]
  /\ UNCHANGED <<status, generation, stopping, connection, delayWake, runner,
                 locals, sockets, told>>

-----------------------------------------------------------------------------
(* The runner.  Where it goes next, of what it does before it waits again. *)

(* finally: whatever happened, the client ends and says so.                *)
Finally ==
  /\ connection' = FALSE /\ stopping' = TRUE /\ status' = "closed"
  /\ runner' = "ending"
  /\ UNCHANGED <<generation, delayWake>>

(* catch: a callback threw, or the connection's close() did.               *)
Unwind ==
  /\ IF connection
       THEN /\ Closing(1011)
            /\ runner' = IF Closes(1011) = "waits" THEN "abandoning" ELSE "abandoned"
       ELSE runner' = "unwound" /\ UNCHANGED <<socket, code, asked>>
  /\ UNCHANGED <<client, locals, inbox, call, told>>

(* The head of the loop. *)
Turn ==
  IF stopping
    THEN Finally /\ UNCHANGED <<failed, done>>
    ELSE LET next == IF openedOnce THEN "reconnecting" ELSE "connecting" IN
         /\ status' = next
         /\ runner' = IF status = next THEN "connecting" ELSE "entering"
         /\ UNCHANGED <<generation, stopping, connection, delayWake, failed, done>>

(* A delay of 0 does not wait. *)
Retry ==
  /\ attempt < Delays /\ attempt' = attempt + 1
  /\ delayWake' \in BOOLEAN
  /\ runner' = "delay"

Enter ==
  /\ runner = "entering"
  /\ \/ /\ runner' = "connecting"
        /\ UNCHANGED <<client, locals, sockets, call, told>>
     \/ Unwind

ConnectSucceeds ==
  /\ runner = "connecting" /\ generation < MaxGeneration
  /\ connection' = TRUE /\ inbox' = 0 /\ code' = 1006
  /\ IF stopping
       THEN /\ runner' = "refusing" /\ socket' = "closing" /\ asked' = TRUE
            /\ UNCHANGED <<generation, attempt, status>>
       ELSE /\ runner' = "announcing" /\ socket' = "live" /\ asked' = FALSE
            /\ generation' = generation + 1 /\ attempt' = 0 /\ status' = "open"
  /\ UNCHANGED <<stopping, delayWake, failed, done, openedOnce, reconnect, cause, call, told>>

ConnectFails ==
  /\ runner = "connecting" /\ runner' = "connectFailed"
  /\ UNCHANGED <<client, locals, sockets, call, told>>

(* failed(problem) answered, after a connection that was not made. *)
AfterConnectFailure(action) ==
  LET again == action = "reconnect" /\ (openedOnce \/ RetryInitial) IN
  /\ runner = "connectFailed"
  /\ \/ /\ again /\ Retry
        /\ UNCHANGED <<status, generation, stopping, connection, failed, done, call>>
     \/ /\ ~(again /\ attempt < Delays) /\ Finally
        /\ call' = Answered(openWaiters, "refused")
        /\ UNCHANGED <<failed, done, attempt>>
  /\ UNCHANGED <<openedOnce, reconnect, cause, sockets, told>>

Delayed ==
  /\ runner = "delay" /\ ~delayWake /\ Turn
  /\ UNCHANGED <<locals, sockets, call, told>>

TimerFires ==
  /\ delayWake /\ delayWake' = FALSE
  /\ UNCHANGED <<status, generation, stopping, connection, failed, done, runner,
                 locals, sockets, call, told>>

(* A connection that was made while the client was being closed. *)
RefusedLate ==
  /\ runner = "refusing" /\ socket = "gone" /\ Finally
  /\ UNCHANGED <<failed, done, locals, sockets, call, told>>

Announce ==
  /\ runner = "announcing"
  /\ \/ /\ runner' = "opened"
        /\ UNCHANGED <<client, locals, sockets, call, told>>
     \/ Unwind

(* while (!stopping): wait for the next message, or for the end. *)
Reads == IF stopping THEN "closeInfo" ELSE "next"

OpenedUnheard ==
  /\ runner = "opened"
  /\ openedOnce' = TRUE /\ reconnect' = FALSE /\ runner' = Reads
  /\ UNCHANGED <<client, attempt, cause, sockets, call, told>>

Opened ==
  /\ runner = "opened"
  /\ openedOnce' = TRUE /\ reconnect' = FALSE
  /\ call' = Answered(openWaiters, "opened")
  /\ runner' = Reads
  /\ UNCHANGED <<client, attempt, cause, sockets, told>>

OpenedThrows ==
  /\ runner = "opened" /\ runner' = "openedFailed"
  /\ UNCHANGED <<client, locals, sockets, call, told>>

LeavesItOpen ==
  /\ runner = "openedFailed" /\ runner' = "setupClosed"
  /\ call' = Answered(openWaiters, "refused")
  /\ UNCHANGED <<client, locals, sockets, told>>

AfterOpenedFailure ==
  /\ runner = "openedFailed"
  /\ call' = Answered(openWaiters, "refused")
  /\ IF Closes(1011) = "throws"
       THEN runner' = "abandoning" /\ asked' = TRUE /\ UNCHANGED <<socket, code>>
       ELSE /\ Closing(1011)
            /\ runner' = IF Closes(1011) = "waits" THEN "setupClosing" ELSE "setupClosed"
  /\ UNCHANGED <<client, locals, inbox, told>>

SetupClosed ==
  /\ runner = "setupClosed" \/ (runner = "setupClosing" /\ socket = "gone")
  /\ Finally
  /\ UNCHANGED <<failed, done, locals, sockets, call, told>>

(* next() answered with a message, which decode() may refuse, or with null.*)
TakeNext ==
  /\ runner = "next"
  /\ \/ /\ inbox > 0 /\ inbox' = inbox - 1
        /\ \/ runner' = "receiving" /\ UNCHANGED cause
           \/ runner' = "failing" /\ cause' = 1007
     \/ /\ inbox = 0 /\ finished /\ runner' = "closeInfo"
        /\ UNCHANGED <<inbox, cause>>
  /\ UNCHANGED <<client, attempt, openedOnce, reconnect, socket, code, asked, call, told>>

Receive ==
  /\ runner = "receiving"
  /\ \/ runner' = Reads /\ UNCHANGED cause
     \/ runner' = "failing" /\ cause' = 1011
  /\ UNCHANGED <<client, attempt, openedOnce, reconnect, sockets, call, told>>

(* failed(problem) answered, after a transport error (cause 1006) or a     *)
(* message that was not decoded (1007) or not received (1011).  A close()  *)
(* that throws lands in the catch, whose own close() then waits.           *)
AfterFailure(action) ==
  /\ runner = "failing"
  /\ IF cause # 1006 /\ action = "continue"
       THEN runner' = Reads /\ UNCHANGED <<reconnect, socket, code, asked>>
       ELSE /\ reconnect' = (action = "reconnect")
            /\ IF cause = 1006
                 THEN runner' = "closeInfo" /\ UNCHANGED <<socket, code, asked>>
                 ELSE /\ Closing(cause)
                      /\ runner' = CASE Closes(cause) = "throws" -> "abandoning"
                                     [] Closes(cause) = "waits" -> "dropping"
                                     [] OTHER -> "closeInfo"
  /\ UNCHANGED <<client, attempt, openedOnce, cause, inbox, call, told>>

FailureThrows ==
  /\ runner \in {"connectFailed", "openedFailed", "failing"}
  /\ Unwind

Dropped ==
  /\ runner = "dropping" /\ socket = "gone" /\ runner' = "closeInfo"
  /\ UNCHANGED <<client, locals, sockets, call, told>>

(* closeInfo() answered: the connection is over, and closed() is called.   *)
KeepsConnection ==
  /\ runner = "closeInfo" /\ finished
  /\ runner' = "closed" /\ told' = generation
  /\ UNCHANGED <<client, locals, sockets, call>>

CloseInfo ==
  /\ runner = "closeInfo" /\ finished
  /\ connection' = FALSE /\ runner' = "closed" /\ told' = generation
  /\ UNCHANGED <<status, generation, stopping, delayWake, failed, done,
                 locals, sockets, call>>

Closed ==
  /\ runner = "closed"
  /\ LET again == ~stopping /\ (reconnect \/ code \in Transient) IN
     \/ /\ again /\ Retry
        /\ UNCHANGED <<status, generation, stopping, connection, failed, done>>
     \/ /\ ~(again /\ attempt < Delays) /\ Finally
        /\ UNCHANGED <<failed, done, attempt>>
  /\ UNCHANGED <<openedOnce, reconnect, cause, sockets, call, told>>

ClosedThrows == runner = "closed" /\ Unwind

(* CloseFailedConnection: close, closeInfo, and closed(), which may throw. *)
Abandon ==
  \/ /\ runner = "abandoning" /\ socket = "gone" /\ runner' = "abandoned"
     /\ UNCHANGED <<client, locals, sockets, call, told>>
  \/ /\ runner = "abandoned" /\ finished
     /\ connection' = FALSE /\ runner' = "unwound" /\ told' = generation
     /\ UNCHANGED <<status, generation, stopping, delayWake, failed, done,
                    locals, sockets, call>>

Unwound ==
  /\ runner = "unwound" /\ failed' = TRUE /\ Finally
  /\ call' = Answered(openWaiters, "refused")
  /\ UNCHANGED <<done, locals, sockets, told>>

End(throws) ==
  /\ runner = "ending" /\ runner' = "done" /\ done' = TRUE
  /\ failed' = (failed \/ throws)
  /\ call' = Answered(openWaiters, "refused")
  /\ UNCHANGED <<status, generation, stopping, connection, delayWake,
                 locals, sockets, told>>

Run ==
  \/ Enter \/ ConnectSucceeds \/ ConnectFails \/ Delayed \/ RefusedLate
  \/ Announce \/ Opened \/ OpenedThrows \/ AfterOpenedFailure \/ SetupClosed
  \/ TakeNext \/ Receive \/ FailureThrows \/ Dropped
  \/ \E action \in Actions : AfterConnectFailure(action) \/ AfterFailure(action)
  \/ CloseInfo \/ Closed \/ ClosedThrows \/ Abandon \/ Unwound
  \/ \E throws \in BOOLEAN : End(throws)

Calls(c) == Await(c) \/ Start(c) \/ Close(c)
Proceeds(c) == CloseProceeds(c) \/ \E throws \in BOOLEAN : EndIdle(c, throws)

Next ==
  \/ Run \/ TimerFires \/ CloseEvent \/ ErrorEvent \/ RejectReceive \/ Arrive
  \/ \E c \in Callers : Calls(c) \/ Proceeds(c)

(* The callbacks and connect() come back, timers fire, and a socket that   *)
(* was told to close, or failed, reports it.  The peer owes nothing.       *)
Fairness ==
  /\ WF_vars(Run) /\ WF_vars(TimerFires)
  /\ WF_vars(socket \in {"closing", "failed"} /\ CloseEvent)
  /\ \A c \in Callers : WF_vars(Proceeds(c))

Spec == Init /\ [][Next]_vars /\ Fairness

-----------------------------------------------------------------------------
(* Type invariant. *)
TypeOK ==
  /\ status \in {"idle", "connecting", "open", "reconnecting", "closed"}
  /\ generation \in 0 .. MaxGeneration /\ attempt \in 0 .. Delays
  /\ stopping \in BOOLEAN /\ connection \in BOOLEAN /\ delayWake \in BOOLEAN
  /\ failed \in BOOLEAN /\ done \in BOOLEAN
  /\ openedOnce \in BOOLEAN /\ reconnect \in BOOLEAN /\ asked \in BOOLEAN
  /\ cause \in {1006, 1007, 1011} /\ code \in Codes
  /\ socket \in {"none", "live", "closing", "failed", "gone"}
  /\ inbox \in 0 .. MaxInbox /\ told \in 0 .. MaxGeneration
  /\ runner \in {"idle", "entering", "connecting", "connectFailed", "delay", "refusing",
       "announcing", "opened", "openedFailed", "setupClosing", "setupClosed", "next",
       "receiving", "failing", "dropping", "closeInfo", "closed", "abandoning",
       "abandoned", "unwound", "ending", "done"}
  /\ call \in [Callers -> {"none", "opening", "opened", "refused", "closing", "joining",
                           "ending", "closed", "raised"}]

(* The runner lets go of no socket that is still open: whichever callback  *)
(* threw and wherever close() came in, a client that ended, waits to       *)
(* reconnect or connects anew has seen its last connection end.            *)
NoLeak ==
  runner \in {"entering", "connecting", "connectFailed", "delay", "closed", "unwound", "ending", "done"}
    => socket \in {"none", "failed", "gone"} /\ ~connection

(* closed() is called at most once for a connection, though the ordinary   *)
(* end and the catch block both call it.                                   *)
CallsClosed ==
  \/ runner # "closed" /\ runner' = "closed"
  \/ runner = "abandoned" /\ runner' = "unwound"
ClosedOnce == [][CallsClosed => told < generation]_vars

(* The waiters of whenOpen and start are answered once the client runs.    *)
WaitersAnswered ==
  \A c \in Callers : call[c] = "opening" /\ runner # "idle" ~> call[c] # "opening"

(* A client that is closed, or gives up, ends, and its socket with it.     *)
Ends == stopping ~> done /\ ~connection
=============================================================================
