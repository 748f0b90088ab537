--------------------------- MODULE RealtimeProofs ---------------------------
(***************************************************************************)
(* That the runner of a realtime client lets go of no open connection and  *)
(* calls closed() at most once for each: for any callers, delays and close *)
(* codes a platform refuses.                                               *)
(***************************************************************************)
EXTENDS RealtimeClient, TLAPS

(* Where the runner has a connection, and where it has told nobody yet of  *)
(* its end.                                                                *)
Untold == {"announcing", "opened", "openedFailed", "setupClosing", "setupClosed", "next",
           "receiving", "failing", "dropping", "closeInfo", "abandoning", "abandoned"}
Attached == Untold \cup {"refusing"}

(* A runner that has no connection has seen the last one end. *)
Detached ==
  runner \notin Attached => socket \in {"none", "failed", "gone"} /\ ~connection
Held ==
  /\ runner \in Attached => connection /\ socket # "none"
  /\ runner = "setupClosed" => finished

(* The end of a connection is told after it was made. *)
ToldInTurn == told <= generation /\ (runner \in Untold => told < generation)

IInv == TypeOK /\ Detached /\ Held /\ ToldInTurn

(* The two halves of the type invariant.                                   *)
Flags ==
  /\ stopping \in BOOLEAN /\ connection \in BOOLEAN /\ delayWake \in BOOLEAN
  /\ failed \in BOOLEAN /\ done \in BOOLEAN
  /\ openedOnce \in BOOLEAN /\ reconnect \in BOOLEAN /\ asked \in BOOLEAN
Answers == {"none", "opening", "opened", "refused", "closing", "joining", "ending", "closed",
            "raised"}
Shapes ==
  /\ status \in {"idle", "connecting", "open", "reconnecting", "closed"}
  /\ generation \in 0 .. MaxGeneration /\ attempt \in 0 .. Delays
  /\ cause \in {1006, 1007, 1011} /\ code \in Codes
  /\ socket \in {"none", "live", "closing", "failed", "gone"}
  /\ inbox \in 0 .. MaxInbox /\ told \in 0 .. MaxGeneration
  /\ runner \in {"idle", "entering", "connecting", "connectFailed", "delay", "refusing",
       "announcing", "opened", "openedFailed", "setupClosing", "setupClosed", "next",
       "receiving", "failing", "dropping", "closeInfo", "closed", "abandoning",
       "abandoned", "unwound", "ending", "done"}
  /\ call \in [Callers -> Answers]

LEMMA Typed == TypeOK <=> Flags /\ Shapes
BY DEF TypeOK, Flags, Shapes, Answers

LEMMA TypedNext == TypeOK' <=> Flags' /\ Shapes'
BY DEF TypeOK, Flags, Shapes, Answers

LEMMA AnsweredType ==
  ASSUME Shapes, NEW S, NEW answer \in Answers
  PROVE  Answered(S, answer) \in [Callers -> Answers]
BY DEF Shapes, Answered

-----------------------------------------------------------------------------
(* What is done to the connection. *)

(* close() on a connection never opens one, and an answer at once means    *)
(* that it is over.                                                        *)
LEMMA ClosingEnds ==
  ASSUME NEW c \in {1000, 1007, 1011}, TypeOK, Closing(c), socket # "none"
  PROVE  /\ socket' \in {"live", "closing", "failed", "gone"} /\ code' \in Codes
         /\ asked' \in BOOLEAN /\ finished' = finished
         /\ Closes(c) \in {"answered", "throws", "waits"}
         /\ Closes(c) = "answered" <=> finished
BY DEF TypeOK, Closing, Closes, finished, Codes, Transient

(* The connection may end at any time, with or without the runner.         *)
Events == CloseEvent \/ ErrorEvent \/ RejectReceive \/ Arrive

LEMMA EventsType ==
  ASSUME TypeOK, Events
  PROVE  TypeOK'
<1> USE DEF TypeOK, client, locals
<1>1. CASE CloseEvent
  BY <1>1 DEF CloseEvent, Codes, Transient
<1>2. CASE ErrorEvent
  BY <1>2, RealtimeAssumption DEF ErrorEvent, Codes, Transient
<1>3. CASE RejectReceive
  BY <1>3, RealtimeAssumption DEF RejectReceive, Codes, Transient
<1>4. CASE Arrive
  BY <1>4, RealtimeAssumption DEF Arrive
<1> QED
  BY <1>1, <1>2, <1>3, <1>4 DEF Events

LEMMA EventsKeep ==
  ASSUME IInv, Events
  PROVE  Detached' /\ Held' /\ ToldInTurn'
<1> USE DEF IInv, Detached, Held, ToldInTurn, Attached, Untold, finished, client
<1>1. CASE CloseEvent
  BY <1>1 DEF CloseEvent
<1>2. CASE ErrorEvent
  BY <1>2 DEF ErrorEvent
<1>3. CASE RejectReceive \/ Arrive
  BY <1>3 DEF RejectReceive, Arrive
<1> QED
  BY <1>1, <1>2, <1>3 DEF Events

-----------------------------------------------------------------------------
(* The callers. *)

LEMMA CallersType ==
  ASSUME TypeOK, NEW c \in Callers, Calls(c) \/ Proceeds(c), connection => socket # "none"
  PROVE  TypeOK'
<1> USE DEF TypeOK, client, locals, sockets
<1>1. CASE Await(c)
  BY <1>1 DEF Await, WhenOpen
<1>2. CASE Start(c)
  BY <1>2 DEF Start, WhenOpen
<1>3. CASE Close(c)
  <2>1. asked' \in BOOLEAN /\ code' \in Codes /\ socket' \in {"none", "live", "closing", "failed", "gone"}
    BY <1>3, ClosingEnds DEF Close
  <2>2. call' \in [Callers -> Answers]
    <3>1. PICK answer \in Answers : call' = [call EXCEPT ![c] = answer]
      BY <1>3 DEF Close, Answers
    <3> QED
      BY <3>1, Typed DEF Shapes
  <2>3. status' \in {status, "closed"}
    BY <1>3 DEF Close
  <2>4. \/ UNCHANGED <<stopping, delayWake>>
        \/ stopping' = TRUE /\ delayWake' = FALSE
    BY <1>3 DEF Close
  <2>5. UNCHANGED <<generation, connection, failed, done, runner, locals, inbox, told>>
    BY <1>3 DEF Close
  <2>8. Flags
    BY Typed
  <2>6. Flags'
    <3>1. /\ failed' = failed /\ done' = done /\ connection' = connection
          /\ openedOnce' = openedOnce /\ reconnect' = reconnect
      BY <2>5
    <3> HIDE DEF TypeOK
    <3>2. stopping' \in BOOLEAN /\ delayWake' \in BOOLEAN
      BY <2>4, <2>8, Zenon DEF Flags
    <3> QED
      BY <2>1, <2>8, <3>1, <3>2, Zenon DEF Flags
  <2>7. Shapes'
    BY <2>1, <2>2, <2>3, <2>5, Typed DEF Shapes
  <2> QED
    BY <2>6, <2>7, TypedNext
<1>4. CASE CloseProceeds(c)
  BY <1>4 DEF CloseProceeds
<1>5. ASSUME NEW throws \in BOOLEAN, EndIdle(c, throws) PROVE TypeOK'
  BY <1>5 DEF EndIdle, Answered
<1> QED
  BY <1>1, <1>2, <1>3, <1>4, <1>5 DEF Calls, Proceeds

LEMMA CallersKeep ==
  ASSUME IInv, NEW c \in Callers, Calls(c) \/ Proceeds(c)
  PROVE  Detached' /\ Held' /\ ToldInTurn'
<1> USE DEF IInv, Detached, Held, ToldInTurn, Attached, Untold, finished, client, sockets
<1>1. CASE Await(c) \/ CloseProceeds(c)
  BY <1>1 DEF Await, CloseProceeds
<1>2. CASE Start(c)
  BY <1>2 DEF Start
<1>3. CASE Close(c)
  <2>1. UNCHANGED <<connection, runner, generation, told>>
    BY <1>3 DEF Close
  <2>2. \/ socket' = socket
        \/ connection /\ Closing(1000)
    BY <1>3 DEF Close
  <2>3. connection => socket # "none"
    OBVIOUS
  <2> QED
    BY <2>1, <2>2, <2>3, ClosingEnds
<1>4. ASSUME NEW throws \in BOOLEAN, EndIdle(c, throws) PROVE Detached' /\ Held' /\ ToldInTurn'
  BY <1>4 DEF EndIdle
<1> QED
  BY <1>1, <1>2, <1>3, <1>4 DEF Calls, Proceeds

-----------------------------------------------------------------------------
(* The runner. *)

Reading == {"next", "closeInfo"}

(* finally and the head of the loop leave the connections alone.           *)
LEMMA TurnKeeps ==
  ASSUME TypeOK, Turn \/ (Finally /\ UNCHANGED <<failed, done>>)
  PROVE  /\ status' \in {"connecting", "reconnecting", "closed"} /\ stopping' \in BOOLEAN
         /\ runner' \in {"connecting", "entering", "ending"}
         /\ connection' \in BOOLEAN /\ (connection' => connection)
         /\ runner' = "ending" => ~connection'
         /\ UNCHANGED <<generation, delayWake, failed, done>>
<1>1. CASE Finally /\ UNCHANGED <<failed, done>>
  BY <1>1 DEF Finally
<1>2. CASE ~stopping /\ Turn
  BY <1>2 DEF TypeOK, Turn
<1> QED
  BY <1>1, <1>2 DEF Turn

(* What leaves the connections alone and goes on without one keeps the     *)
(* invariant.                                                              *)
LEMMA GoesOn ==
  ASSUME IInv, UNCHANGED <<locals, sockets, call, told, generation, delayWake, failed, done>>,
         status' \in {"connecting", "reconnecting", "closed"}, stopping' \in BOOLEAN,
         runner' \in {"connecting", "entering", "ending"}, connection' = FALSE,
         socket \in {"none", "failed", "gone"}
  PROVE  IInv'
<1>1. TypeOK'
  <2>1. Flags /\ Shapes
    BY Typed DEF IInv
  <2>2. Flags'
    BY <2>1, Zenon DEF Flags, locals, sockets
  <2>3. Shapes'
    BY <2>1 DEF Shapes, locals, sockets
  <2> QED
    BY <2>2, <2>3, TypedNext
<1>2. Detached' /\ Held' /\ ToldInTurn'
  BY DEF IInv, Detached, Held, ToldInTurn, Attached, Untold, sockets
<1> QED
  BY <1>1, <1>2 DEF IInv

(* The catch block closes the connection if there is one. *)
LEMMA UnwindKeeps ==
  ASSUME IInv, Unwind, runner \in Untold \cup {"entering", "connectFailed", "closed"}
  PROVE  IInv'
<1>1. UNCHANGED <<client, locals, inbox, call, told>>
  BY DEF Unwind
<1>2. CASE connection
  <2>1. Closing(1011) /\ socket # "none" /\ runner \in Untold
    BY <1>2 DEF IInv, Detached, Held, Unwind, Attached, Untold
  <2>2. runner' \in {"abandoning", "abandoned"}
    BY <1>2 DEF Unwind
  <2>3. TypeOK'
    BY <1>1, <2>1, <2>2, ClosingEnds DEF IInv, TypeOK, client, locals
  <2> QED
    BY <1>1, <1>2, <2>1, <2>2, <2>3, ClosingEnds
    DEF IInv, Detached, Held, ToldInTurn, Attached, Untold, client
<1>3. CASE ~connection
  <2>1. runner' = "unwound" /\ UNCHANGED sockets
    BY <1>1, <1>3 DEF Unwind, sockets
  <2>2. runner \notin Attached
    BY <1>3 DEF IInv, Held
  <2> QED
    BY <1>1, <1>3, <2>1, <2>2
    DEF IInv, TypeOK, Detached, Held, ToldInTurn, Attached, Untold, client, locals, sockets, finished
<1> QED
  BY <1>2, <1>3

(* Connecting. *)
Connects ==
  Enter \/ ConnectSucceeds \/ ConnectFails \/ Delayed \/ RefusedLate \/ Announce \/ Opened
  \/ OpenedThrows \/ SetupClosed \/ \E action \in Actions : AfterConnectFailure(action)

LEMMA ConnectsKeeps ==
  ASSUME IInv, Connects
  PROVE  IInv'
<1> DEFINE Kept == UNCHANGED <<client, locals, sockets, call, told>>
<1>1. CASE Unwind /\ runner \in {"entering", "announcing"}
  BY <1>1, UnwindKeeps DEF Untold
<1>2. CASE (Enter \/ Announce) /\ ~Unwind
  BY <1>2 DEF Enter, Announce, IInv, TypeOK, Detached, Held, ToldInTurn, Attached, Untold,
       finished, client, locals, sockets
<1>3. CASE ConnectSucceeds
  <2>1. TypeOK'
    <3> Flags /\ Shapes
      BY Typed DEF IInv
    <3>1. /\ attempt' \in 0..Delays /\ code' \in Codes
          /\ inbox' \in 0..MaxInbox
      BY <1>3, RealtimeAssumption DEF ConnectSucceeds, Shapes, Codes, Transient
    <3>4. generation' \in 0..MaxGeneration
      <4>1. generation < MaxGeneration /\ generation' \in {generation, generation + 1}
        BY <1>3 DEF ConnectSucceeds
      <4> QED
        BY <4>1, RealtimeAssumption DEF Shapes
    <3>2. /\ connection' \in BOOLEAN /\ asked' \in BOOLEAN
      BY <1>3 DEF ConnectSucceeds
    <3>5. /\ status' \in {status, "open"}
          /\ runner' \in {"refusing", "announcing"} /\ socket' \in {"closing", "live"}
      BY <1>3 DEF ConnectSucceeds
    <3>3. UNCHANGED <<stopping, delayWake, failed, done, openedOnce, reconnect, cause, call, told>>
      BY <1>3 DEF ConnectSucceeds
    <3>6. Flags'
      BY <3>2, <3>3, Zenon DEF Flags
    <3>7. Shapes'
      BY <3>1, <3>3, <3>4, <3>5 DEF Shapes
    <3> QED
      BY <3>6, <3>7, TypedNext
  <2>2. Detached' /\ Held' /\ ToldInTurn'
    BY <1>3 DEF ConnectSucceeds, IInv, TypeOK, Detached, Held, ToldInTurn, Attached, Untold,
         finished
  <2> QED
    BY <2>1, <2>2 DEF IInv
<1>4. CASE ConnectFails \/ OpenedThrows
  BY <1>4 DEF ConnectFails, OpenedThrows, IInv, TypeOK, Detached, Held, ToldInTurn, Attached,
       Untold, finished, client, locals, sockets
<1>5. CASE Delayed
  <2>1. Turn /\ runner = "delay" /\ UNCHANGED <<locals, sockets, call, told>>
    BY <1>5 DEF Delayed
  <2>2. socket \in {"none", "failed", "gone"} /\ connection = FALSE
    BY <2>1 DEF IInv, TypeOK, Detached, Attached, Untold
  <2>3. connection' = FALSE
    BY <2>1, <2>2, TurnKeeps DEF IInv
  <2> QED
    BY <2>1, <2>2, <2>3, TurnKeeps, GoesOn DEF IInv
<1>6. CASE RefusedLate \/ SetupClosed
  <2>1. /\ Finally /\ UNCHANGED <<failed, done, locals, sockets, call, told>>
        /\ finished
    BY <1>6 DEF RefusedLate, SetupClosed, IInv, Held, finished
  <2>2. runner' = "ending" /\ connection' = FALSE
    BY <2>1 DEF Finally
  <2>3. socket \in {"failed", "gone"}
    BY <2>1 DEF finished
  <2> QED
    BY <2>1, <2>2, <2>3, TurnKeeps, GoesOn DEF IInv
<1>7. CASE Opened
  <2>1. TypeOK'
    <3> Flags /\ Shapes
      BY Typed DEF IInv
    <3>1. call' \in [Callers -> Answers]
      BY <1>7, AnsweredType DEF Opened, Answers
    <3>2. runner' \in Reading
      BY <1>7 DEF Opened, Reads, Reading
    <3>3. openedOnce' = TRUE /\ reconnect' = FALSE /\ UNCHANGED <<client, attempt, cause, sockets, told>>
      BY <1>7 DEF Opened
    <3>4. Flags'
      BY <3>3, Zenon DEF Flags, client, sockets
    <3>5. Shapes'
      BY <3>1, <3>2, <3>3 DEF Shapes, client, sockets, Reading
    <3> QED
      BY <3>4, <3>5, TypedNext
  <2>2. Detached' /\ Held' /\ ToldInTurn'
    BY <1>7 DEF Opened, IInv, Reads, Detached, Held, ToldInTurn, Attached, Untold, finished,
         client, sockets
  <2> QED
    BY <2>1, <2>2 DEF IInv
<1>8. ASSUME NEW action \in Actions, AfterConnectFailure(action) PROVE IInv'
  <2>1. /\ runner = "connectFailed" /\ runner' \in {"delay", "ending"}
        /\ UNCHANGED <<openedOnce, reconnect, cause, sockets, told, generation, failed, done>>
        /\ UNCHANGED <<status, stopping, connection>>
             \/ (status' = "closed" /\ stopping' = TRUE /\ connection' = FALSE)
    BY <1>8 DEF AfterConnectFailure, Retry, Finally
  <2> Flags /\ Shapes
    BY Typed DEF IInv
  <2>2. attempt' \in 0..Delays
    BY <1>8, RealtimeAssumption DEF AfterConnectFailure, Retry, Shapes
  <2>3. call' \in [Callers -> Answers]
    <3>1. UNCHANGED call \/ call' = Answered(openWaiters, "refused")
      BY <1>8 DEF AfterConnectFailure
    <3> QED
      BY <3>1, AnsweredType DEF Shapes, Answers
  <2>7. delayWake' \in BOOLEAN \/ UNCHANGED delayWake
    BY <1>8 DEF AfterConnectFailure, Retry, Finally
  <2>8. Flags'
    BY <2>1, <2>7, Zenon DEF Flags, sockets
  <2>9. Shapes'
    BY <2>1, <2>2, <2>3 DEF Shapes, sockets
  <2>4. runner \notin Attached /\ runner' \notin Attached
    BY <2>1 DEF Attached, Untold
  <2>5. TypeOK'
    BY <2>8, <2>9, TypedNext
  <2>6. Detached' /\ Held' /\ ToldInTurn'
    BY <2>1, <2>4 DEF IInv, Detached, Held, ToldInTurn, Attached, sockets
  <2> QED
    BY <2>5, <2>6 DEF IInv
<1> QED
  BY <1>1, <1>2, <1>3, <1>4, <1>5, <1>6, <1>7, <1>8 DEF Connects, Enter, Announce

(* Reading, and what failed. *)
Reacts ==
  AfterOpenedFailure \/ TakeNext \/ Receive \/ FailureThrows \/ Dropped
  \/ \E action \in Actions : AfterFailure(action)

LEMMA ReactsKeeps ==
  ASSUME IInv, Reacts
  PROVE  IInv'
<1>1. CASE FailureThrows
  BY <1>1, UnwindKeeps DEF FailureThrows, Untold
<1>2. CASE AfterOpenedFailure
  <2>1. /\ socket # "none" /\ connection /\ told < generation
        /\ UNCHANGED <<client, locals, inbox, told>>
    BY <1>2 DEF AfterOpenedFailure, IInv, Held, ToldInTurn, Attached, Untold
  <2> Flags /\ Shapes
    BY Typed DEF IInv
  <2>2. call' \in [Callers -> Answers]
    BY <1>2, AnsweredType DEF AfterOpenedFailure, Answers
  <2>3. CASE Closes(1011) = "throws"
    <3>1. runner' = "abandoning" /\ asked' = TRUE /\ UNCHANGED <<socket, code>>
      BY <1>2, <2>3 DEF AfterOpenedFailure
    <3>2. Flags'
      BY <2>1, <3>1, Zenon DEF Flags, client, locals
    <3>3. Shapes'
      BY <2>1, <2>2, <3>1 DEF Shapes, client, locals
    <3>4. Detached' /\ Held' /\ ToldInTurn'
      BY <2>1, <3>1 DEF IInv, Detached, Held, ToldInTurn, Attached, Untold, client
    <3> QED
      BY <3>2, <3>3, <3>4, TypedNext DEF IInv
  <2>4. CASE Closes(1011) # "throws"
    <3>1. /\ Closing(1011)
          /\ runner' = IF Closes(1011) = "waits" THEN "setupClosing" ELSE "setupClosed"
      BY <1>2, <2>4 DEF AfterOpenedFailure
    <3>2. /\ socket' \in {"live", "closing", "failed", "gone"} /\ code' \in Codes
          /\ asked' \in BOOLEAN /\ runner' \in {"setupClosing", "setupClosed"}
          /\ runner' = "setupClosed" => finished'
      BY <2>1, <2>4, <3>1, ClosingEnds DEF IInv
    <3>3. Flags'
      BY <2>1, <3>2, Zenon DEF Flags, client, locals
    <3>4. Shapes'
      BY <2>1, <2>2, <3>2 DEF Shapes, client, locals
    <3>5. Detached' /\ Held' /\ ToldInTurn'
      BY <2>1, <3>2 DEF IInv, Detached, Held, ToldInTurn, Attached, Untold, client
    <3> QED
      BY <3>3, <3>4, <3>5, TypedNext DEF IInv
  <2> QED
    BY <2>3, <2>4
<1>3. CASE TakeNext
  BY <1>3, RealtimeAssumption DEF TakeNext, IInv, TypeOK, Detached, Held, ToldInTurn, Attached, Untold,
       finished, client
<1>4. CASE Receive \/ Dropped
  BY <1>4 DEF Receive, Dropped, Reads, IInv, TypeOK, Detached, Held, ToldInTurn, Attached,
       Untold, finished, client, locals, sockets
<1>5. ASSUME NEW action \in Actions, AfterFailure(action) PROVE IInv'
  <2>1. /\ socket # "none" /\ connection /\ told < generation
        /\ UNCHANGED <<client, attempt, openedOnce, cause, inbox, call, told>>
    BY <1>5 DEF AfterFailure, IInv, Held, ToldInTurn, Attached, Untold
  <2>2. \/ UNCHANGED <<socket, code, asked>>
        \/ Closing(cause)
    BY <1>5 DEF AfterFailure
  <2>3. /\ socket' \in {"live", "closing", "failed", "gone"} /\ code' \in Codes
        /\ asked' \in BOOLEAN
    <3>1. cause \in {1000, 1007, 1011} \/ UNCHANGED <<socket, code, asked>>
      BY <1>5 DEF AfterFailure, IInv, TypeOK
    <3> QED
      BY <2>1, <2>2, <3>1, ClosingEnds DEF IInv, TypeOK
  <2>4. runner' \in Reading \cup {"abandoning", "dropping"}
    BY <1>5 DEF AfterFailure, Reads, Reading
  <2>5. UNCHANGED reconnect \/ reconnect' = (action = "reconnect")
    BY <1>5 DEF AfterFailure
  <2> Flags /\ Shapes
    BY Typed DEF IInv
  <2>6. Flags'
    BY <2>1, <2>3, <2>5, Zenon DEF Flags, client
  <2>7. Shapes'
    BY <2>1, <2>3, <2>4 DEF Shapes, Reading, client
  <2>8. Detached' /\ Held' /\ ToldInTurn'
    BY <2>1, <2>3, <2>4 DEF IInv, Detached, Held, ToldInTurn, Attached, Untold, Reading, client
  <2> QED
    BY <2>6, <2>7, <2>8, TypedNext DEF IInv
<1> QED
  BY <1>1, <1>2, <1>3, <1>4, <1>5 DEF Reacts

(* The end of a connection and of the runner. *)
Finishes ==
  CloseInfo \/ Closed \/ ClosedThrows \/ Abandon \/ Unwound \/ \E throws \in BOOLEAN : End(throws)

LEMMA FinishesKeeps ==
  ASSUME IInv, Finishes
  PROVE  IInv'
<1>1. CASE ClosedThrows
  BY <1>1, UnwindKeeps DEF ClosedThrows
<1>2. CASE CloseInfo \/ Abandon
  <2>1. UNCHANGED <<status, generation, stopping, delayWake, failed, done, locals, sockets, call>>
    BY <1>2 DEF CloseInfo, Abandon, client
  <2>2. \/ /\ runner = "abandoning" /\ runner' = "abandoned" /\ UNCHANGED <<connection, told>>
        \/ /\ runner' \in {"closed", "unwound"} /\ finished
           /\ connection' = FALSE /\ told' = generation
    BY <1>2 DEF CloseInfo, Abandon, client
  <2>3. TypeOK'
    <3> Flags /\ Shapes
      BY Typed DEF IInv
    <3>1. connection' = FALSE \/ UNCHANGED connection
      BY <2>2
    <3>2. Flags'
      BY <2>1, <3>1, Zenon DEF Flags, locals, sockets
    <3>3. Shapes'
      BY <2>1, <2>2 DEF Shapes, locals, sockets
    <3> QED
      BY <3>2, <3>3, TypedNext
  <2>4. generation \in Nat
    BY RealtimeAssumption DEF IInv, TypeOK
  <2>5. Detached' /\ Held' /\ ToldInTurn'
    BY <2>1, <2>2, <2>4 DEF IInv, Detached, Held, ToldInTurn, Attached, Untold, finished, sockets
  <2> QED
    BY <2>3, <2>5 DEF IInv
<1>3. CASE Closed
  <2>1. /\ runner = "closed" /\ runner' \in {"delay", "ending"}
        /\ UNCHANGED <<openedOnce, reconnect, cause, sockets, call, told, generation, failed, done>>
        /\ UNCHANGED <<status, stopping, connection>>
             \/ (status' = "closed" /\ stopping' = TRUE /\ connection' = FALSE)
    BY <1>3 DEF Closed, Retry, Finally
  <2> Flags /\ Shapes
    BY Typed DEF IInv
  <2>2. attempt' \in 0..Delays
    BY <1>3, RealtimeAssumption DEF Closed, Retry, Shapes
  <2>6. delayWake' \in BOOLEAN \/ UNCHANGED delayWake
    BY <1>3 DEF Closed, Retry, Finally
  <2>7. Flags'
    BY <2>1, <2>6, Zenon DEF Flags, sockets
  <2>8. Shapes'
    BY <2>1, <2>2 DEF Shapes, sockets
  <2>3. runner \notin Attached /\ runner' \notin Attached
    BY <2>1 DEF Attached, Untold
  <2>4. TypeOK'
    BY <2>7, <2>8, TypedNext
  <2>5. Detached' /\ Held' /\ ToldInTurn'
    BY <2>1, <2>3 DEF IInv, Detached, Held, ToldInTurn, Attached, sockets
  <2> QED
    BY <2>4, <2>5 DEF IInv
<1>4. CASE Unwound
  <2>1. /\ runner = "unwound" /\ runner' = "ending" /\ ~connection' /\ status' = "closed"
        /\ stopping' = TRUE /\ failed' = TRUE
        /\ UNCHANGED <<done, locals, sockets, told, generation, delayWake>>
    BY <1>4 DEF Unwound, Finally
  <2> Flags /\ Shapes
    BY Typed DEF IInv
  <2>2. call' \in [Callers -> Answers]
    BY <1>4, AnsweredType DEF Unwound, Answers
  <2>5. connection' = FALSE
    BY <1>4 DEF Unwound, Finally
  <2>6. Flags'
    BY <2>1, <2>5, Zenon DEF Flags, locals, sockets
  <2>7. Shapes'
    BY <2>1, <2>2 DEF Shapes, locals, sockets
  <2>3. TypeOK'
    BY <2>6, <2>7, TypedNext
  <2>4. Detached' /\ Held' /\ ToldInTurn'
    BY <2>1 DEF IInv, Detached, Held, ToldInTurn, Attached, Untold, sockets
  <2> QED
    BY <2>3, <2>4 DEF IInv
<1>5. ASSUME NEW throws \in BOOLEAN, End(throws) PROVE IInv'
  <2> Flags /\ Shapes
    BY Typed DEF IInv
  <2>1. call' \in [Callers -> Answers]
    BY <1>5, AnsweredType DEF End, Answers
  <2>2. /\ runner = "ending" /\ runner' = "done" /\ done' = TRUE /\ failed' = (failed \/ throws)
        /\ UNCHANGED <<status, generation, stopping, connection, delayWake, locals, sockets, told>>
    BY <1>5 DEF End
  <2>3. Flags'
    BY <2>2, Zenon DEF Flags, locals, sockets
  <2>4. Shapes'
    BY <2>1, <2>2 DEF Shapes, locals, sockets
  <2>5. Detached' /\ Held' /\ ToldInTurn'
    BY <2>2 DEF IInv, Detached, Held, ToldInTurn, Attached, Untold, finished, sockets
  <2> QED
    BY <2>3, <2>4, <2>5, TypedNext DEF IInv
<1> QED
  BY <1>1, <1>2, <1>3, <1>4, <1>5 DEF Finishes

-----------------------------------------------------------------------------
(* The theorems. *)

LEMMA InvStep ==
  ASSUME IInv, [Next]_vars
  PROVE  IInv'
<1>1. CASE Events
  BY <1>1, EventsType, EventsKeep DEF IInv
<1>2. ASSUME NEW c \in Callers, Calls(c) \/ Proceeds(c) PROVE IInv'
  <2>1. connection => socket # "none"
    BY DEF IInv, Held, Detached
  <2> QED
    BY <1>2, <2>1, CallersType, CallersKeep DEF IInv
<1>3. CASE Connects \/ Reacts \/ Finishes
  BY <1>3, ConnectsKeeps, ReactsKeeps, FinishesKeeps
<1>4. CASE TimerFires
  <2>1. TypeOK'
    <3> Flags /\ Shapes
      BY Typed DEF IInv
    <3>1. Flags'
      BY <1>4, Zenon DEF TimerFires, Flags, locals, sockets
    <3>2. Shapes'
      BY <1>4 DEF TimerFires, Shapes, locals, sockets
    <3> QED
      BY <3>1, <3>2, TypedNext
  <2>2. Detached' /\ Held' /\ ToldInTurn'
    BY <1>4 DEF TimerFires, IInv, Detached, Held, ToldInTurn, finished, sockets
  <2> QED
    BY <2>1, <2>2 DEF IInv
<1>5. CASE UNCHANGED vars
  BY <1>5 DEF vars, IInv, TypeOK, Detached, Held, ToldInTurn, Attached, Untold, finished,
       client, locals, sockets
<1> QED
  BY <1>1, <1>2, <1>3, <1>4, <1>5 DEF Next, Run, Events, Connects, Reacts, Finishes

LEMMA Invariance == Spec => []IInv
<1>1. Init => IInv
  <2>1. ASSUME Init PROVE TypeOK
    <3>1. Flags
      BY <2>1, Zenon DEF Init, Flags
    <3>2. Shapes
      BY <2>1, RealtimeAssumption DEF Init, Shapes, Codes, Transient, Answers
    <3> QED
      BY <3>1, <3>2, Typed
  <2>2. ASSUME Init PROVE Detached /\ Held /\ ToldInTurn
    BY <2>2 DEF Init, Detached, Held, ToldInTurn, Attached, Untold
  <2> QED
    BY <2>1, <2>2 DEF IInv
<1> QED
  BY <1>1, InvStep, PTL DEF Spec

(* The client, its runner and its connection stay well formed.             *)
THEOREM TypeCorrect == Spec => []TypeOK
<1>1. IInv => TypeOK
  BY DEF IInv
<1> QED
  BY <1>1, Invariance, PTL

(* The runner lets go of no open connection, wherever a callback threw or  *)
(* close() came in (__velarRealtimeRun).                                   *)
THEOREM NoConnectionLeaks == Spec => []NoLeak
<1>1. IInv => NoLeak
  BY DEF IInv, Detached, NoLeak, Attached, Untold
<1> QED
  BY <1>1, Invariance, PTL

(* closed() is called at most once for a connection, by the ordinary end   *)
(* or by the catch block.                                                  *)
THEOREM ClosedIsToldOnce == Spec => ClosedOnce
<1>1. ASSUME IInv, [Next]_vars, CallsClosed PROVE told < generation
  <2>1. CASE runner = "abandoned"
    BY <1>1, <2>1 DEF IInv, ToldInTurn, Untold
  <2>2. CASE runner # "closed" /\ runner' = "closed"
    <3>1. CloseInfo
      BY <1>1, <2>2 DEF Next, vars, client, locals, sockets, Run, TimerFires, CloseEvent, ErrorEvent, RejectReceive,
           Arrive, Calls, Await, Start, Close, Proceeds, CloseProceeds, EndIdle, Enter, Unwind,
           ConnectSucceeds, ConnectFails, Delayed, Turn, Finally, RefusedLate, Announce, Opened,
           Reads, OpenedThrows, AfterOpenedFailure, SetupClosed, TakeNext, Receive, FailureThrows,
           Dropped, AfterConnectFailure, Retry, AfterFailure, Closed, ClosedThrows, Abandon,
           Unwound, End
    <3> QED
      BY <1>1, <3>1 DEF CloseInfo, IInv, ToldInTurn, Untold
  <2> QED
    BY <1>1, <2>1, <2>2 DEF CallsClosed
<1>2. IInv /\ [Next]_vars => [CallsClosed => told < generation]_vars
  BY <1>1
<1> QED
  BY <1>2, Invariance, PTL DEF Spec, ClosedOnce
=============================================================================
