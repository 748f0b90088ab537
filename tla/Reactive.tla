------------------------------ MODULE Reactive ------------------------------
(***************************************************************************)
(* The reactive graph of the web runtime and the flush that settles it     *)
(* (packages/web/runtime: graph.js, flush.js, emitted-reactivity.js,       *)
(* emitted-scope.js).  State cells tell their subscribers of a write; a    *)
(* computed caches what it derived until it is told; watches and DOM       *)
(* positions wait in queues for the flush.                                 *)
(*                                                                         *)
(* What runs is JavaScript on one stack: a read of a dirty computed        *)
(* evaluates it inside its reader, and a write tells its subscribers       *)
(* before the writer goes on.  The stack is therefore a variable, an       *)
(* action is one instruction of the code on top of it, and the telling and *)
(* the unsubscribing, which call no user code, are operators on the graph. *)
(* The code itself is the parameter Code; Init chooses one of the Pages.   *)
(*                                                                         *)
(* Left open: the order in which the subscribers of one cell, and the      *)
(* computeds and positions of the DOM queue, are taken (insertion order in *)
(* the code).  Left out: the budget of a flush (module FlushWindow).       *)
(***************************************************************************)
EXTENDS Naturals, Sequences, FiniteSets

CONSTANTS
  Cells, Computeds, Watches, Doms,
  Values,
  Sequence,        \* the order in which the watches are written
  MaxSelf,         \* self-invalidations an observer survives (100)
  Pages,           \* the programs that are checked
  Impure,          \* those whose positions write as they render, or whose
                   \* computeds may come to read themselves
  Parts,           \* the computeds, watches and positions of each
  Code(_, _, _, _),  \* the next instruction of an observer's code on a page,
                     \* given its phase and what its instructions answered
  Traces,          \* the sequences of answers that code may have got so far
  Start0,          \* the value every cell is created with
  Inputs,          \* the assignments <<cell, value>> of each page's handlers
  Nobody           \* no observer, or no value yet

Observers == Computeds \cup Watches \cup Doms
Nodes == Cells \cup Computeds

(* What an instruction may answer; a stopped computed that never ended its *)
(* first run answers a read with no value.                                 *)
Answers == Values \cup {Nobody}

Instructions ==
  [op : {"read"}, of : Nodes] \cup [op : {"write"}, of : Cells, to : Values]
  \cup [op : {"mount"}, of : Doms] \cup [op : {"stop"}, of : Watches \cup Doms]
  \cup [op : {"return"}, to : Answers] \cup [op : {"throw"}]

ASSUME NamesAssumption ==
  /\ Cells \cap Observers = {} /\ Computeds \cap (Watches \cup Doms) = {}
  /\ Watches \cap Doms = {} /\ Nobody \notin Nodes \cup Observers /\ Nobody \notin Values
  /\ IsFiniteSet(Computeds)
ASSUME MaxSelfAssumption == MaxSelf \in Nat /\ Start0 \in Values
ASSUME SequenceAssumption ==
  /\ Sequence \in [Watches -> Nat]
  /\ \A v, w \in Watches : Sequence[v] = Sequence[w] => v = w

(* Code is code: it reads and writes what there is, and Traces is closed   *)
(* under going on.                                                         *)
ASSUME CodeAssumption ==
  /\ Traces \subseteq Seq(Answers) /\ <<>> \in Traces /\ \A v \in Answers : <<v>> \in Traces
  /\ \A p \in Pages, o \in Observers, phase \in {"read", "body"}, t \in Traces :
       /\ Code(p, o, phase, t) \in Instructions
       /\ Code(p, o, phase, t).op \notin {"return", "throw"} =>
            \A v \in Answers : Append(t, v) \in Traces

(* Not assumed, but asked of programs (docs/web-api.md: "Keep derived      *)
(* values pure"): a computed only reads.                                   *)
PureDerivations ==
  \A p \in Pages, c \in Computeds, t \in Traces :
    Code(p, c, "read", t).op \in {"read", "return", "throw"}

(* Nor are these, which a theorem may ask of a page: nothing is written by   *)
(* what a watch observes or a position shows, and no computed reads itself   *)
(* through others.                                                           *)
ReadsOnly(p) ==
  \A o \in Observers, t \in Traces : Code(p, o, "read", t).op # "write"

(* A rank of the computeds that falls with every read.                       *)
Falls(p, rank) ==
  \A c \in Computeds, t \in Traces :
    LET next == Code(p, c, "read", t) IN
    next.op = "read" /\ next.of \in Computeds => rank[next.of] < rank[c]

NoCircle(p) ==
  \E rank \in [Computeds -> 1..Cardinality(Computeds)] : Falls(p, rank)

(* So are the pages on which a flush is asked to settle first.               *)
CalmPages ==
  PureDerivations /\ \A p \in Pages \ Impure : ReadsOnly(p) /\ NoCircle(p)

VARIABLES
  page,     \* the program that runs, fixed from the start
  val,      \* what each cell holds
  cache,    \* what each computed derived last, and whether that failed
  shown,    \* what a watch last saw, or a position last showed
  graph,    \* subscriptions, dirty marks, stops, self-invalidations, queues
  stack,    \* the runs under way, innermost last
  flush,    \* where the flush stands
  mounted,  \* the watches and positions created so far
  used,     \* history: what each observer's last run read
  drawn     \* history: the positions this flush has run

vars == <<page, val, cache, shown, graph, stack, flush, mounted, used, drawn>>

Init ==
  /\ page \in Pages
  /\ val = [s \in Cells |-> Start0]
  /\ cache = [c \in Computeds |-> [has |-> FALSE, failed |-> FALSE, value |-> Nobody]]
  /\ shown = [o \in Watches \cup Doms |-> Nobody]
  /\ graph = [subs |-> [n \in Nodes |-> {}], deps |-> [o \in Observers |-> {}],
              dirty |-> Computeds, stopped |-> {},
              selfInv |-> [o \in Observers |-> 0],
              queue |-> {}, pending |-> FALSE]
  /\ stack = <<>>
  /\ flush = [phase |-> "rest", pass |-> {}, ran |-> FALSE]
  /\ mounted = {} /\ used = [o \in Observers |-> {}] /\ drawn = {}

-----------------------------------------------------------------------------
(* The graph.                                                              *)

(* The pair <<o, n>>, o's subscription to n, is taken away; a computed     *)
(* that loses its last subscriber thereby is detached, which takes away    *)
(* its own subscriptions and marks it dirty, and so on.                    *)
Detached(G, P) ==
  LET Gone(o, n, X) == <<o, n>> \in P \/ (o \in X /\ n \in G.deps[o])
      Closed(X) == \A n \in Computeds :
        G.subs[n] # {} /\ (\A o \in G.subs[n] : Gone(o, n, X)) => n \in X
  IN {n \in Computeds : \A X \in SUBSET Computeds : Closed(X) => n \in X}

Cut(G, P) ==
  LET X == Detached(G, P) IN
  [G EXCEPT
     !.subs = [n \in Nodes |-> {o \in G.subs[n] :
                 <<o, n>> \notin P /\ ~(o \in X /\ n \in G.deps[o])}],
     !.deps = [o \in Observers |-> IF o \in X THEN {}
                 ELSE {n \in G.deps[o] : <<o, n>> \notin P}],
     !.dirty = @ \cup X]

CleanUp(G, S) == Cut(G, {p \in S \X Nodes : p[2] \in G.deps[p[1]]})

Detach(G, c) == [CleanUp(G, {c}) EXCEPT !.dirty = @ \cup {c}]

StopAll(G, S) == CleanUp([G EXCEPT !.stopped = @ \cup S], S)

(* The observers O are notified while R are running.  A computed becomes   *)
(* dirty at once and so do the computeds that subscribe to it; a running   *)
(* observer counts the notice as its own doing.                            *)
DirtiedShallow(G, O, R) ==
  {c \in O \cap Computeds : c \notin G.stopped \cup G.dirty}

Dirtied(G, O, R) ==
  LET Takes(c) == /\ c \notin G.stopped \cup G.dirty
                  /\ c \in R => G.selfInv[c] < MaxSelf
      Closed(D) == \A c \in Computeds :
        (c \in O \/ \E d \in D : c \in G.subs[d]) /\ Takes(c) => c \in D
  IN {c \in Computeds : \A D \in SUBSET Computeds : Closed(D) => c \in D}

TellUncapped(G, O, R) ==
  [G EXCEPT !.dirty = @ \cup Dirtied(G, O, R),
            !.queue = @ \cup (O \ (Computeds \cup G.stopped)) \cup Dirtied(G, O, R),
            !.pending = TRUE]

Tell(G, O, R) ==
  LET D == Dirtied(G, O, R)
      Notices(o) == (IF o \in O THEN 1 ELSE 0)
                    + Cardinality({d \in D : o \in Computeds /\ o \in G.subs[d]})
      Told == {o \in Observers : Notices(o) > 0} \ G.stopped
      Over == {o \in Told \cap R : G.selfInv[o] + Notices(o) > MaxSelf}
      Scheduled == {c \in D : G.subs[c] # {}} \cup (Told \ (Computeds \cup Over))
  IN StopAll(
       CleanUp([G EXCEPT
         !.dirty = @ \cup D,
         !.selfInv = [o \in Observers |->
            IF o \notin Told THEN G.selfInv[o]
            ELSE IF o \notin R THEN 0
            ELSE IF o \in Over THEN MaxSelf + 1 ELSE G.selfInv[o] + Notices(o)],
         !.queue = @ \cup Scheduled,
         !.pending = @ \/ (Scheduled # {})],
         {c \in D : G.subs[c] = {}}),
       Over)

-----------------------------------------------------------------------------
(* The stack.                                                              *)

top == stack[Len(stack)]
below == SubSeq(stack, 1, Len(stack) - 1)
Busy == stack # <<>>
OnStack == {stack[i].who : i \in DOMAIN stack}

Idle == ~Busy /\ flush.phase = "rest"

(* What runs subscribes to what it reads, except in a watch's body. *)
Active == IF Busy /\ top.phase = "read" THEN top.who ELSE Nobody

Track(G, n) ==
  IF Active \in {Nobody, n} \cup G.stopped THEN G
  ELSE [G EXCEPT !.subs[n] = @ \cup {Active}, !.deps[Active] = @ \cup {n}]

(* A run collects its dependencies anew; the old ones are dropped at its   *)
(* end.  by says what started it and consumer who reads its answer.        *)
Run(o, by) ==
  [who |-> o, phase |-> "read", trace |-> <<>>, seen |-> {}, next |-> Nobody,
   old |-> graph.deps[o], by |-> by, consumer |-> Active,
   recursed |-> FALSE, thrown |-> FALSE]

Anew(G, o) == [G EXCEPT !.deps[o] = {}]

Instruction == IF top.thrown THEN [op |-> "throw"]
               ELSE Code(page, top.who, top.phase, top.trace)

(* The frame f goes on with v, read from n unless n is Nobody. *)
Answered(f, n, v) ==
  [f EXCEPT !.trace = Append(@, v),
            !.seen = IF n # Nobody /\ f.phase = "read" THEN @ \cup {<<n, v>>} ELSE @]

Continue(n, v) == stack' = Append(below, Answered(top, n, v))
Throws(frames) == [frames EXCEPT ![Len(frames)].thrown = TRUE]

(* The frame on top is done; the one below, if any, goes on. *)
Return(frames, n, v) ==
  IF frames = <<>> THEN <<>>
  ELSE [frames EXCEPT ![Len(frames)] = Answered(@, n, v)]
ReturnFailed(frames) == IF frames = <<>> THEN <<>> ELSE Throws(frames)

KeepOld(G) == G

ForgetOld(G) ==
  Cut(G, {<<top.who, n>> : n \in top.old \ G.deps[top.who]})

-----------------------------------------------------------------------------
(* One instruction of the code on top of the stack.                        *)

ReadCell ==
  /\ Instruction.op = "read" /\ Instruction.of \in Cells
  /\ graph' = Track(graph, Instruction.of)
  /\ Continue(Instruction.of, val[Instruction.of])
  /\ UNCHANGED <<val, cache, shown, flush, mounted, used, drawn>>

(* A computed that is clean, or was stopped, answers from its cache.  (The *)
(* code has cleared an old failure when one stopped within its own run     *)
(* reads itself, and answers the value before it; here it fails again.)    *)
Fresh(c) == c \notin graph.dirty \/ c \in graph.stopped

ReadFresh ==
  /\ Instruction.op = "read" /\ Instruction.of \in Computeds
  /\ LET c == Instruction.of IN
     /\ Fresh(c)
     /\ graph' = Track(graph, c)
     /\ IF cache[c].failed THEN stack' = Throws(stack)
                           ELSE Continue(c, cache[c].value)
  /\ UNCHANGED <<val, cache, shown, flush, mounted, used, drawn>>

ReadDirty ==
  /\ Instruction.op = "read" /\ Instruction.of \in Computeds
  /\ LET c == Instruction.of IN
     /\ ~Fresh(c) /\ c \notin OnStack
     /\ graph' = Anew(Track(graph, c), c)
     /\ stack' = Append(stack, Run(c, "access"))
  /\ UNCHANGED <<val, cache, shown, flush, mounted, used, drawn>>

(* The recursion guard: the inner read throws, the outer run remembers. *)
ReadRecursive ==
  /\ Instruction.op = "read" /\ Instruction.of \in Computeds
  /\ LET c == Instruction.of IN
     /\ ~Fresh(c) /\ c \in OnStack
     /\ graph' = Track(graph, c)
     /\ stack' = Throws([i \in DOMAIN stack |->
          [stack[i] EXCEPT !.recursed = @ \/ stack[i].who = c]])
  /\ UNCHANGED <<val, cache, shown, flush, mounted, used, drawn>>

Assign(s, v) ==
  /\ val' = [val EXCEPT ![s] = v]
  /\ graph' = IF v = val[s] THEN graph ELSE Tell(graph, graph.subs[s], OnStack)

Write ==
  /\ Instruction.op = "write"
  /\ Assign(Instruction.of, Instruction.to)
  /\ Continue(Nobody, Instruction.to)
  /\ UNCHANGED <<cache, shown, flush, mounted, used, drawn>>

(* A render creates the positions inside it, which run at once. *)
Create ==
  /\ Instruction.op = "mount"
  /\ IF Instruction.of \in mounted
       THEN Continue(Nobody, Nobody) /\ UNCHANGED mounted
       ELSE /\ mounted' = mounted \cup {Instruction.of}
            /\ stack' = Append(stack, Run(Instruction.of, "mount"))
  /\ UNCHANGED <<val, cache, shown, graph, flush, used, drawn>>

Destroy ==
  /\ Instruction.op = "stop"
  /\ graph' = StopAll(graph, {Instruction.of} \cap mounted)
  /\ Continue(Nobody, Nobody)
  /\ UNCHANGED <<val, cache, shown, flush, mounted, used, drawn>>

Ends == Instruction.op \in {"return", "throw"}
Fails == Instruction.op = "throw"
Result == Instruction.to

(* The end of a computed's evaluation: subscriptions, cache, then those    *)
(* that depend on it, except the reader the answer goes to.  An equal      *)
(* value tells nobody; whether two failures are one error is open.         *)
ChangedValue(c) == IF Fails \/ ~cache[c].has THEN {TRUE} ELSE {Result # cache[c].value}

ChangedUnlessFailing(c) == {~cache[c].has \/ (~Fails /\ Result # cache[c].value)}

Changed(c) ==
  IF ~cache[c].has \/ cache[c].failed # Fails THEN {TRUE}
  ELSE IF Fails THEN BOOLEAN
  ELSE {Result # cache[c].value}

EveryDependent(G, c) == G.subs[c]
Dependents(G, c) == G.subs[c] \ {top.consumer}

(* A computed on a cycle lets go of it, and so does one nobody observes. *)
LetsGoUnread(G, c) == G.subs[c] = {}
LetsGo(G, c) == (Fails /\ top.recursed) \/ G.subs[c] = {}

EndComputed ==
  /\ Busy /\ top.who \in Computeds /\ Ends
  /\ LET c == top.who
         clean == [ForgetOld(graph) EXCEPT !.dirty = @ \ {c}]
         kept == IF LetsGo(clean, c) THEN Detach(clean, c) ELSE clean
     IN /\ \E changed \in Changed(c) :
             graph' = IF changed THEN Tell(kept, Dependents(kept, c), OnStack)
                                 ELSE kept
        /\ cache' = [cache EXCEPT ![c] =
             [has |-> TRUE, failed |-> Fails,
              value |-> IF Fails THEN @.value ELSE Result]]
        /\ used' = [used EXCEPT ![c] = top.seen]
        /\ stack' = IF top.by = "run" THEN below
                    ELSE IF Fails THEN ReturnFailed(below)
                    ELSE Return(below, c, Result)
  /\ UNCHANGED <<val, shown, flush, mounted, drawn>>

(* A watch that saw another value than last time goes on with its body,    *)
(* whose reads are not tracked.                                            *)
Differs(o, v) == shown[o] # Nobody /\ v # shown[o]

EnterBody ==
  /\ Busy /\ top.who \in Watches /\ top.phase = "read"
  /\ Instruction.op = "return" /\ Differs(top.who, Result)
  /\ stack' = Append(below, [top EXCEPT !.phase = "body", !.trace = <<Result>>,
                                        !.next = Result])
  /\ UNCHANGED <<val, cache, shown, graph, flush, mounted, used, drawn>>

(* The end of a run of a watch or a position.  A failure leaves what was   *)
(* shown; in a position's first run it goes to whoever created it.         *)
Saw == IF top.phase = "body" THEN top.next ELSE Result

EndObserver ==
  /\ Busy /\ top.who \in Watches \cup Doms /\ Ends
  /\ ~(top.who \in Watches /\ top.phase = "read" /\ ~Fails /\ Differs(top.who, Result))
  /\ graph' = ForgetOld(graph)
  /\ shown' = IF Fails THEN shown ELSE [shown EXCEPT ![top.who] = Saw]
  /\ used' = [used EXCEPT ![top.who] = top.seen]
  /\ stack' = IF Fails /\ top.by = "mount" /\ top.who \in Doms
                THEN ReturnFailed(below) ELSE Return(below, Nobody, Nobody)
  /\ UNCHANGED <<val, cache, flush, mounted, drawn>>

Step ==
  /\ Busy
  /\ \/ ReadCell \/ ReadFresh \/ ReadDirty \/ ReadRecursive
     \/ Write \/ Create \/ Destroy
     \/ EndComputed \/ EnterBody \/ EndObserver
  /\ UNCHANGED page

-----------------------------------------------------------------------------
(* The program outside: event handlers, timers and the mounting of a page, *)
(* each a turn of its own.                                                 *)

Turn(s, v) ==
  /\ Idle /\ <<s, v>> \in Inputs[page] /\ v # val[s]
  /\ Assign(s, v)
  /\ UNCHANGED <<cache, shown, stack, flush, mounted, used, drawn>>

Peek(c) ==
  /\ Idle /\ c \in Parts[page] /\ ~Fresh(c)
  /\ graph' = Anew(graph, c)
  /\ stack' = <<Run(c, "access")>>
  /\ UNCHANGED <<val, cache, shown, flush, mounted, used, drawn>>

Mount(o) ==
  /\ Idle /\ o \in Parts[page] \ mounted
  /\ mounted' = mounted \cup {o}
  /\ stack' = <<Run(o, "mount")>>
  /\ UNCHANGED <<val, cache, shown, graph, flush, used, drawn>>

Stop(o) ==
  /\ Idle /\ o \in mounted \ graph.stopped
  /\ graph' = StopAll(graph, {o})
  /\ UNCHANGED <<val, cache, shown, stack, flush, mounted, used, drawn>>

-----------------------------------------------------------------------------
(* The flush: computeds until none is queued, then the queued watches in   *)
(* the order they were written, again until neither is left, and then the  *)
(* positions, until one of them queued a computed.                         *)

Enter(phase) == flush' = [flush EXCEPT !.phase = phase, !.ran = FALSE]

Queued(S) == graph.queue \cap S

StartFlush ==
  /\ Idle /\ graph.pending
  /\ graph' = [graph EXCEPT !.pending = FALSE]
  /\ IF graph.queue = {} THEN UNCHANGED flush ELSE Enter("derive")
  /\ drawn' = {}
  /\ UNCHANGED <<page, val, cache, shown, stack, mounted, used>>

(* run() of a queued observer that need not run returns at once. *)
OwesEvenStopped(o) == o \in Computeds => o \in graph.dirty /\ graph.subs[o] # {}
Owes(o) ==
  /\ o \notin graph.stopped
  /\ o \in Computeds => o \in graph.dirty /\ graph.subs[o] # {}

StepQueued(o) ==
  LET G == [graph EXCEPT !.queue = @ \ {o}] IN
  /\ graph' = IF Owes(o) THEN Anew(G, o) ELSE G
  /\ stack' = IF Owes(o) THEN <<Run(o, "run")>> ELSE <<>>

StepComputed(c) ==
  /\ ~Busy /\ flush.phase = "derive" /\ c \in Queued(Computeds)
  /\ StepQueued(c)
  /\ UNCHANGED <<val, cache, shown, flush, mounted, used, drawn>>

BeginWatches ==
  /\ ~Busy /\ flush.phase = "derive" /\ Queued(Computeds) = {}
  /\ flush' = [phase |-> "watch", pass |-> Queued(Watches), ran |-> FALSE]
  /\ UNCHANGED <<val, cache, shown, graph, stack, mounted, used, drawn>>

First(S) == CHOOSE w \in S : \A v \in S : Sequence[w] <= Sequence[v]

StepWatch ==
  /\ ~Busy /\ flush.phase = "watch" /\ flush.pass # {}
  /\ LET w == First(flush.pass) IN
     IF w \in graph.stopped \/ w \notin graph.queue
       THEN /\ flush' = [flush EXCEPT !.pass = @ \ {w}]
            /\ UNCHANGED <<graph, stack>>
       ELSE /\ flush' = [flush EXCEPT !.pass = @ \ {w}, !.ran = TRUE]
            /\ StepQueued(w)
  /\ UNCHANGED <<val, cache, shown, mounted, used, drawn>>

SettledAnyway == TRUE
Settled == ~flush.ran

EndPass ==
  /\ ~Busy /\ flush.phase = "watch" /\ flush.pass = {}
  /\ Enter(IF Settled THEN "dom" ELSE "derive")
  /\ UNCHANGED <<val, cache, shown, graph, stack, mounted, used, drawn>>

StepDom(o) ==
  /\ ~Busy /\ flush.phase = "dom" /\ o \in Queued(Doms)
  /\ StepQueued(o)
  /\ drawn' = drawn \cup ({o} \ graph.stopped)
  /\ UNCHANGED <<val, cache, shown, flush, mounted, used>>

EndDoms ==
  /\ ~Busy /\ flush.phase = "dom"
  /\ Queued(Doms) = {} \/ Queued(Computeds) # {}
  /\ Enter(IF graph.queue = {} THEN "rest" ELSE "derive")
  /\ UNCHANGED <<val, cache, shown, graph, stack, mounted, used, drawn>>

Flush ==
  /\ \/ \E c \in Computeds : StepComputed(c)
     \/ BeginWatches \/ StepWatch \/ EndPass
     \/ \E o \in Doms : StepDom(o)
     \/ EndDoms
  /\ UNCHANGED page

Outside ==
  /\ \/ \E s \in Cells, v \in Values : Turn(s, v)
     \/ \E c \in Computeds : Peek(c)
     \/ \E o \in Watches \cup Doms : Mount(o) \/ Stop(o)
  /\ UNCHANGED page

Next == Step \/ StartFlush \/ Flush \/ Outside

(* A turn runs to its end, and a microtask runs when the turn is over,     *)
(* however many turns have crowded in.  The fairness of Step is weak; it   *)
(* is enabled when Busy and written out, its ENABLED being slow to check.  *)
Fairness ==
  /\ []<>(~Busy) \/ []<><<Step>>_vars
  /\ WF_vars(Flush) /\ SF_vars(StartFlush)

Spec == Init /\ [][Next]_vars /\ Fairness

-----------------------------------------------------------------------------
(* Type invariant. *)
Graphs == [subs : [Nodes -> SUBSET Observers], deps : [Observers -> SUBSET Nodes],
           dirty : SUBSET Computeds, stopped : SUBSET Observers,
           selfInv : [Observers -> 0..MaxSelf + 1],
           queue : SUBSET Observers, pending : BOOLEAN]

Frames == [who : Observers, phase : {"read", "body"}, trace : Traces,
           seen : SUBSET (Nodes \X Answers), next : Answers,
           old : SUBSET Nodes, by : {"run", "access", "mount"},
           consumer : Observers \cup {Nobody}, recursed : BOOLEAN, thrown : BOOLEAN]

TypeOK ==
  /\ page \in Pages
  /\ val \in [Cells -> Values]
  /\ cache \in [Computeds -> [has : BOOLEAN, failed : BOOLEAN, value : Answers]]
  /\ shown \in [Watches \cup Doms -> Answers]
  /\ graph \in Graphs
  /\ stack \in Seq(Frames)
  /\ flush \in [phase : {"rest", "derive", "watch", "dom"},
               pass : SUBSET Watches, ran : BOOLEAN]
  /\ mounted \subseteq Watches \cup Doms
  /\ used \in [Observers -> SUBSET (Nodes \X Answers)]
  /\ drawn \subseteq Doms

(* What a reader of n would be answered without an evaluation, and what it  *)
(* was answered if it would be answered the same.                          *)
Current(n) == IF n \in Cells THEN val[n] ELSE cache[n].value
FailsNow(n) == n \in Computeds /\ cache[n].failed
Stands(n, v) ==
  /\ v = Current(n)
  /\ n \in Computeds \ graph.stopped => n \notin graph.dirty /\ ~FailsNow(n)
StillTrue(readings) == \A p \in readings : Stands(p[1], p[2])

(* A computed that is neither dirty nor being derived is what its code     *)
(* would derive now: everything it read last is still as it read it.  So a *)
(* read in the turn of a write never sees what the write has outdated.     *)
CleanIsCurrent ==
  \A c \in Computeds \ (graph.dirty \cup graph.stopped \cup OnStack) : StillTrue(used[c])

(* Nothing is forgotten: at rest with no flush to come, the queues are     *)
(* empty and every live watch and position has seen the present values of  *)
(* all it read, and none of that has failed since.                         *)
AtRestCurrent ==
  Idle /\ ~graph.pending =>
    /\ graph.queue = {}
    /\ \A o \in mounted \ graph.stopped : StillTrue(used[o])

(* What o's expression is worth on the answers t, if it would get them now: *)
(* it yields v, or it fails, itself or in what it reads or is about to      *)
(* create, or it yields what the body of the watch may fail on.  Fallible   *)
(* are the expressions that may fail at all, on whatever they read.         *)
Asks(o, t) == Code(page, o, "read", t)
Gets(o, t) ==
  \A i \in 1 .. Len(t) : LET next == Asks(o, SubSeq(t, 1, i - 1)) IN
    /\ next.op \notin {"return", "throw"}
    /\ next.op = "read" => Stands(next.of, t[i])

MayFail(next, X) ==
  next.op = "throw" \/ (next.op \in {"read", "mount"} /\ next.of \in X)
Fallible == [p \in Pages |->
  LET Closed(X) == \A o \in Observers, t \in Traces :
        MayFail(Code(p, o, "read", t), X) => o \in X
  IN {o \in Observers : \A X \in SUBSET Observers : Closed(X) => o \in X}]

Yields(o, t, v) == Asks(o, t) = [op |-> "return", to |-> v] /\ Gets(o, t)

FailsOn(o, t) == LET next == Asks(o, t) IN
  /\ MayFail(next, Fallible[page]) /\ Gets(o, t)
  /\ next.op = "read" => FailsNow(next.of) /\ Fresh(next.of)

BodyFailsOn(o, t) == LET next == Asks(o, t) IN
  /\ o \in Watches /\ next.op = "return" /\ Gets(o, t)
  /\ \E u \in Traces :
       u # <<>> /\ u[1] = next.to /\ MayFail(Code(page, o, "body", u), Fallible[page])

(* And so the page is what its program says, and not only as far as the    *)
(* runtime tracks it: at rest each clean computed holds what its code      *)
(* yields now, or failed as its code does now, and each live watch has     *)
(* seen, and each live position shows, what its expression yields now,     *)
(* unless that fails or the body it started may fail on that.  A stopped   *)
(* computed counts by its last value.                                      *)
ShownIsTruth ==
  page \notin Impure /\ Idle /\ ~graph.pending =>
    /\ \A c \in Computeds \ (graph.dirty \cup graph.stopped) : \E t \in Traces :
         IF cache[c].failed THEN FailsOn(c, t) ELSE Yields(c, t, cache[c].value)
    /\ \A o \in mounted \ graph.stopped :
         (\E t \in Traces : Yields(o, t, shown[o]))
         \/ \E t \in Traces : FailsOn(o, t) \/ BodyFailsOn(o, t)

(* Both sides of a subscription agree once no run is under way, a stopped  *)
(* observer holds none, and neither does a computed that nobody observes,  *)
(* so neither is kept alive by what it once read.                          *)
SubscriptionsMatch ==
  ~Busy =>
    /\ \A o \in Observers, n \in Nodes : o \in graph.subs[n] <=> n \in graph.deps[o]
    /\ \A o \in Observers :
         o \in graph.stopped \/ (o \in Computeds /\ graph.subs[o] = {})
           => graph.deps[o] = {}

(* The flush starts the run of a position. *)
Draws(o) == ~Busy /\ flush.phase = "dom" /\ stack' # <<>> /\ stack'[1].who = o

(* Every derived value and every watch settles before a position of the    *)
(* DOM is written, on a page whose renders do not write and whose          *)
(* computeds do not read each other in a circle.                           *)
SettledBeforeDom ==
  [][page \notin Impure => \A o \in Doms : Draws(o) =>
       Queued(Watches) \ graph.stopped = {} /\ Queued(Computeds) = {}]_vars

(* ... and so a flush writes each position once, whatever else the shape   *)
(* of the graph and however many of the things it reads have changed.  On  *)
(* a circle it need not: each of two positions that read it derives it     *)
(* anew, fails with a new error, and so tells the other.                   *)
DrawnOnce ==
  [][page \notin Impure => \A o \in Doms : Draws(o) => o \notin drawn]_vars

(* A stopped observer's code never starts again. *)
StoppedStaysQuiet ==
  [][\A i \in DOMAIN stack' : i > Len(stack) => stack'[i].who \notin graph.stopped]_vars

(* A flush that has begun ends: the page is never stuck in a turn of the   *)
(* runtime's own.                                                          *)
Settles == flush.phase # "rest" ~> flush.phase = "rest"

(* A computed on a circle failed and let go of it: it is derived anew, and *)
(* fails with another error, whenever one of its observers reads it, and   *)
(* tells the others of it.                                                 *)
Echoing == \E c \in Computeds \cap graph.dirty : cache[c].failed /\ Cardinality(graph.subs[c]) > 1

(* ... which the caps give a page, circles and self-invalidations          *)
(* included, unless a watch was stopped while it was queued or two         *)
(* observers of one circle tell each other; these the budget must stop     *)
(* (module FlushWindow).                                                   *)
SettlesUnlessStuck ==
  flush.phase # "rest" ~>
    flush.phase = "rest" \/ Queued(Watches) \cap graph.stopped # {} \/ Echoing
=============================================================================
