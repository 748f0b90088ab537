------------------------- MODULE ReactiveInvariants -------------------------
(* What the steps of Reactive keep: the parts of the inductive invariants of *)
(* ReactiveProofs, from the shape of the graph (IInv) by what a clean        *)
(* computed knows (FreshInv) and what a watch knows (KnowsInv) to the page   *)
(* being what its program says (Truth), and the relations between two states *)
(* that its lemmas are about.                                                *)
EXTENDS Reactive

(* The graph, the stack, and their types: IInv.                              *)

(* The two sides of the subscriptions agree, but for those pairs that a run  *)
(* under way has yet to confirm or drop.                                     *)
BothSides(G, old) ==
  \A o \in Observers, n \in Nodes :
    /\ n \in G.deps[o] => o \in G.subs[n]
    /\ o \in G.subs[n] => n \in G.deps[o] \/ <<o, n>> \in old

(* What is stopped holds no subscription, and neither does a computed        *)
(* without subscribers unless it is running.                                 *)
StoppedLetGo(G) == \A o \in G.stopped : G.deps[o] = {}

UnreadLetGo(G, running) ==
  \A c \in Computeds \ running : G.subs[c] = {} => G.deps[c] = {}

(* H is what telling and unsubscribing may make of G when they mark D and    *)
(* what they detach: what still subscribes to a node made dirty subscribed   *)
(* to one of D, and what is neither of D, nor stopped, nor detached has lost *)
(* nothing.                                                                  *)
Erodes(G, H, D) ==
  /\ \A o \in Observers : H.deps[o] \subseteq G.deps[o]
  /\ \A n \in Nodes : H.subs[n] \subseteq G.subs[n]
  /\ G.stopped \subseteq H.stopped /\ G.dirty \subseteq H.dirty
  /\ \A o \in Observers, n \in Computeds :
       n \in H.deps[o] /\ n \in H.dirty \ G.dirty => n \in D
  /\ \A o \in Observers \ (D \cup H.stopped) :
       (o \in Computeds => H.subs[o] # {} \/ o \notin H.dirty) => H.deps[o] = G.deps[o]

(* Telling marks what is dirtied, unsubscribes those of it that nobody       *)
(* observes, and then stops some of what is running.                         *)
Tells(G, O, R, K, V) ==
  /\ Tell(G, O, R) = StopAll(CleanUp(K, {c \in Dirtied(G, O, R) : G.subs[c] = {}}), V)
  /\ V \subseteq R
  /\ K.subs = G.subs /\ K.deps = G.deps /\ K.stopped = G.stopped
  /\ K.dirty = G.dirty \cup Dirtied(G, O, R)
  /\ \A o \in K.queue : \/ o \in G.queue \cup O \cup Computeds
                        \/ \E n \in Nodes : o \in G.subs[n]
  /\ G.queue \cup {c \in Dirtied(G, O, R) : G.subs[c] # {}} \subseteq K.queue
  /\ O \ Computeds \subseteq K.queue \cup V \cup G.stopped
  /\ K.pending \/ (K.queue = G.queue /\ K.pending = G.pending)

NextOf(p, f) == Code(p, f.who, f.phase, f.trace)

Running(F) == {F[i].who : i \in DOMAIN F}

Unconfirmed(F) ==
  {p \in Observers \X Nodes : \E i \in DOMAIN F : F[i].who = p[1] /\ p[2] \in F[i].old}

(* No observer runs twice at once.                                           *)
Distinct(F) == \A i, j \in DOMAIN F : F[i].who = F[j].who => i = j

(* A frame that is not on top waits at the instruction that started the one  *)
(* above it.                                                                 *)
Awaits(p, f, g) ==
  /\ ~f.thrown
  /\ \/ g.by = "access" /\ NextOf(p, f).op = "read" /\ NextOf(p, f).of = g.who /\ g.who \in Computeds
     \/ g.by = "mount" /\ NextOf(p, f).op = "mount"

Waits(p, F) == \A i \in DOMAIN F : i + 1 \in DOMAIN F => Awaits(p, F[i], F[i + 1])

(* H is F with other answers, or a failure, for its last frame.              *)
Alike(F, H) ==
  /\ H \in Seq(Frames) /\ Len(H) = Len(F)
  /\ \A i \in 1 .. Len(F) : H[i].who = F[i].who /\ H[i].old = F[i].old /\ H[i].by = F[i].by
  /\ \A i \in 1 .. Len(F) - 1 :
       H[i].trace = F[i].trace /\ H[i].phase = F[i].phase /\ H[i].thrown = F[i].thrown

(* Whoever is stopped, queued, running or subscribed is a computed, or was   *)
(* mounted: nothing that was never created can be stopped or run.            *)
Alive(G, running, there) ==
  /\ G.stopped \cup G.queue \cup running \subseteq Computeds \cup there
  /\ \A n \in Nodes : G.subs[n] \subseteq Computeds \cup there

GraphOK(G, F, there) ==
  /\ G \in Graphs
  /\ BothSides(G, Unconfirmed(F)) /\ UnreadLetGo(G, Running(F)) /\ StoppedLetGo(G)
  /\ Alive(G, Running(F), there)

StackOK(p, F) == F \in Seq(Frames) /\ Distinct(F) /\ Waits(p, F)

RestOK ==
  /\ page \in Pages
  /\ val \in [Cells -> Values]
  /\ cache \in [Computeds -> [has : BOOLEAN, failed : BOOLEAN, value : Answers]]
  /\ shown \in [Watches \cup Doms -> Answers]
  /\ flush \in [phase : {"rest", "derive", "watch", "dom"},
               pass : SUBSET Watches, ran : BOOLEAN]
  /\ mounted \subseteq Watches \cup Doms
  /\ used \in [Observers -> SUBSET (Nodes \X Answers)]
  /\ drawn \subseteq Doms

IInv == RestOK /\ StackOK(page, stack) /\ GraphOK(graph, stack, mounted)

-----------------------------------------------------------------------------
(* How a run ends.                                                           *)

(* Those that are running when they are read again remember it.              *)
Remembered(n) ==
  [i \in DOMAIN stack |-> [stack[i] EXCEPT !.recursed = @ \/ stack[i].who = n]]

(* The graph after a computed has ended, before anyone is told.              *)
Cleaned == [ForgetOld(graph) EXCEPT !.dirty = @ \ {top.who}]

LeftWith == IF LetsGo(Cleaned, top.who) THEN Detach(Cleaned, top.who) ELSE Cleaned

-----------------------------------------------------------------------------
(* What was read is still so: FreshInv.                                      *)

(* What is kept will not be derived anew before it is told.                  *)
Kept(G, C) == Cells \cup G.stopped \cup {c \in Computeds : c \notin G.dirty /\ ~C[c].failed}

Holds(V, C, n) == IF n \in Cells THEN V[n] ELSE C[n].value

(* What o has read is kept, is still so, and will tell o.                    *)
Sure(r, o, G, V, C) ==
  \A p \in r : p[1] \in G.deps[o] \cap Kept(G, C) /\ p[2] = Holds(V, C, p[1])

Good(c, r, G, V, C) ==
  /\ Sure(r, c, G, V, C)
  /\ ~C[c].failed => G.deps[c] \subseteq Kept(G, C)

CleanOK(G, V, C, U) ==
  \A c \in Computeds \ (G.dirty \cup G.stopped) : Good(c, U[c], G, V, C)

(* T is a part of the graph that the end of the runs of S leaves alone: it   *)
(* reads nothing outside itself, and nothing in it waits to be derived.      *)
Apart(T, S, G) ==
  /\ T \subseteq Nodes /\ \A x \in T \cap Computeds : G.deps[x] \subseteq T
  /\ T \cap G.dirty \subseteq G.stopped /\ T \cap S = {}

Within(r, T) == \A p \in r : p[1] \in T

(* What a run of o has read stays as it was while the runs of S go on.       *)
Backed(o, r, S, G, V, C) ==
  Sure(r, o, G, V, C) /\ \E T : Apart(T, S, G) /\ Within(r, T)

(* The run of a computed will leave it dirty, or nobody will ask again.      *)
Doomed(f, G) == f.who \in G.stopped \/ f.recursed \/ G.subs[f.who] = {}

FromOn(F, i) == {F[j].who : j \in i .. Len(F)}

(* A run subscribes to what it read, and to what is being derived for it.    *)
FrameOK(F, i, G, V, C) ==
  /\ Backed(F[i].who, F[i].seen, FromOn(F, i), G, V, C)
  /\ \A n \in G.deps[F[i].who] :
       \/ \E p \in F[i].seen : p[1] = n
       \/ i < Len(F) /\ n = F[i + 1].who
       \/ i = Len(F) /\ F[i].thrown
  /\ i < Len(F) => F[i + 1].who \in G.deps[F[i].who]

FramesOK(F, G, V, C) ==
  \A i \in 1 .. Len(F) :
    F[i].who \in Computeds /\ ~Doomed(F[i], G) => FrameOK(F, i, G, V, C)

(* Above a computed there are only computeds, dirty until they end, and the  *)
(* answer of each goes to the one below.                                     *)
DerivingOK(F, G) ==
  \A i \in 1 .. Len(F) : F[i].who \in Computeds =>
    /\ F[i].phase = "read" /\ F[i].who \in G.dirty
    /\ F[i].consumer \in Computeds => i > 1 /\ F[i].consumer = F[i - 1].who
    /\ F[i].recursed => F[Len(F)].thrown
    /\ \A j \in i .. Len(F) : F[j].who \in Computeds

FreshInv ==
  /\ IInv /\ DerivingOK(stack, graph) /\ FramesOK(stack, graph, val, cache)
  /\ CleanOK(graph, val, cache, used)

(* What starting the derivation of c does that a read waits for.             *)
Derives(c) ==
  /\ c \in Computeds /\ c \in Nodes /\ c \in Observers /\ c \notin Watches
  /\ c \in graph.dirty \ graph.stopped /\ c \notin Running(stack)
  /\ stack' = Append(stack, Run(c, "access")) /\ Instruction.op = "read" /\ ~top.thrown
  /\ graph'.dirty = graph.dirty /\ graph'.stopped = graph.stopped
  /\ graph'.queue = graph.queue /\ graph'.pending = graph.pending
  /\ graph'.deps[c] = {} /\ graph'.subs[c] \subseteq graph.subs[c] \cup {Active}
  /\ \A n \in Nodes \ {c} : graph'.subs[n] = graph.subs[n]
  /\ \A x \in Observers \ {c} :
       \/ graph'.deps[x] = graph.deps[x]
       \/ x = top.who /\ graph'.deps[x] = graph.deps[x] \cup {c}
  /\ top.phase = "read" /\ top.who \notin graph.stopped => c \in graph'.deps[top.who]

(* The graph before the end, but that the computed is no longer dirty.       *)
Undirtied == [graph EXCEPT !.dirty = @ \ {top.who}]

-----------------------------------------------------------------------------
(* Watches and positions know what they have seen: KnowsInv.                 *)

Viewers == Watches \cup Doms

(* A watch or a position that has seen p knows the present value, or what    *)
(* would tell it is to be derived: R are running.                            *)
Heeds(o, p, G, V, C, R) ==
  /\ p[1] \in G.deps[o] /\ p[2] = Holds(V, C, p[1])
  /\ p[1] \in Computeds \ G.stopped =>
       ~C[p[1]].failed /\ (p[1] \in G.dirty => p[1] \in G.queue \cup R)

Minds(o, r, G, V, C, R) ==
  o \in G.queue \cup G.stopped \/ \A p \in r : Heeds(o, p, G, V, C, R)

(* Watches run alone but for what they read; answers go to the frame below,  *)
(* unless that is a body.                                                    *)
ShapeOK(F) ==
  \A i \in 1 .. Len(F) :
    /\ F[i].who \in Watches => i = 1
    /\ F[i].phase = "body" => F[i].who \in Watches
    /\ F[i].consumer # Nobody =>
         i > 1 /\ F[i].consumer = F[i - 1].who /\ F[i - 1].phase = "read"

(* While its expression is evaluated, what it has read stays so; while its   *)
(* body runs, it is told.                                                    *)
ViewOK(F, i, G, V, C) ==
  IF F[i].phase = "read"
    THEN /\ Backed(F[i].who, F[i].seen, FromOn(F, i), G, V, C)
         /\ i < Len(F) /\ F[i + 1].who \in Computeds => F[i + 1].who \in G.deps[F[i].who]
    ELSE Minds(F[i].who, F[i].seen, G, V, C, Running(F))

ViewsOK(F, G, V, C) ==
  \A i \in 1 .. Len(F) : F[i].who \in Viewers \ G.stopped => ViewOK(F, i, G, V, C)

SeenOK(F, G, V, C, U) ==
  \A o \in Viewers \ Running(F) : Minds(o, U[o], G, V, C, Running(F))

QueueOK(phase, G) == phase = "rest" => G.pending \/ G.queue = {}

KnowsInv ==
  /\ FreshInv /\ ShapeOK(stack) /\ ViewsOK(stack, graph, val, cache)
  /\ SeenOK(stack, graph, val, cache, used) /\ QueueOK(flush.phase, graph)

-----------------------------------------------------------------------------
(* A flush comes to its end: Settling.                                       *)

(* A rank that falls with every read.                                        *)
RankOf(p) == CHOOSE rank \in [Computeds -> 1..Cardinality(Computeds)] : Falls(p, rank)

(* It falls along the stack, so no computed is read while it runs.           *)
Ordered(F, rank) ==
  \A i, j \in 1 .. Len(F) :
    i < j /\ F[i].who \in Computeds /\ F[j].who \in Computeds =>
      rank[F[j].who] < rank[F[i].who]

NoneRecursed(F) == \A i \in 1 .. Len(F) : ~F[i].recursed

(* What is to be derived waits in the queue if anybody observes it: R are    *)
(* running.                                                                  *)
Awaited(G, R) ==
  \A c \in (Computeds \cap G.dirty) \ G.stopped : c \in G.queue \cup R \/ G.subs[c] = {}

(* Until a watch has run, a pass over the watches knows all that is queued.  *)
PassOK(F, G, f) ==
  f.phase = "watch" /\ ~f.ran =>
    F = <<>> /\ G.queue \cap Computeds = {} /\ (G.queue \cap Watches) \ G.stopped \subseteq f.pass

(* Nothing is queued but positions that d lacks, no watch is running, and    *)
(* whoever ends answers its reader and nobody else.                          *)
Quiet(F, G, d) ==
  /\ G.queue \cap Computeds = {} /\ G.queue \cap Watches \subseteq G.stopped
  /\ \A i \in 1 .. Len(F) :
       /\ F[i].who \notin Watches
       /\ F[i].who \in Computeds => G.subs[F[i].who] \subseteq {F[i].consumer}
  /\ d \cap G.queue = {}

(* So it is from the first position that a flush writes to its end.          *)
Drawing(phase, d) == phase = "dom" \/ (d # {} /\ phase # "rest")

Settling ==
  /\ Ordered(stack, RankOf(page)) /\ NoneRecursed(stack)
  /\ Awaited(graph, Running(stack)) /\ PassOK(stack, graph, flush)
  /\ Drawing(flush.phase, drawn) => Quiet(stack, graph, drawn)

(* H is a lower part of F: the same runs, whatever they have been answered.  *)
Beneath(H, F) ==
  /\ H \in Seq(Frames) /\ Len(H) \in 0 .. Len(F)
  /\ \A i \in 1 .. Len(H) :
       H[i].who = F[i].who /\ H[i].consumer = F[i].consumer /\ H[i].recursed = F[i].recursed

SettlingInv == page \notin Impure => KnowsInv /\ Settling

-----------------------------------------------------------------------------
(* What the code of an observer was answered: Truth.                         *)

(* Nothing that is up will be derived before it is told.                     *)
Up(n, G) == n \notin G.dirty \/ n \in G.stopped

(* A computed reads what ranks below it.                                     *)
Descends(G, rank) ==
  \A x \in Computeds : \A n \in G.deps[x] \cap Computeds : rank[n] < rank[x]

(* What a clean computed has read is up, and is not being derived; so is     *)
(* what a run has read, except for what is being derived for it.             *)
Levels(F, G) ==
  /\ \A x \in Computeds \ (G.dirty \cup G.stopped) :
       \A n \in G.deps[x] : Up(n, G) /\ n \notin Running(F)
  /\ \A i \in 1 .. Len(F) : F[i].phase = "read" /\ F[i].who \notin G.stopped =>
       \A n \in G.deps[F[i].who] : Up(n, G) \/ (i < Len(F) /\ n = F[i + 1].who)

Reading(F) == {F[i].who : i \in {j \in 1 .. Len(F) : F[j].phase = "read"}}

(* The answers t are those that o's expression read in r.                    *)
Follows(p, o, t, r) ==
  \A i \in 1 .. Len(t) : LET next == Code(p, o, "read", SubSeq(t, 1, i - 1)) IN
    /\ next.op \notin {"return", "throw"}
    /\ next.op = "read" => <<next.of, t[i]>> \in r

Yielded(p, o, v, r) ==
  \E t \in Traces : Follows(p, o, t, r) /\ Code(p, o, "read", t) = [op |-> "return", to |-> v]

TraceOK(p, f) ==
  /\ f.phase = "read" => Follows(p, f.who, f.trace, f.seen)
  /\ f.phase = "body" =>
       f.trace # <<>> /\ f.trace[1] = f.next /\ Yielded(p, f.who, f.next, f.seen)

(* A run that creates a position waits for that one.                         *)
TracesOK(p, F) ==
  \A i \in 1 .. Len(F) :
    /\ TraceOK(p, F[i])
    /\ i < Len(F) /\ F[i + 1].by = "mount" => NextOf(p, F[i]).of = F[i + 1].who

(* What a step does to the stack, unless it ends a run.                      *)
Answering ==
  /\ Busy /\ Instruction.op \notin {"return", "throw"}
  /\ \E v \in Answers, n \in Nodes \cup {Nobody} :
       Continue(n, v) /\ (Instruction.op = "read" => n = Instruction.of)

Failing ==
  Busy /\ ReadFresh /\ stack' = Throws(stack) /\ cache[Instruction.of].failed

Starting(o, by) ==
  /\ stack' = Append(stack, Run(o, by))
  /\ Busy /\ by = "mount" => NextOf(page, top).of = o

(* A step from G to H, after which R run, in which the computeds E end.      *)
Spares(G, H, R, E) ==
  /\ G.stopped \subseteq H.stopped /\ G.dirty \subseteq H.dirty \cup E
  /\ G.queue \subseteq H.queue \cup R \cup H.stopped \cup Computeds
  /\ \A o \in Observers \ (H.stopped \cup R) :
       (o \in Computeds => o \notin H.dirty) => G.deps[o] \subseteq H.deps[o]

(* What is so of every step but the end of a run.                            *)
Onward ==
  /\ Spares(graph, graph', Running(stack'), {}) /\ Running(stack) \subseteq Running(stack')
  /\ mounted' \subseteq mounted \cup Running(stack') /\ UNCHANGED <<cache, used, shown>>

Lost(o, G) == o \in G.stopped \/ (o \in Computeds /\ G.subs[o] = {})

(* Why o fails at next: that throws, or creates or reads what may fail, and  *)
(* what it reads did, and will tell o.                                       *)
Reason(p, o, next, G, C) ==
  /\ MayFail(next, Fallible[p])
  /\ next.op = "read" => next.of \in Computeds \cap G.deps[o] /\ C[next.of].failed

FailuresOK(p, C) == \A c \in Computeds : C[c].failed => c \in Fallible[p]

(* Nothing throws without a reason, nor, where anybody will ask, without one *)
(* that lasts.                                                               *)
ThrownOK(p, F, G, C) ==
  LET f == F[Len(F)] IN
  F # <<>> /\ f.thrown =>
    /\ MayFail(NextOf(p, f), Fallible[p])
    /\ f.phase = "read" /\ ~Lost(f.who, G) => Reason(p, f.who, NextOf(p, f), G, C)

(* From r, o's expression came to a failure for a reason that lasts, or to   *)
(* what started the body of a watch that may fail on it.                     *)
FailedOn(p, o, r, G, C) ==
  \E t \in Traces : Follows(p, o, t, r) /\ Reason(p, o, Code(p, o, "read", t), G, C)

BodyFailed(p, o, r) ==
  \E t, u \in Traces : LET next == Code(p, o, "read", t) IN
    /\ Follows(p, o, t, r) /\ o \in Watches /\ next.op = "return"
    /\ u # <<>> /\ u[1] = next.to /\ MayFail(Code(p, o, "body", u), Fallible[p])

ValueOK(p, c, G, C, U) ==
  IF C[c].failed THEN FailedOn(p, c, U[c], G, C) ELSE Yielded(p, c, C[c].value, U[c])

ValuesOK(p, G, C, U) ==
  \A c \in Computeds \ (G.dirty \cup G.stopped) : ValueOK(p, c, G, C, U)

SightOK(p, o, G, C, U, S) ==
  Yielded(p, o, S[o], U[o]) \/ FailedOn(p, o, U[o], G, C) \/ BodyFailed(p, o, U[o])

SightsOK(p, F, G, C, U, S, there) ==
  \A o \in there \ (Running(F) \cup G.queue \cup G.stopped) : SightOK(p, o, G, C, U, S)

(* What every step keeps, on a page that only reads and has no circle.       *)
Truth ==
  /\ KnowsInv /\ Settling /\ Descends(graph, RankOf(page)) /\ Levels(stack, graph)
  /\ TracesOK(page, stack) /\ ThrownOK(page, stack, graph, cache) /\ FailuresOK(page, cache)
  /\ ValuesOK(page, graph, cache, used)
  /\ SightsOK(page, stack, graph, cache, used, shown, mounted)

TruthInv == page \notin Impure => Truth
=============================================================================
