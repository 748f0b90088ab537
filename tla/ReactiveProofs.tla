--------------------------- MODULE ReactiveProofs ---------------------------
(* Theorems about Reactive for every page, every set of cells, computeds,    *)
(* watches and positions, and every cap.                                     *)
EXTENDS ReactiveInvariants, FiniteSetTheorems, SequenceTheorems, WellFoundedInduction, TLAPS

-----------------------------------------------------------------------------
(* Taking subscriptions away.                                                *)

(* A computed is detached if, and only if, it had subscribers and each was   *)
(* taken away or was itself detached while it had subscribed.                *)
LEMMA DetachedIff ==
  ASSUME NEW G, NEW P, NEW n \in Computeds
  PROVE  n \in Detached(G, P) <=>
           /\ G.subs[n] # {}
           /\ \A o \in G.subs[n] :
                <<o, n>> \in P \/ (o \in Detached(G, P) /\ n \in G.deps[o])
<1> DEFINE Gone(o, m, Y) == <<o, m>> \in P \/ (o \in Y /\ m \in G.deps[o])
           Must(m, Y) == G.subs[m] # {} /\ \A o \in G.subs[m] : Gone(o, m, Y)
           Closed(Y) == \A m \in Computeds : Must(m, Y) => m \in Y
           X == Detached(G, P)
           Z == {m \in Computeds : Must(m, X)}
<1>1. X = {m \in Computeds : \A Y \in SUBSET Computeds : Closed(Y) => m \in Y}
  BY DEF Detached
<1> HIDE DEF X
<1>2. ASSUME NEW Y, NEW W, Y \subseteq W, NEW m, Must(m, Y) PROVE Must(m, W)  BY <1>2
<1>3. ASSUME NEW m \in Computeds, Must(m, X) PROVE m \in X
  <2>1. ASSUME NEW Y \in SUBSET Computeds, Closed(Y) PROVE m \in Y
    <3>1. X \subseteq Y  BY <1>1, <2>1
    <3> QED BY <1>2, <1>3, <2>1, <3>1
  <2> QED BY <1>1, <2>1
<1>4. Closed(Z)
  <2>1. Z \subseteq X  BY <1>3
  <2> QED BY <1>2, <2>1
<1>5. X \subseteq Z  BY <1>1, <1>4
<1> QED BY <1>3, <1>5 DEF X

LEMMA CutFields ==
  ASSUME NEW G \in Graphs, NEW P
  PROVE  /\ Cut(G, P) \in Graphs
         /\ Detached(G, P) \subseteq Computeds
         /\ Cut(G, P).stopped = G.stopped /\ Cut(G, P).selfInv = G.selfInv
         /\ Cut(G, P).queue = G.queue /\ Cut(G, P).pending = G.pending
         /\ Cut(G, P).dirty = G.dirty \cup Detached(G, P)
         /\ \A n \in Nodes : Cut(G, P).subs[n] =
              {o \in G.subs[n] : <<o, n>> \notin P /\ ~(o \in Detached(G, P) /\ n \in G.deps[o])}
         /\ \A o \in Observers : Cut(G, P).deps[o] =
              IF o \in Detached(G, P) THEN {} ELSE {n \in G.deps[o] : <<o, n>> \notin P}
<1> DEFINE X == Detached(G, P)
           subs == [n \in Nodes |-> {o \in G.subs[n] :
                      <<o, n>> \notin P /\ ~(o \in X /\ n \in G.deps[o])}]
           deps == [o \in Observers |-> IF o \in X THEN {}
                      ELSE {n \in G.deps[o] : <<o, n>> \notin P}]
           dirty == G.dirty \cup X
<1>1. X \subseteq Computeds  BY DEF Detached
<1>2. Cut(G, P) = [G EXCEPT !.subs = subs, !.deps = deps, !.dirty = dirty]  BY DEF Cut
<1>3. /\ subs \in [Nodes -> SUBSET Observers] /\ deps \in [Observers -> SUBSET Nodes]
      /\ dirty \in SUBSET Computeds
  BY <1>1 DEF Graphs
<1>4. /\ \A n \in Nodes : subs[n] = {o \in G.subs[n] :
                      <<o, n>> \notin P /\ ~(o \in X /\ n \in G.deps[o])}
      /\ \A o \in Observers : deps[o] = IF o \in X THEN {}
                      ELSE {n \in G.deps[o] : <<o, n>> \notin P}
      /\ dirty = G.dirty \cup X
  OBVIOUS
<1> HIDE DEF X, subs, deps, dirty
<1>5. /\ Cut(G, P) \in Graphs
      /\ Cut(G, P).stopped = G.stopped /\ Cut(G, P).selfInv = G.selfInv
      /\ Cut(G, P).queue = G.queue /\ Cut(G, P).pending = G.pending
      /\ Cut(G, P).dirty = dirty /\ Cut(G, P).subs = subs /\ Cut(G, P).deps = deps
  BY <1>2, <1>3 DEF Graphs
<1> QED BY <1>1, <1>4, <1>5 DEF X

LEMMA CleanUpIs ==
  ASSUME NEW G \in Graphs, NEW S \in SUBSET Observers
  PROVE  \E P : /\ CleanUp(G, S) = Cut(G, P)
                /\ \A o \in Observers, n \in Nodes : <<o, n>> \in P <=> o \in S /\ n \in G.deps[o]
<1> DEFINE P == {p \in S \X Nodes : p[2] \in G.deps[p[1]]}
<1>1. CleanUp(G, S) = Cut(G, P)  BY DEF CleanUp
<1>2. \A o \in Observers, n \in Nodes : <<o, n>> \in P <=> o \in S /\ n \in G.deps[o]
  OBVIOUS
<1> QED BY <1>1, <1>2

LEMMA CutKeeps ==
  ASSUME NEW G \in Graphs, NEW P, NEW old, NEW running,
         BothSides(G, old), UnreadLetGo(G, running)
  PROVE  /\ BothSides(Cut(G, P), old) /\ UnreadLetGo(Cut(G, P), running)
         /\ StoppedLetGo(G) => StoppedLetGo(Cut(G, P))
<1> DEFINE X == Detached(G, P)
           H == Cut(G, P)
<1>1. /\ H \in Graphs /\ X \subseteq Computeds /\ H.stopped = G.stopped
      /\ \A n \in Nodes : H.subs[n] =
           {o \in G.subs[n] : <<o, n>> \notin P /\ ~(o \in X /\ n \in G.deps[o])}
      /\ \A o \in Observers : H.deps[o] =
           IF o \in X THEN {} ELSE {n \in G.deps[o] : <<o, n>> \notin P}
  BY CutFields
<1>2. \A n \in Computeds : n \in X <=>
        G.subs[n] # {} /\ \A o \in G.subs[n] : <<o, n>> \in P \/ (o \in X /\ n \in G.deps[o])
  BY DetachedIff
<1>3. /\ \A n \in Nodes : G.subs[n] \subseteq Observers
      /\ \A o \in Observers : G.deps[o] \subseteq Nodes
      /\ G.stopped \subseteq Observers /\ Computeds \subseteq Nodes \cap Observers
  BY DEF Graphs, Nodes, Observers
<1> HIDE DEF H, X
<1>4. BothSides(H, old)
  <2> SUFFICES ASSUME NEW o \in Observers, NEW n \in Nodes
               PROVE  /\ n \in H.deps[o] => o \in H.subs[n]
                      /\ o \in H.subs[n] => n \in H.deps[o] \/ <<o, n>> \in old
    BY DEF BothSides
  <2>1. (n \in G.deps[o] => o \in G.subs[n]) /\ (o \in G.subs[n] => n \in G.deps[o] \/ <<o, n>> \in old)
    BY DEF BothSides
  <2> QED BY <1>1, <2>1
<1>5. ASSUME NEW c \in Computeds \ running, H.subs[c] = {} PROVE H.deps[c] = {}
  <2>1. c \in Nodes \cap Observers  BY <1>3
  <2>2. CASE G.subs[c] = {}  BY <1>1, <2>1, <2>2 DEF UnreadLetGo
  <2>3. CASE G.subs[c] # {}
    <3>1. \A o \in G.subs[c] : <<o, c>> \in P \/ (o \in X /\ c \in G.deps[o])
      BY <1>1, <1>5, <2>1
    <3>2. c \in X  BY <1>2, <2>3, <3>1
    <3> QED BY <1>1, <2>1, <3>2
  <2> QED BY <2>2, <2>3
<1>6. StoppedLetGo(G) => StoppedLetGo(H)  BY <1>1, <1>3 DEF StoppedLetGo
<1> QED BY <1>4, <1>5, <1>6 DEF H, UnreadLetGo

LEMMA CutErodes ==
  ASSUME NEW G \in Graphs, NEW P, NEW old, BothSides(G, old), NEW D,
         \A o \in Observers, n \in Nodes :
           <<o, n>> \in P /\ n \in G.deps[o] => o \in D \cup G.stopped
  PROVE  Erodes(G, Cut(G, P), D)
<1> DEFINE X == Detached(G, P)
           H == Cut(G, P)
<1>1. /\ H \in Graphs /\ X \subseteq Computeds /\ H.stopped = G.stopped
      /\ H.dirty = G.dirty \cup X
      /\ \A n \in Nodes : H.subs[n] =
           {o \in G.subs[n] : <<o, n>> \notin P /\ ~(o \in X /\ n \in G.deps[o])}
      /\ \A o \in Observers : H.deps[o] =
           IF o \in X THEN {} ELSE {n \in G.deps[o] : <<o, n>> \notin P}
  BY CutFields
<1>2. \A n \in Computeds : n \in X <=>
        G.subs[n] # {} /\ \A o \in G.subs[n] : <<o, n>> \in P \/ (o \in X /\ n \in G.deps[o])
  BY DetachedIff
<1>3. /\ \A o \in Observers : G.deps[o] \subseteq Nodes
      /\ Computeds \subseteq Nodes \cap Observers
      /\ \A o \in Observers, n \in Nodes : n \in G.deps[o] => o \in G.subs[n]
  BY DEF Graphs, Nodes, Observers, BothSides
<1> HIDE DEF H, X
<1>4. ASSUME NEW o \in Observers, NEW n \in Computeds, n \in H.deps[o]
      PROVE  n \notin X
  <2>1. n \in Nodes /\ o \notin X /\ n \in G.deps[o] /\ <<o, n>> \notin P
    <3>1. H.deps[o] = IF o \in X THEN {} ELSE {m \in G.deps[o] : <<o, m>> \notin P}
      BY <1>1
    <3> QED BY <1>3, <1>4, <3>1
  <2>2. o \in G.subs[n]  BY <1>3, <2>1
  <2> QED BY <1>2, <2>1, <2>2
<1>5. ASSUME NEW c \in X PROVE H.subs[c] = {} /\ c \in H.dirty /\ c \in Computeds
  BY <1>1, <1>2, <1>3
<1>6. ASSUME NEW o \in Observers \ (D \cup H.stopped), o \notin X PROVE H.deps[o] = G.deps[o]
  <2>1. \A n \in G.deps[o] : <<o, n>> \notin P  BY <1>1, <1>3, <1>6
  <2>2. H.deps[o] = {n \in G.deps[o] : <<o, n>> \notin P}  BY <1>1, <1>6
  <2> QED BY <2>1, <2>2
<1>7. /\ \A o \in Observers : H.deps[o] \subseteq G.deps[o]
      /\ \A n \in Nodes : H.subs[n] \subseteq G.subs[n]
      /\ G.stopped \subseteq H.stopped /\ G.dirty \subseteq H.dirty
  BY <1>1
<1>8. ASSUME NEW o \in Observers, NEW n \in Computeds, n \in H.deps[o], n \in H.dirty \ G.dirty
      PROVE  n \in D
  BY <1>1, <1>4, <1>8
<1>9. ASSUME NEW o \in Observers \ (D \cup H.stopped),
             o \in Computeds => H.subs[o] # {} \/ o \notin H.dirty
      PROVE  H.deps[o] = G.deps[o]
  BY <1>5, <1>6, <1>9
<1> QED BY <1>7, <1>8, <1>9 DEF Erodes, H

LEMMA ErodesOn ==
  ASSUME NEW G, NEW H, NEW K, NEW D, NEW E, Erodes(G, H, D), Erodes(H, K, E)
  PROVE  Erodes(G, K, D \cup E)
<1>1. \A o \in Observers : o \in Computeds => o \in Nodes  BY DEF Nodes
<1>2. /\ \A o \in Observers : K.deps[o] \subseteq G.deps[o]
      /\ \A n \in Nodes : K.subs[n] \subseteq G.subs[n]
      /\ G.stopped \subseteq K.stopped /\ G.dirty \subseteq K.dirty
  BY DEF Erodes
<1>3. ASSUME NEW o \in Observers, NEW n \in Computeds, n \in K.deps[o], n \in K.dirty \ G.dirty
      PROVE  n \in D \cup E
  BY <1>3 DEF Erodes
<1>4. ASSUME NEW o \in Observers \ ((D \cup E) \cup K.stopped),
             o \in Computeds => K.subs[o] # {} \/ o \notin K.dirty
      PROVE  K.deps[o] = G.deps[o]
  <2>1. o \notin H.stopped /\ (o \in Computeds => H.subs[o] # {} \/ o \notin H.dirty)
    BY <1>1, <1>4 DEF Erodes
  <2> QED BY <1>4, <2>1 DEF Erodes
<1> QED BY <1>2, <1>3, <1>4 DEF Erodes

LEMMA CleanUpKeeps ==
  ASSUME NEW G \in Graphs, NEW S \in SUBSET Observers, NEW old, NEW running,
         BothSides(G, old), UnreadLetGo(G, running), NEW D, S \subseteq D \cup G.stopped
  PROVE  /\ CleanUp(G, S) \in Graphs
         /\ CleanUp(G, S).stopped = G.stopped /\ CleanUp(G, S).queue = G.queue
         /\ CleanUp(G, S).selfInv = G.selfInv /\ CleanUp(G, S).pending = G.pending
         /\ BothSides(CleanUp(G, S), old) /\ UnreadLetGo(CleanUp(G, S), running)
         /\ StoppedLetGo(G) => StoppedLetGo(CleanUp(G, S))
         /\ \A o \in S : CleanUp(G, S).deps[o] = {}
         /\ Erodes(G, CleanUp(G, S), D)
<1>1. PICK P : /\ CleanUp(G, S) = Cut(G, P)
               /\ \A o \in Observers, n \in Nodes : <<o, n>> \in P <=> o \in S /\ n \in G.deps[o]
  BY CleanUpIs
<1> DEFINE X == Detached(G, P)
<1>a. \A o \in Observers : Cut(G, P).deps[o] =
        IF o \in X THEN {} ELSE {n \in G.deps[o] : <<o, n>> \notin P}
  BY CutFields
<1> HIDE DEF X
<1>2. \A o \in S : Cut(G, P).deps[o] = {}
  <2> SUFFICES ASSUME NEW o \in S PROVE Cut(G, P).deps[o] = {}  OBVIOUS
  <2>1. o \in Observers /\ G.deps[o] \subseteq Nodes  BY DEF Graphs
  <2> QED BY <1>1, <1>a, <2>1
<1>3. Erodes(G, Cut(G, P), D)
  <2>1. \A o \in Observers, n \in Nodes :
          <<o, n>> \in P /\ n \in G.deps[o] => o \in D \cup G.stopped
    BY <1>1
  <2> QED BY <2>1, CutErodes
<1>4. /\ BothSides(Cut(G, P), old) /\ UnreadLetGo(Cut(G, P), running)
      /\ StoppedLetGo(G) => StoppedLetGo(Cut(G, P))
  BY CutKeeps
<1>5. /\ Cut(G, P) \in Graphs
      /\ Cut(G, P).stopped = G.stopped /\ Cut(G, P).selfInv = G.selfInv
      /\ Cut(G, P).queue = G.queue /\ Cut(G, P).pending = G.pending
  BY CutFields
<1> QED BY <1>1, <1>2, <1>3, <1>4, <1>5

LEMMA StopAllKeeps ==
  ASSUME NEW G \in Graphs, NEW S \in SUBSET Observers, NEW old, NEW running,
         BothSides(G, old), UnreadLetGo(G, running), StoppedLetGo(G)
  PROVE  /\ StopAll(G, S) \in Graphs
         /\ StopAll(G, S).stopped = G.stopped \cup S /\ StopAll(G, S).queue = G.queue
         /\ StopAll(G, S).selfInv = G.selfInv /\ StopAll(G, S).pending = G.pending
         /\ BothSides(StopAll(G, S), old) /\ UnreadLetGo(StopAll(G, S), running)
         /\ StoppedLetGo(StopAll(G, S))
         /\ Erodes(G, StopAll(G, S), {})
<1> DEFINE K == [G EXCEPT !.stopped = @ \cup S]
           H == CleanUp(K, S)
<1>1. /\ K \in Graphs /\ K.subs = G.subs /\ K.deps = G.deps /\ K.dirty = G.dirty
      /\ K.stopped = G.stopped \cup S /\ K.queue = G.queue
      /\ K.selfInv = G.selfInv /\ K.pending = G.pending
  BY DEF Graphs
<1>2. StopAll(G, S) = H  BY DEF StopAll
<1> HIDE DEF K
<1>3. BothSides(K, old) /\ UnreadLetGo(K, running) /\ Erodes(G, K, {})
  BY <1>1 DEF BothSides, UnreadLetGo, Erodes
<1>4. S \subseteq {} \cup K.stopped  BY <1>1
<1>5. /\ H \in Graphs /\ H.stopped = K.stopped /\ H.queue = K.queue
      /\ H.selfInv = K.selfInv /\ H.pending = K.pending
      /\ BothSides(H, old) /\ UnreadLetGo(H, running)
      /\ \A o \in S : H.deps[o] = {}
      /\ Erodes(K, H, {})
  BY <1>1, <1>3, <1>4, CleanUpKeeps
<1> HIDE DEF H
<1>6. StoppedLetGo(H)
  <2>1. \A o \in G.stopped : o \in Observers /\ G.deps[o] = {}
    BY DEF StoppedLetGo, Graphs
  <2>2. \A o \in G.stopped : H.deps[o] = {}  BY <1>1, <1>5, <2>1 DEF Erodes
  <2> QED BY <1>1, <1>5, <2>2 DEF StoppedLetGo
<1>7. Erodes(G, H, {} \cup {})  BY <1>3, <1>5, ErodesOn
<1>8. {} \cup {} = {}  OBVIOUS
<1> QED BY <1>1, <1>2, <1>5, <1>6, <1>7, <1>8

-----------------------------------------------------------------------------
(* Telling.                                                                  *)

(* What is made dirty was clean and was told, or subscribes to what is made  *)
(* dirty; and it is no more than any set that is closed in this way.         *)
LEMMA DirtiedIs ==
  ASSUME NEW G, NEW O, NEW R
  PROVE  /\ Dirtied(G, O, R) \subseteq Computeds
         /\ \A c \in Dirtied(G, O, R) : c \notin G.stopped \cup G.dirty
         /\ \A c \in Computeds :
              /\ c \in O \/ \E d \in Dirtied(G, O, R) : c \in G.subs[d]
              /\ c \notin G.stopped \cup G.dirty \cup R
              => c \in Dirtied(G, O, R)
         /\ \A T : (\A c \in Computeds \cap T :
                     /\ c \notin G.stopped \cup G.dirty
                     /\ c \in O \/ \E d \in Computeds \ T : c \in G.subs[d]
                     => FALSE)
                   => Dirtied(G, O, R) \cap T = {}
<1> DEFINE Takes(c) == /\ c \notin G.stopped \cup G.dirty
                       /\ c \in R => G.selfInv[c] < MaxSelf
           Closed(Y) == \A c \in Computeds :
             (c \in O \/ \E d \in Y : c \in G.subs[d]) /\ Takes(c) => c \in Y
           D == Dirtied(G, O, R)
<1>1. D = {c \in Computeds : \A Y \in SUBSET Computeds : Closed(Y) => c \in Y}
  BY DEF Dirtied
<1> HIDE DEF D
<1>2. ASSUME NEW c \in D PROVE c \notin G.stopped \cup G.dirty
  <2>1. Closed(Computeds \ (G.stopped \cup G.dirty))  OBVIOUS
  <2> QED BY <1>1, <2>1
<1>3. ASSUME NEW c \in Computeds, c \in O \/ \E d \in D : c \in G.subs[d],
             c \notin G.stopped \cup G.dirty \cup R
      PROVE  c \in D
  <2>1. Takes(c)  BY <1>3
  <2>2. ASSUME NEW Y \in SUBSET Computeds, Closed(Y) PROVE c \in Y
    <3>1. D \subseteq Y  BY <1>1, <2>2
    <3>2. c \in O \/ \E d \in Y : c \in G.subs[d]  BY <1>3, <3>1
    <3> QED BY <2>1, <2>2, <3>2
  <2> QED BY <1>1, <2>2
<1>4. ASSUME NEW T, \A c \in Computeds \cap T :
                     /\ c \notin G.stopped \cup G.dirty
                     /\ c \in O \/ \E d \in Computeds \ T : c \in G.subs[d]
                     => FALSE
      PROVE  D \cap T = {}
  <2>1. Closed(Computeds \ T)  BY <1>4
  <2> QED BY <1>1, <2>1
<1>5. D \subseteq Computeds  BY <1>1
<1> QED BY <1>2, <1>3, <1>4, <1>5 DEF D

LEMMA TellIs ==
  ASSUME NEW G \in Graphs, NEW O \in SUBSET Observers, NEW R
  PROVE  \E K \in Graphs, V \in SUBSET Observers : Tells(G, O, R, K, V)
<1> DEFINE D == Dirtied(G, O, R)
           Notices(o) == (IF o \in O THEN 1 ELSE 0)
                    + Cardinality({d \in D : o \in Computeds /\ o \in G.subs[d]})
           Told == {o \in Observers : Notices(o) > 0} \ G.stopped
           Over == {o \in Told \cap R : G.selfInv[o] + Notices(o) > MaxSelf}
           Scheduled == {c \in D : G.subs[c] # {}} \cup (Told \ (Computeds \cup Over))
           selfInv == [o \in Observers |->
            IF o \notin Told THEN G.selfInv[o]
            ELSE IF o \notin R THEN 0
            ELSE IF o \in Over THEN MaxSelf + 1 ELSE G.selfInv[o] + Notices(o)]
           K == [G EXCEPT !.dirty = @ \cup D, !.selfInv = selfInv,
                          !.queue = @ \cup Scheduled,
                          !.pending = @ \/ (Scheduled # {})]
<1>1. Tell(G, O, R) = StopAll(CleanUp(K, {c \in D : G.subs[c] = {}}), Over)  BY DEF Tell
<1>2. D \subseteq Computeds  BY DirtiedIs
<1> HIDE DEF D
<1>3. \A o \in Observers : /\ Notices(o) \in Nat
                           /\ o \notin O /\ o \notin Computeds => Notices(o) = 0
                           /\ o \in O => Notices(o) > 0
  <2> SUFFICES ASSUME NEW o \in Observers
               PROVE  /\ Notices(o) \in Nat
                      /\ o \notin O /\ o \notin Computeds => Notices(o) = 0
                      /\ o \in O => Notices(o) > 0
    OBVIOUS
  <2> DEFINE B == {d \in D : o \in Computeds /\ o \in G.subs[d]}
  <2>1. IsFiniteSet(B)  BY <1>2, NamesAssumption, FS_Subset
  <2>2. Cardinality(B) \in Nat  BY <2>1, FS_CardinalityType
  <2>3. o \notin Computeds => Cardinality(B) = 0
    <3>1. o \notin Computeds => B = {}  OBVIOUS
    <3> QED BY <3>1, FS_EmptySet
  <2> HIDE DEF B
  <2>4. Notices(o) = (IF o \in O THEN 1 ELSE 0) + Cardinality(B)  BY DEF B
  <2> QED BY <2>2, <2>3, <2>4
<1> HIDE DEF Notices
<1>4. /\ Told \subseteq Observers /\ Over \subseteq Observers /\ Over \subseteq R
      /\ Scheduled \subseteq Observers
      /\ \A o \in Scheduled : o \in O \cup Computeds
      /\ {c \in D : G.subs[c] # {}} \subseteq Scheduled
      /\ O \ Computeds \subseteq Scheduled \cup Over \cup G.stopped
  BY <1>2, <1>3 DEF Observers
<1>5. selfInv \in [Observers -> 0 .. MaxSelf + 1]
  <2> SUFFICES ASSUME NEW o \in Observers
               PROVE  (IF o \notin Told THEN G.selfInv[o]
                       ELSE IF o \notin R THEN 0
                       ELSE IF o \in Over THEN MaxSelf + 1 ELSE G.selfInv[o] + Notices(o))
                      \in 0 .. MaxSelf + 1
    OBVIOUS
  <2>1. G.selfInv[o] \in 0 .. MaxSelf + 1 /\ MaxSelf \in Nat /\ Notices(o) \in Nat
    BY <1>3, MaxSelfAssumption DEF Graphs
  <2>2. o \in Told /\ o \in R /\ o \notin Over => ~(G.selfInv[o] + Notices(o) > MaxSelf)
    OBVIOUS
  <2> HIDE DEF Told, Over
  <2> QED BY <2>1, <2>2
<1> HIDE DEF Told, Over, Scheduled, selfInv
<1>6. /\ K \in Graphs
      /\ K.subs = G.subs /\ K.deps = G.deps /\ K.stopped = G.stopped
      /\ K.dirty = G.dirty \cup D /\ K.queue = G.queue \cup Scheduled
      /\ K.pending = (G.pending \/ Scheduled # {})
  BY <1>2, <1>4, <1>5 DEF Graphs
<1> HIDE DEF K
<1>7. K.pending \/ (K.queue = G.queue /\ K.pending = G.pending)
  <2>1. G.pending \in BOOLEAN  BY DEF Graphs
  <2>2. CASE Scheduled = {}
    <3>1. K.queue = G.queue  BY <1>6, <2>2
    <3>2. K.pending = G.pending  BY <1>6, <2>1, <2>2
    <3> QED BY <3>1, <3>2
  <2>3. CASE Scheduled # {}  BY <1>6, <2>3
  <2> QED BY <2>2, <2>3
<1> QED
  <2>1. K \in Graphs /\ Over \in SUBSET Observers  BY <1>4, <1>6
  <2>2. Tells(G, O, R, K, Over)  BY <1>1, <1>4, <1>6, <1>7 DEF D, Tells
  <2> QED BY <2>1, <2>2

LEMMA TellKeeps ==
  ASSUME NEW G \in Graphs, NEW O \in SUBSET Observers, NEW R, NEW old, NEW running,
         BothSides(G, old), UnreadLetGo(G, running), StoppedLetGo(G)
  PROVE  /\ Tell(G, O, R) \in Graphs
         /\ BothSides(Tell(G, O, R), old) /\ UnreadLetGo(Tell(G, O, R), running)
         /\ StoppedLetGo(Tell(G, O, R))
         /\ Tell(G, O, R).stopped \subseteq G.stopped \cup R
         /\ \A o \in Tell(G, O, R).queue : \/ o \in G.queue \cup O \cup Computeds
                                           \/ \E n \in Nodes : o \in G.subs[n]
         /\ Erodes(G, Tell(G, O, R), Dirtied(G, O, R))
         /\ Dirtied(G, O, R) \subseteq Tell(G, O, R).dirty
<1> DEFINE D == Dirtied(G, O, R)
           U == {c \in D : G.subs[c] = {}}
<1>0. PICK K \in Graphs, V \in SUBSET Observers : Tells(G, O, R, K, V)  BY TellIs
<1>1. /\ Tell(G, O, R) = StopAll(CleanUp(K, U), V)
      /\ V \subseteq R
      /\ K.subs = G.subs /\ K.deps = G.deps /\ K.stopped = G.stopped
      /\ K.dirty = G.dirty \cup D
      /\ \A o \in K.queue : \/ o \in G.queue \cup O \cup Computeds
                            \/ \E n \in Nodes : o \in G.subs[n]
      /\ G.queue \cup {c \in D : G.subs[c] # {}} \subseteq K.queue
      /\ O \ Computeds \subseteq K.queue \cup V \cup G.stopped
      /\ K.pending \/ (K.queue = G.queue /\ K.pending = G.pending)
  BY <1>0 DEF Tells
<1>2. D \subseteq Computeds  BY DirtiedIs
<1>3. U \subseteq D /\ U \in SUBSET Observers  BY <1>2 DEF Observers
<1> HIDE DEF D, U
<1>4. BothSides(K, old) /\ UnreadLetGo(K, running) /\ StoppedLetGo(K) /\ Erodes(G, K, D)
  <2>1. Erodes(G, K, D)  BY <1>1, <1>2 DEF Erodes
  <2> QED BY <1>1, <2>1 DEF BothSides, UnreadLetGo, StoppedLetGo
<1> DEFINE H == CleanUp(K, U)
<1>5. /\ H \in Graphs /\ H.stopped = K.stopped /\ H.queue = K.queue
      /\ BothSides(H, old) /\ UnreadLetGo(H, running) /\ StoppedLetGo(H)
      /\ Erodes(K, H, D)
  BY <1>3, <1>4, CleanUpKeeps
<1> HIDE DEF H
<1> DEFINE I == StopAll(H, V)
<1>6. /\ I \in Graphs /\ I.stopped = H.stopped \cup V /\ I.queue = H.queue
      /\ BothSides(I, old) /\ UnreadLetGo(I, running) /\ StoppedLetGo(I)
      /\ Erodes(H, I, {})
  BY <1>5, StopAllKeeps
<1> HIDE DEF I
<1>7. Erodes(G, I, (D \cup D) \cup {})  BY <1>4, <1>5, <1>6, ErodesOn
<1>8. (D \cup D) \cup {} = D  OBVIOUS
<1>9. D \subseteq I.dirty  BY <1>1, <1>5, <1>6 DEF Erodes
<1>10. Tell(G, O, R) = I  BY <1>1 DEF H, I
<1> QED BY <1>1, <1>5, <1>6, <1>7, <1>8, <1>9, <1>10 DEF D

-----------------------------------------------------------------------------
(* The stack.                                                                *)

LEMMA AlikeKeeps ==
  ASSUME NEW p, NEW F \in Seq(Frames), NEW H, Alike(F, H)
  PROVE  /\ Running(H) = Running(F) /\ Unconfirmed(H) = Unconfirmed(F)
         /\ Distinct(F) => Distinct(H)
         /\ Waits(p, F) => Waits(p, H)
<1>1. /\ Len(F) \in Nat /\ DOMAIN F = 1 .. Len(F) /\ DOMAIN H = 1 .. Len(F)  BY DEF Alike
<1>2. Running(H) = Running(F) /\ Unconfirmed(H) = Unconfirmed(F)
  BY <1>1 DEF Alike, Running, Unconfirmed
<1>3. Distinct(F) => Distinct(H)  BY <1>1 DEF Alike, Distinct
<1>4. ASSUME Waits(p, F), NEW i \in DOMAIN H, i + 1 \in DOMAIN H PROVE Awaits(p, H[i], H[i + 1])
  <2>1. i \in 1 .. Len(F) - 1 /\ i + 1 \in 1 .. Len(F) /\ i \in 1 .. Len(F)  BY <1>1, <1>4
  <2>2. Awaits(p, F[i], F[i + 1])  BY <1>1, <1>4, <2>1 DEF Waits
  <2> QED BY <2>1, <2>2 DEF Awaits, Alike, NextOf
<1> QED BY <1>2, <1>3, <1>4 DEF Waits

(* The stack grows by a frame.                                               *)
LEMMA Pushed ==
  ASSUME NEW p, NEW F \in Seq(Frames), NEW f \in Frames, Distinct(F), Waits(p, F),
         f.who \notin Running(F), F # <<>> => Awaits(p, F[Len(F)], f)
  PROVE  /\ Append(F, f) \in Seq(Frames)
         /\ Len(Append(F, f)) = Len(F) + 1 /\ Append(F, f)[Len(F) + 1] = f
         /\ \A i \in 1 .. Len(F) : Append(F, f)[i] = F[i]
         /\ Running(Append(F, f)) = Running(F) \cup {f.who}
         /\ Unconfirmed(Append(F, f)) = Unconfirmed(F) \cup ({f.who} \X f.old)
         /\ Distinct(Append(F, f)) /\ Waits(p, Append(F, f))
<1> DEFINE H == Append(F, f)
<1>1. /\ H \in Seq(Frames) /\ Len(H) = Len(F) + 1 /\ H[Len(F) + 1] = f
      /\ \A i \in 1 .. Len(F) : H[i] = F[i]
      /\ Len(F) \in Nat /\ DOMAIN F = 1 .. Len(F) /\ DOMAIN H = 1 .. Len(F) + 1
  OBVIOUS
<1>2. f.who \in Observers /\ f.old \subseteq Nodes  BY DEF Frames
<1> HIDE DEF H
<1>3. Running(H) = Running(F) \cup {f.who}  BY <1>1 DEF Running
<1>4. Unconfirmed(H) = Unconfirmed(F) \cup ({f.who} \X f.old)
  BY <1>1, <1>2 DEF Unconfirmed
<1>5. Distinct(H)  BY <1>1 DEF Distinct, Running
<1>6. ASSUME NEW i \in DOMAIN H, i + 1 \in DOMAIN H PROVE Awaits(p, H[i], H[i + 1])
  <2>1. i \in 1 .. Len(F)  BY <1>1, <1>6
  <2>2. CASE i = Len(F)
    <3>1. F # <<>> /\ H[i] = F[Len(F)] /\ H[i + 1] = f  BY <1>1, <2>1, <2>2
    <3> QED BY <3>1
  <2>3. CASE i # Len(F)
    <3>1. i + 1 \in DOMAIN F /\ H[i] = F[i] /\ H[i + 1] = F[i + 1]  BY <1>1, <2>1, <2>3
    <3> QED BY <1>1, <2>1, <3>1 DEF Waits
  <2> QED BY <2>2, <2>3
<1> QED BY <1>1, <1>3, <1>4, <1>5, <1>6 DEF H, Waits

LEMMA FrontIs ==
  ASSUME NEW F \in Seq(Frames), F # <<>>
  PROVE  /\ SubSeq(F, 1, Len(F) - 1) \in Seq(Frames)
         /\ Len(SubSeq(F, 1, Len(F) - 1)) = Len(F) - 1
         /\ \A i \in 1 .. Len(F) - 1 : SubSeq(F, 1, Len(F) - 1)[i] = F[i]
<1> DEFINE n == Len(F) - 1
           H == SubSeq(F, 1, n)
<1>1. n \in Nat /\ 1 \in Int /\ n \in Int  OBVIOUS
<1>2. \A i \in 1 .. n : F[i] \in Frames  OBVIOUS
<1>3. /\ H \in Seq(Frames) /\ Len(H) = IF 1 <= n THEN n - 1 + 1 ELSE 0
      /\ \A i \in 1 .. n - 1 + 1 : H[i] = F[1 + i - 1]
  <2> HIDE DEF n
  <2> QED BY <1>1, <1>2, SubSeqProperties
<1> HIDE DEF H, n
<1>4. /\ Len(H) = n /\ \A i \in 1 .. n : H[i] = F[i]  BY <1>1, <1>3
<1> QED BY <1>3, <1>4 DEF H, n

(* ... and loses its last.                                                   *)
LEMMA Popped ==
  ASSUME NEW p, NEW F \in Seq(Frames), F # <<>>, Distinct(F), Waits(p, F),
         NEW H \in Seq(Frames), Len(H) = Len(F) - 1, \A i \in 1 .. Len(F) - 1 : H[i] = F[i]
  PROVE  /\ F[Len(F)] \in Frames
         /\ Running(H) = Running(F) \ {F[Len(F)].who}
         /\ \A q \in Unconfirmed(F) : q \in Unconfirmed(H) \/
                (q[1] = F[Len(F)].who /\ q[2] \in F[Len(F)].old)
         /\ Distinct(H) /\ Waits(p, H)
         /\ H # <<>> => Awaits(p, H[Len(H)], F[Len(F)])
<1>a. Len(F) \in Nat /\ Len(F) # 0 /\ DOMAIN F = 1 .. Len(F)  OBVIOUS
<1>1. /\ H \in Seq(Frames) /\ Len(H) = Len(F) - 1 /\ Len(F) \in Nat \ {0}
      /\ \A i \in 1 .. Len(F) - 1 : H[i] = F[i]
      /\ DOMAIN F = 1 .. Len(F) /\ DOMAIN H = 1 .. Len(F) - 1
      /\ F[Len(F)] \in Frames
  BY <1>a
<1>2. DOMAIN F = DOMAIN H \cup {Len(F)} /\ Len(F) \notin DOMAIN H  BY <1>1
<1>3. Running(H) = Running(F) \ {F[Len(F)].who}
  <2>1. \A i \in DOMAIN H : H[i].who = F[i].who /\ F[i].who # F[Len(F)].who
    BY <1>1, <1>2 DEF Distinct
  <2> QED BY <1>2, <2>1 DEF Running
<1>4. \A q \in Unconfirmed(F) : q \in Unconfirmed(H) \/
                (q[1] = F[Len(F)].who /\ q[2] \in F[Len(F)].old)
  BY <1>1, <1>2 DEF Unconfirmed
<1>5. Distinct(H)  BY <1>1, <1>2 DEF Distinct
<1>6. ASSUME NEW i \in DOMAIN H, i + 1 \in DOMAIN F PROVE Awaits(p, H[i], F[i + 1])
  BY <1>1, <1>2, <1>6 DEF Waits
<1>7. Waits(p, H)
  <2>1. \A i \in DOMAIN H : i + 1 \in DOMAIN H => i + 1 \in DOMAIN F /\ H[i + 1] = F[i + 1]
    BY <1>1
  <2> QED BY <1>6, <2>1 DEF Waits
<1>8. H # <<>> => Awaits(p, H[Len(H)], F[Len(F)])
  <2> SUFFICES ASSUME H # <<>> PROVE Awaits(p, H[Len(H)], F[Len(F)])  OBVIOUS
  <2>1. Len(H) # 0  BY <1>1
  <2>2. Len(H) \in DOMAIN H /\ Len(H) + 1 = Len(F) /\ Len(F) \in DOMAIN F  BY <1>1, <2>1
  <2> QED BY <1>6, <2>2
<1> QED BY <1>1, <1>3, <1>4, <1>5, <1>7, <1>8

(* The last frame goes on with an answer.                                    *)
LEMMA AnsweredIs ==
  ASSUME NEW p \in Pages, NEW f \in Frames, NextOf(p, f).op \notin {"return", "throw"},
         NEW v \in Answers, NEW n \in Nodes \cup {Nobody}
  PROVE  /\ Answered(f, n, v) \in Frames
         /\ Answered(f, n, v).who = f.who /\ Answered(f, n, v).old = f.old
         /\ Answered(f, n, v).by = f.by /\ Answered(f, n, v).consumer = f.consumer
         /\ Answered(f, n, v).phase = f.phase /\ Answered(f, n, v).thrown = f.thrown
         /\ Answered(f, n, v).recursed = f.recursed
         /\ Answered(f, n, v).seen = IF n # Nobody /\ f.phase = "read"
                                       THEN f.seen \cup {<<n, v>>} ELSE f.seen
<1>1. /\ f.who \in Observers /\ f.phase \in {"read", "body"} /\ f.trace \in Traces
      /\ f.seen \subseteq Nodes \X Answers
  BY DEF Frames
<1>2. Append(f.trace, v) \in Traces  BY <1>1, CodeAssumption DEF NextOf
<1> DEFINE seen == IF n # Nobody /\ f.phase = "read" THEN f.seen \cup {<<n, v>>} ELSE f.seen
           trace == Append(f.trace, v)
           g == [f EXCEPT !.trace = trace, !.seen = seen]
<1>3. seen \subseteq Nodes \X Answers  BY <1>1
<1>4. Answered(f, n, v) = g  BY DEF Answered
<1>5. trace \in Traces  BY <1>2
<1> HIDE DEF seen, trace
<1>6. /\ g \in Frames /\ g.who = f.who /\ g.old = f.old /\ g.by = f.by
      /\ g.consumer = f.consumer /\ g.phase = f.phase
      /\ g.thrown = f.thrown /\ g.recursed = f.recursed /\ g.seen = seen
  BY <1>3, <1>5 DEF Frames
<1> QED BY <1>4, <1>6 DEF seen

LEMMA TopReplaced ==
  ASSUME NEW F \in Seq(Frames), F # <<>>, NEW g \in Frames,
         g.who = F[Len(F)].who, g.old = F[Len(F)].old, g.by = F[Len(F)].by,
         NEW H \in Seq(Frames), Len(H) = Len(F), H[Len(F)] = g,
         \A i \in 1 .. Len(F) - 1 : H[i] = F[i]
  PROVE  Alike(F, H)
<1> DEFINE n == Len(F)
<1>1. n \in Nat  OBVIOUS
<1> HIDE DEF n
<1>2. \A i \in 1 .. n : i \in 1 .. n - 1 \/ i = n  BY <1>1
<1>3. g.who = F[n].who /\ g.old = F[n].old /\ g.by = F[n].by /\ Len(H) = n /\ H[n] = g
      /\ \A i \in 1 .. n - 1 : H[i] = F[i]
  BY DEF n
<1>4. H \in Seq(Frames) /\ \A i \in 1 .. n : H[i].who = F[i].who /\ H[i].old = F[i].old /\ H[i].by = F[i].by
  BY <1>2, <1>3
<1> QED BY <1>3, <1>4 DEF Alike, n

LEMMA TopSet ==
  ASSUME NEW F \in Seq(Frames), F # <<>>, NEW g \in Frames, NEW H, H = [F EXCEPT ![Len(F)] = g]
  PROVE  /\ H \in Seq(Frames) /\ Len(H) = Len(F) /\ H[Len(F)] = g
         /\ \A i \in 1 .. Len(F) - 1 : H[i] = F[i]
<1> DEFINE n == Len(F)
           I == [F EXCEPT ![n] = g]
<1>1. n \in Nat /\ n # 0 /\ n \in 1 .. n  OBVIOUS
<1>2. I \in Seq(Frames) /\ Len(I) = n /\ \A i \in 1 .. n : I[i] = IF i = n THEN g ELSE F[i]
  BY <1>1, ExceptSeq
<1> HIDE DEF I, n
<1>3. /\ I \in Seq(Frames) /\ Len(I) = n /\ I[n] = g
      /\ \A i \in 1 .. n - 1 : I[i] = F[i]
  BY <1>1, <1>2
<1> QED BY <1>3 DEF I, n

LEMMA TopAppended ==
  ASSUME NEW F \in Seq(Frames), F # <<>>, NEW g \in Frames,
         NEW B \in Seq(Frames), Len(B) = Len(F) - 1, \A i \in 1 .. Len(F) - 1 : B[i] = F[i]
  PROVE  /\ Append(B, g) \in Seq(Frames) /\ Len(Append(B, g)) = Len(F)
         /\ Append(B, g)[Len(F)] = g
         /\ \A i \in 1 .. Len(F) - 1 : Append(B, g)[i] = F[i]
<1> DEFINE n == Len(F)
<1>1. n \in Nat /\ n # 0 /\ DOMAIN F = 1 .. n /\ n \in 1 .. n  OBVIOUS
<1>2. Len(B) = n - 1 /\ \A i \in 1 .. n - 1 : B[i] = F[i]  OBVIOUS
<1> HIDE DEF n
<1>3. /\ Append(B, g) \in Seq(Frames) /\ Len(Append(B, g)) = n /\ Append(B, g)[n] = g
      /\ \A i \in 1 .. n - 1 : Append(B, g)[i] = F[i]
  BY <1>1, <1>2
<1> QED BY <1>3 DEF n

LEMMA ThrownIs ==
  ASSUME NEW F \in Seq(Frames), F # <<>>
  PROVE  /\ Alike(F, Throws(F)) /\ Throws(F) \in Seq(Frames) /\ Len(Throws(F)) = Len(F)
         /\ Throws(F)[Len(F)] = [F[Len(F)] EXCEPT !.thrown = TRUE]
         /\ \A i \in 1 .. Len(F) - 1 : Throws(F)[i] = F[i]
<1>1. F[Len(F)] \in Frames
  <2>1. Len(F) \in Nat /\ Len(F) # 0  OBVIOUS
  <2> QED BY <2>1
<1> DEFINE g == [F[Len(F)] EXCEPT !.thrown = TRUE]
<1>2. g \in Frames /\ g.who = F[Len(F)].who /\ g.old = F[Len(F)].old /\ g.by = F[Len(F)].by
  BY <1>1 DEF Frames
<1> DEFINE H == Throws(F)
<1>3. H = [F EXCEPT ![Len(F)] = g]  BY DEF Throws
<1> HIDE DEF g, H
<1>4. /\ H \in Seq(Frames) /\ Len(H) = Len(F) /\ H[Len(F)] = g
      /\ \A i \in 1 .. Len(F) - 1 : H[i] = F[i]
  BY <1>2, <1>3, TopSet
<1>5. Alike(F, H)  BY <1>2, <1>4, TopReplaced
<1> QED BY <1>4, <1>5 DEF g, H

(* The frame below gets the answer, or the failure, of the one that ended.   *)
LEMMA ReturnedIs ==
  ASSUME NEW p \in Pages, NEW F \in Seq(Frames), NEW g, F # <<>> => Awaits(p, F[Len(F)], g),
         NEW v \in Answers, NEW n \in Nodes \cup {Nobody}
  PROVE  Alike(F, Return(F, n, v)) /\ Alike(F, ReturnFailed(F))
<1>1. CASE F = <<>>  BY <1>1 DEF Return, ReturnFailed, Alike
<1>2. CASE F # <<>>
  <2>1. F[Len(F)] \in Frames /\ NextOf(p, F[Len(F)]).op \notin {"return", "throw"}
    <3>1. Len(F) \in Nat /\ Len(F) # 0  BY <1>2
    <3> QED BY <1>2, <3>1 DEF Awaits
  <2> DEFINE a == Answered(F[Len(F)], n, v)
  <2>2. /\ a \in Frames /\ a.who = F[Len(F)].who /\ a.old = F[Len(F)].old
        /\ a.by = F[Len(F)].by
    BY <2>1, AnsweredIs
  <2> DEFINE H == Return(F, n, v)
  <2>3. H = [F EXCEPT ![Len(F)] = a]  BY <1>2 DEF Return
  <2> HIDE DEF a, H
  <2>4. /\ H \in Seq(Frames) /\ Len(H) = Len(F) /\ H[Len(F)] = a
        /\ \A i \in 1 .. Len(F) - 1 : H[i] = F[i]
    BY <1>2, <2>2, <2>3, TopSet
  <2>5. Alike(F, H)  BY <1>2, <2>2, <2>4, TopReplaced
  <2> QED BY <1>2, <2>5, ThrownIs DEF ReturnFailed, H
<1> QED BY <1>1, <1>2

-----------------------------------------------------------------------------
(* The inductive invariant of the subscriptions.                             *)

LEMMA InstructionIs ==
  ASSUME IInv, Busy
  PROVE  /\ top \in Frames /\ Len(stack) \in Nat /\ Len(stack) # 0
         /\ Instruction.op \in {"read", "write", "mount", "stop", "return", "throw"}
         /\ Instruction.op # "throw" => ~top.thrown /\ Instruction = NextOf(page, top)
         /\ Instruction.op = "read" => Instruction.of \in Nodes
         /\ Instruction.op = "write" => Instruction.of \in Cells /\ Instruction.to \in Values
         /\ Instruction.op = "mount" => Instruction.of \in Doms
         /\ Instruction.op = "stop" => Instruction.of \in Watches \cup Doms
         /\ Instruction.op = "return" => Instruction.to \in Answers
<1>1. stack \in Seq(Frames) /\ stack # <<>>  BY DEF IInv, StackOK, Busy
<1>2. top \in Frames /\ Len(stack) \in Nat /\ Len(stack) # 0
  <2>1. Len(stack) \in Nat /\ Len(stack) # 0  BY <1>1
  <2> QED BY <1>1, <2>1 DEF top
<1> DEFINE i == Instruction
<1>3. i \in Instructions
  <2>1. CASE top.thrown  BY <2>1 DEF Instruction, Instructions
  <2>2. CASE ~top.thrown
    <3>1. i = Code(page, top.who, top.phase, top.trace)  BY <2>2 DEF Instruction
    <3>2. /\ page \in Pages /\ top.who \in Observers /\ top.phase \in {"read", "body"}
          /\ top.trace \in Traces
      BY <1>2 DEF Frames, IInv, RestOK
    <3> QED BY <3>1, <3>2, CodeAssumption
  <2> QED BY <2>1, <2>2
<1>4. i.op # "throw" => ~top.thrown /\ i = NextOf(page, top)  BY DEF Instruction, NextOf
<1> HIDE DEF i
<1>5. CASE i \in [op : {"read"}, of : Nodes]  BY <1>2, <1>4, <1>5 DEF i
<1>6. CASE i \in [op : {"write"}, of : Cells, to : Values]  BY <1>2, <1>4, <1>6 DEF i
<1>7. CASE i \in [op : {"mount"}, of : Doms]  BY <1>2, <1>4, <1>7 DEF i
<1>8. CASE i \in [op : {"stop"}, of : Watches \cup Doms]  BY <1>2, <1>4, <1>8 DEF i
<1>9. CASE i \in [op : {"return"}, to : Answers]  BY <1>2, <1>4, <1>9 DEF i
<1>10. CASE i \in [op : {"throw"}]  BY <1>2, <1>4, <1>10 DEF i
<1> QED BY <1>3, <1>5, <1>6, <1>7, <1>8, <1>9, <1>10 DEF Instructions

(* What is on the stack may be given an answer or a failure, and the graph   *)
(* is as well as it was.                                                     *)
LEMMA AlikeStack ==
  ASSUME NEW p, NEW F, NEW H, StackOK(p, F), Alike(F, H)
  PROVE  /\ StackOK(p, H) /\ Running(H) = Running(F) /\ Unconfirmed(H) = Unconfirmed(F)
         /\ \A G, there : GraphOK(G, F, there) => GraphOK(G, H, there)
<1>1. /\ StackOK(p, H) /\ Running(H) = Running(F) /\ Unconfirmed(H) = Unconfirmed(F)
  BY AlikeKeeps DEF StackOK, Alike
<1> QED BY <1>1 DEF GraphOK

LEMMA BelowIs ==
  ASSUME IInv, Busy
  PROVE  /\ below \in Seq(Frames) /\ Len(below) = Len(stack) - 1
         /\ \A i \in 1 .. Len(stack) - 1 : below[i] = stack[i]
         /\ StackOK(page, below) /\ Running(below) = Running(stack) \ {top.who}
         /\ \A q \in Unconfirmed(stack) :
              q \in Unconfirmed(below) \/ (q[1] = top.who /\ q[2] \in top.old)
         /\ below # <<>> => Awaits(page, below[Len(below)], top)
<1> DEFINE F == stack
           H == below
<1>1. F \in Seq(Frames) /\ F # <<>> /\ Distinct(F) /\ Waits(page, F)
  BY DEF IInv, StackOK, Busy
<1>2. /\ H \in Seq(Frames) /\ Len(H) = Len(F) - 1
      /\ \A i \in 1 .. Len(F) - 1 : H[i] = F[i]
  <2> HIDE DEF F, H
  <2>1. H = SubSeq(F, 1, Len(F) - 1)  BY DEF F, H, below
  <2> QED BY <1>1, <2>1, FrontIs
<1>3. top = F[Len(F)]  BY DEF top
<1> HIDE DEF F, H
<1>4. /\ Running(H) = Running(F) \ {F[Len(F)].who}
      /\ \A q \in Unconfirmed(F) : q \in Unconfirmed(H) \/
           (q[1] = F[Len(F)].who /\ q[2] \in F[Len(F)].old)
      /\ Distinct(H) /\ Waits(page, H)
      /\ H # <<>> => Awaits(page, H[Len(H)], F[Len(F)])
  BY <1>1, <1>2, Popped
<1> QED BY <1>2, <1>3, <1>4 DEF F, H, StackOK

LEMMA ContinueAlike ==
  ASSUME IInv, Busy, Instruction.op \notin {"return", "throw"},
         NEW v \in Answers, NEW n \in Nodes \cup {Nobody}, Continue(n, v)
  PROVE  Alike(stack, stack')
<1> DEFINE a == Answered(top, n, v)
<1>1. stack \in Seq(Frames) /\ stack # <<>> /\ page \in Pages
  BY DEF IInv, StackOK, Busy, RestOK
<1>2. top \in Frames /\ NextOf(page, top).op \notin {"return", "throw"}  BY InstructionIs
<1>3. a \in Frames /\ a.who = top.who /\ a.old = top.old /\ a.by = top.by
  BY <1>1, <1>2, AnsweredIs
<1>4. below \in Seq(Frames) /\ Len(below) = Len(stack) - 1 /\ \A i \in 1 .. Len(stack) - 1 : below[i] = stack[i]
  BY BelowIs
<1> HIDE DEF a
<1> DEFINE H == Append(below, a)
<1>5. /\ H \in Seq(Frames) /\ Len(H) = Len(stack) /\ H[Len(stack)] = a
      /\ \A i \in 1 .. Len(stack) - 1 : H[i] = stack[i]
  <2>1. a \in Frames  BY <1>3
  <2> QED BY <1>1, <1>4, <2>1, TopAppended
<1>6. stack' = H  BY DEF Continue, a
<1> HIDE DEF H
<1>7. Alike(stack, H)  BY <1>1, <1>3, <1>5, TopReplaced DEF top
<1> QED BY <1>6, <1>7

LEMMA TopRuns ==
  ASSUME IInv, Busy
  PROVE  top.who \in Running(stack) /\ Len(stack) \in DOMAIN stack
<1>1. Len(stack) \in Nat /\ Len(stack) # 0 /\ stack \in Seq(Frames)
  BY InstructionIs DEF IInv, StackOK
<1>2. Len(stack) \in DOMAIN stack  BY <1>1
<1> QED BY <1>2 DEF Running, top

LEMMA ActiveIs ==
  ASSUME IInv
  PROVE  \/ Active = Nobody
         \/ Busy /\ Active = top.who /\ top.phase = "read" /\ Active \in Observers
            /\ Active \in Running(stack)
BY TopRuns, InstructionIs DEF Active, Frames

(* Reading subscribes whoever runs, on both sides.                           *)
LEMMA TrackIs ==
  ASSUME NEW G \in Graphs, NEW n \in Nodes, IInv
  PROVE  /\ Track(G, n) \in Graphs
         /\ Track(G, n).stopped = G.stopped /\ Track(G, n).dirty = G.dirty
         /\ Track(G, n).queue = G.queue /\ Track(G, n).selfInv = G.selfInv
         /\ \/ Active \in {Nobody, n} \cup G.stopped /\ Track(G, n) = G
            \/ /\ Active \in Observers \cap Running(stack) /\ Active \notin {Nobody, n} \cup G.stopped
               /\ Track(G, n).subs = [G.subs EXCEPT ![n] = @ \cup {Active}]
               /\ Track(G, n).deps = [G.deps EXCEPT ![Active] = @ \cup {n}]
<1>1. CASE Active \in {Nobody, n} \cup G.stopped  BY <1>1 DEF Track
<1>2. CASE Active \notin {Nobody, n} \cup G.stopped
  <2>1. Active \in Observers \cap Running(stack)  BY <1>2, ActiveIs
  <2> DEFINE a == Active
             H == [G EXCEPT !.subs[n] = @ \cup {a}, !.deps[a] = @ \cup {n}]
  <2>2. Track(G, n) = H  BY <1>2 DEF Track
  <2>3. a \in Observers  BY <2>1
  <2> HIDE DEF a
  <2>4. /\ H \in Graphs /\ H.stopped = G.stopped /\ H.dirty = G.dirty
        /\ H.queue = G.queue /\ H.selfInv = G.selfInv
        /\ H.subs = [G.subs EXCEPT ![n] = @ \cup {a}]
        /\ H.deps = [G.deps EXCEPT ![a] = @ \cup {n}]
    BY <2>3 DEF Graphs
  <2> QED BY <1>2, <2>1, <2>2, <2>4 DEF a
<1> QED BY <1>1, <1>2

LEMMA TrackKeeps ==
  ASSUME IInv, NEW n \in Nodes
  PROVE  GraphOK(Track(graph, n), stack, mounted)
<1> DEFINE G == graph
           H == Track(graph, n)
           a == Active
           R == Running(stack)
           old == Unconfirmed(stack)
<1>1. GraphOK(G, stack, mounted) /\ G \in Graphs  BY DEF IInv, GraphOK
<1>2. CASE H = G  BY <1>1, <1>2
<1>3. CASE H # G
  <2>1. /\ H \in Graphs /\ H.stopped = G.stopped /\ H.dirty = G.dirty /\ H.queue = G.queue
        /\ a \in Observers \cap R /\ a \notin {Nobody, n} \cup G.stopped
        /\ H.subs = [G.subs EXCEPT ![n] = @ \cup {a}]
        /\ H.deps = [G.deps EXCEPT ![a] = @ \cup {n}]
    BY <1>1, <1>3, TrackIs
  <2>2. /\ BothSides(G, old) /\ UnreadLetGo(G, R) /\ StoppedLetGo(G)
        /\ Alive(G, R, mounted)
    BY <1>1 DEF GraphOK
  <2>3. G.subs \in [Nodes -> SUBSET Observers] /\ G.deps \in [Observers -> SUBSET Nodes]
        /\ G.stopped \subseteq Observers
    BY <1>1 DEF Graphs
  <2> HIDE DEF G, H, a, R, old
  <2>4. BothSides(H, old)
    <3> SUFFICES ASSUME NEW o \in Observers, NEW m \in Nodes
                 PROVE  /\ m \in H.deps[o] => o \in H.subs[m]
                        /\ o \in H.subs[m] => m \in H.deps[o] \/ <<o, m>> \in old
      BY DEF BothSides
    <3>1. /\ m \in G.deps[o] => o \in G.subs[m]
          /\ o \in G.subs[m] => m \in G.deps[o] \/ <<o, m>> \in old
      BY <2>2 DEF BothSides
    <3>2. /\ H.subs[m] = IF m = n THEN G.subs[m] \cup {a} ELSE G.subs[m]
          /\ H.deps[o] = IF o = a THEN G.deps[o] \cup {n} ELSE G.deps[o]
      BY <2>1, <2>3
    <3> QED BY <3>1, <3>2
  <2>5. UnreadLetGo(H, R)  BY <2>1, <2>2, <2>3 DEF UnreadLetGo, Nodes, Observers
  <2>6. StoppedLetGo(H)  BY <2>1, <2>2, <2>3 DEF StoppedLetGo
  <2>7. Alive(H, R, mounted)  BY <2>1, <2>2, <2>3 DEF Alive
  <2> QED BY <2>1, <2>4, <2>5, <2>6, <2>7 DEF GraphOK, H, R, old
<1> QED BY <1>2, <1>3

LEMMA RememberedIs ==
  ASSUME NEW n, stack \in Seq(Frames), stack # <<>>
  PROVE  /\ Remembered(n) \in Seq(Frames) /\ Remembered(n) # <<>>
         /\ Len(Remembered(n)) = Len(stack) /\ Alike(stack, Remembered(n))
         /\ \A i \in 1 .. Len(stack) :
              /\ Remembered(n)[i].seen = stack[i].seen
              /\ Remembered(n)[i].consumer = stack[i].consumer
              /\ Remembered(n)[i].thrown = stack[i].thrown
              /\ Remembered(n)[i].phase = stack[i].phase
              /\ Remembered(n)[i].recursed <=> stack[i].recursed \/ stack[i].who = n
<1> DEFINE F == Remembered(n)
<1>1. Len(stack) \in Nat /\ DOMAIN stack = 1 .. Len(stack) /\ Len(stack) # 0  OBVIOUS
<1>2. ASSUME NEW i \in 1 .. Len(stack)
      PROVE  /\ F[i] \in Frames /\ F[i].who = stack[i].who /\ F[i].old = stack[i].old
             /\ F[i].by = stack[i].by /\ F[i].trace = stack[i].trace
             /\ F[i].phase = stack[i].phase /\ F[i].thrown = stack[i].thrown
             /\ F[i].seen = stack[i].seen /\ F[i].consumer = stack[i].consumer
             /\ F[i].recursed = (stack[i].recursed \/ stack[i].who = n)
  <2> DEFINE f == stack[i]
             r == (f.recursed \/ f.who = n)
  <2>1. f \in Frames /\ F[i] = [f EXCEPT !.recursed = r]  BY <1>1 DEF Remembered
  <2>2. r \in BOOLEAN  OBVIOUS
  <2> HIDE DEF f, r, F
  <2>3. /\ F[i] \in Frames /\ F[i].who = f.who /\ F[i].old = f.old /\ F[i].by = f.by
        /\ F[i].trace = f.trace /\ F[i].phase = f.phase /\ F[i].thrown = f.thrown
        /\ F[i].seen = f.seen /\ F[i].consumer = f.consumer /\ F[i].recursed = r
    BY <2>1, <2>2 DEF Frames
  <2> QED BY <2>3 DEF f, r
<1>3. F = [i \in 1 .. Len(stack) |-> F[i]]  BY <1>1 DEF Remembered
<1> HIDE DEF F
<1>4. F \in [1 .. Len(stack) -> Frames]  BY <1>2, <1>3
<1>5. F \in Seq(Frames) /\ Len(F) = Len(stack)  BY <1>1, <1>4
<1>6. Alike(stack, F)  BY <1>1, <1>2, <1>5 DEF Alike
<1> QED BY <1>1, <1>2, <1>5, <1>6 DEF F

(* Every other instruction leaves a stack that differs in its last frame.     *)
LEMMA GoesOn ==
  ASSUME IInv, Busy, ReadCell \/ ReadFresh \/ Write \/ Destroy \/ EnterBody \/ ReadRecursive
  PROVE  Alike(stack, stack')
<1> DEFINE n == Instruction.of
<1>1. /\ StackOK(page, stack) /\ stack \in Seq(Frames) /\ stack # <<>>
      /\ Nobody \in Answers
  BY DEF IInv, StackOK, Busy, Answers
<1>2. CASE ReadCell
  <2>1. n \in Nodes /\ val[n] \in Answers
    BY <1>2 DEF ReadCell, Nodes, IInv, RestOK, Answers
  <2> QED BY <1>2, <2>1, ContinueAlike DEF ReadCell
<1>3. CASE ReadFresh
  <2>1. n \in Nodes /\ cache[n].value \in Answers
    BY <1>3 DEF ReadFresh, Nodes, IInv, RestOK
  <2>2. stack' = Throws(stack) \/ Continue(n, cache[n].value)  BY <1>3 DEF ReadFresh
  <2> QED BY <1>1, <1>3, <2>1, <2>2, ContinueAlike, ThrownIs DEF ReadFresh
<1>4. CASE Write
  <2>1. Instruction.to \in Answers  BY <1>4, InstructionIs DEF Write, Answers
  <2> QED BY <1>4, <2>1, ContinueAlike DEF Write
<1>5. CASE Destroy  BY <1>1, <1>5, ContinueAlike DEF Destroy
<1>6. CASE EnterBody
  <2> DEFINE v == Instruction.to
             g == [top EXCEPT !.phase = "body", !.trace = <<v>>, !.next = v]
             H == Append(below, g)
  <2>1. top \in Frames /\ v \in Answers /\ <<v>> \in Traces
    BY <1>6, InstructionIs, CodeAssumption DEF EnterBody
  <2>2. stack' = H  BY <1>6 DEF EnterBody, Result
  <2> HIDE DEF v
  <2>3. g \in Frames /\ g.who = top.who /\ g.old = top.old /\ g.by = top.by
    BY <2>1 DEF Frames
  <2> HIDE DEF g
  <2>4. /\ H \in Seq(Frames) /\ Len(H) = Len(stack) /\ H[Len(stack)] = g
        /\ \A i \in 1 .. Len(stack) - 1 : H[i] = stack[i]
    BY <1>1, <2>3, BelowIs, TopAppended
  <2> HIDE DEF H
  <2>5. Alike(stack, H)  BY <1>1, <2>3, <2>4, TopReplaced DEF top
  <2> QED BY <2>2, <2>5
<1>7. CASE ReadRecursive
  <2> DEFINE F == Remembered(n)
  <2>1. F \in Seq(Frames) /\ F # <<>> /\ Alike(stack, F)  BY <1>1, RememberedIs
  <2>2. stack' = Throws(F)  BY <1>7 DEF ReadRecursive, Remembered
  <2> HIDE DEF F
  <2>3. Alike(F, stack')  BY <2>1, <2>2, ThrownIs
  <2> QED BY <2>1, <2>3 DEF Alike
<1> QED BY <1>2, <1>3, <1>4, <1>5, <1>6, <1>7

(* The end of a run gives the frame below an answer or a failure.            *)
LEMMA EndsAbove ==
  ASSUME IInv, Busy, EndComputed \/ EndObserver
  PROVE  Alike(below, stack')
<1>1. below \in Seq(Frames) /\ (below # <<>> => Awaits(page, below[Len(below)], top))
  BY BelowIs
<1>2. page \in Pages /\ Nobody \in Answers /\ (top.who \in Computeds => top.who \in Nodes)
  BY DEF IInv, RestOK, Answers, Nodes
<1>3. Fails \/ Result \in Answers
  BY InstructionIs DEF EndComputed, EndObserver, Ends, Fails, Result
<1>4. \/ stack' = below
      \/ stack' = ReturnFailed(below)
      \/ stack' = Return(below, Nobody, Nobody)
      \/ ~Fails /\ top.who \in Computeds /\ stack' = Return(below, top.who, Result)
  BY DEF EndComputed, EndObserver
<1>5. Alike(below, below)  BY <1>1 DEF Alike
<1>6. Alike(below, ReturnFailed(below)) /\ Alike(below, Return(below, Nobody, Nobody))
  BY <1>1, <1>2, ReturnedIs
<1>7. ~Fails /\ top.who \in Computeds => Alike(below, Return(below, top.who, Result))
  BY <1>1, <1>2, <1>3, ReturnedIs
<1> QED BY <1>4, <1>5, <1>6, <1>7

LEMMA ReadCellKeeps == IInv /\ Busy /\ ReadCell /\ UNCHANGED page => IInv'
<1> SUFFICES ASSUME IInv, Busy, ReadCell, UNCHANGED page PROVE IInv'  OBVIOUS
<1>1. Instruction.of \in Nodes  BY DEF ReadCell, Nodes
<1>2. Alike(stack, stack') /\ StackOK(page, stack)  BY GoesOn DEF IInv
<1>3. GraphOK(graph', stack, mounted)  BY <1>1, TrackKeeps DEF ReadCell
<1>4. RestOK' /\ mounted' = mounted  BY DEF ReadCell, IInv, RestOK
<1> QED BY <1>2, <1>3, <1>4, AlikeStack DEF IInv

LEMMA ReadFreshKeeps == IInv /\ Busy /\ ReadFresh /\ UNCHANGED page => IInv'
<1> SUFFICES ASSUME IInv, Busy, ReadFresh, UNCHANGED page PROVE IInv'  OBVIOUS
<1>1. Instruction.of \in Nodes  BY DEF ReadFresh, Nodes
<1>2. Alike(stack, stack') /\ StackOK(page, stack)  BY GoesOn DEF IInv
<1>3. GraphOK(graph', stack, mounted)  BY <1>1, TrackKeeps DEF ReadFresh
<1>4. RestOK' /\ mounted' = mounted  BY DEF ReadFresh, IInv, RestOK
<1> QED BY <1>2, <1>3, <1>4, AlikeStack DEF IInv

LEMMA ReadRecursiveKeeps == IInv /\ Busy /\ ReadRecursive /\ UNCHANGED page => IInv'
<1> SUFFICES ASSUME IInv, Busy, ReadRecursive, UNCHANGED page PROVE IInv'  OBVIOUS
<1> DEFINE n == Instruction.of
<1>1. n \in Nodes  BY DEF ReadRecursive, Nodes
<1>2. Alike(stack, stack') /\ StackOK(page, stack)  BY GoesOn DEF IInv
<1>3. GraphOK(graph', stack, mounted)  BY <1>1, TrackKeeps DEF ReadRecursive
<1>4. RestOK' /\ mounted' = mounted  BY DEF ReadRecursive, IInv, RestOK
<1> QED BY <1>2, <1>3, <1>4, AlikeStack DEF IInv

(* A run starts: its old dependencies wait to be confirmed.                  *)
LEMMA RunStarts ==
  ASSUME NEW p, NEW F, StackOK(p, F), NEW G, NEW there, GraphOK(G, F, there),
         NEW f \in Frames, f.who \notin Running(F), f.who \in Computeds \cup there,
         F # <<>> => Awaits(p, F[Len(F)], f),
         NEW H, (H = Anew(G, f.who) /\ f.old = G.deps[f.who]) \/ H = G
  PROVE  StackOK(p, Append(F, f)) /\ GraphOK(H, Append(F, f), there)
<1> DEFINE I == Append(F, f)
           o == f.who
<1>1. /\ Running(I) = Running(F) \cup {o}
      /\ Unconfirmed(I) = Unconfirmed(F) \cup ({o} \X f.old)
      /\ StackOK(p, I)
  BY Pushed DEF StackOK
<1> HIDE DEF I
<1>2. /\ G \in Graphs /\ BothSides(G, Unconfirmed(F)) /\ UnreadLetGo(G, Running(F))
      /\ StoppedLetGo(G) /\ Alive(G, Running(F), there) /\ o \in Observers
  BY DEF GraphOK, Frames
<1>3. CASE H = G
  <2>1. BothSides(H, Unconfirmed(I))  BY <1>1, <1>2, <1>3 DEF BothSides
  <2>2. UnreadLetGo(H, Running(I)) /\ StoppedLetGo(H) /\ Alive(H, Running(I), there)
    BY <1>1, <1>2, <1>3 DEF UnreadLetGo, StoppedLetGo, Alive
  <2>3. GraphOK(H, I, there)  BY <1>2, <1>3, <2>1, <2>2 DEF GraphOK
  <2> QED BY <1>1, <2>3 DEF I
<1>4. CASE H = Anew(G, o) /\ f.old = G.deps[o]
  <2>1. /\ H \in Graphs /\ H.subs = G.subs /\ H.deps = [G.deps EXCEPT ![o] = {}]
        /\ H.stopped = G.stopped /\ H.queue = G.queue
        /\ G.deps \in [Observers -> SUBSET Nodes]
    BY <1>2, <1>4 DEF Anew, Graphs
  <2>2. BothSides(H, Unconfirmed(I))  BY <1>1, <1>2, <1>4, <2>1 DEF BothSides
  <2>3. UnreadLetGo(H, Running(I)) /\ StoppedLetGo(H)
    BY <1>1, <1>2, <2>1 DEF UnreadLetGo, StoppedLetGo, Observers
  <2>4. Alive(H, Running(I), there)  BY <1>1, <1>2, <2>1 DEF Alive
  <2>5. GraphOK(H, I, there)  BY <2>1, <2>2, <2>3, <2>4 DEF GraphOK
  <2> QED BY <1>1, <2>5 DEF I
<1> QED BY <1>3, <1>4

LEMMA RunIs ==
  ASSUME IInv, NEW o \in Observers, NEW by \in {"run", "access", "mount"}
  PROVE  /\ Run(o, by) \in Frames /\ Run(o, by).who = o /\ Run(o, by).by = by
         /\ Run(o, by).old = graph.deps[o] /\ Run(o, by).consumer = Active
         /\ Run(o, by).phase = "read" /\ Run(o, by).seen = {}
         /\ ~Run(o, by).thrown /\ ~Run(o, by).recursed
<1>1. graph.deps[o] \subseteq Nodes /\ Active \in Observers \cup {Nobody}
  BY ActiveIs DEF IInv, GraphOK, Graphs
<1>2. <<>> \in Traces /\ Nobody \in Answers  BY CodeAssumption DEF Answers
<1> QED BY <1>1, <1>2 DEF Run, Frames

LEMMA ReadDirtyKeeps == IInv /\ Busy /\ ReadDirty /\ UNCHANGED page => IInv'
<1> SUFFICES ASSUME IInv, Busy, ReadDirty, UNCHANGED page PROVE IInv'  OBVIOUS
<1> DEFINE c == Instruction.of
           f == Run(c, "access")
           G == Track(graph, c)
<1>1. /\ c \in Nodes /\ c \in Computeds /\ c \in Observers /\ c \notin Running(stack)
      /\ Instruction.op = "read"
  BY DEF ReadDirty, Nodes, Observers, OnStack, Running
<1>2. GraphOK(G, stack, mounted) /\ StackOK(page, stack)  BY <1>1, TrackKeeps DEF IInv
<1>3. f \in Frames /\ f.who = c /\ f.by = "access" /\ f.old = graph.deps[c]
  BY <1>1, RunIs
<1>4. G.deps[c] = graph.deps[c]
  <2>1. graph \in Graphs  BY DEF IInv, GraphOK
  <2>2. graph.deps \in [Observers -> SUBSET Nodes]  BY <2>1 DEF Graphs
  <2>3. G = graph \/ (Active \in Running(stack) /\ G.deps = [graph.deps EXCEPT ![Active] = @ \cup {c}])
    BY <1>1, <2>1, TrackIs
  <2> QED BY <1>1, <2>2, <2>3
<1>5. stack # <<>> => Awaits(page, stack[Len(stack)], f)
  BY <1>1, <1>3, InstructionIs DEF Awaits, top
<1>6. graph' = Anew(G, c) /\ stack' = Append(stack, f) /\ mounted' = mounted
  BY DEF ReadDirty
<1> HIDE DEF f, G, c
<1>7. StackOK(page, stack') /\ GraphOK(graph', stack', mounted)
  BY <1>1, <1>2, <1>3, <1>4, <1>5, <1>6, RunStarts
<1>8. RestOK'  BY DEF ReadDirty, IInv, RestOK
<1> QED BY <1>6, <1>7, <1>8 DEF IInv

(* More may have been mounted, and less be queued.                           *)
LEMMA StillOK ==
  ASSUME NEW G, NEW F, NEW there, GraphOK(G, F, there), NEW here, there \subseteq here,
         NEW K \in Graphs, K.subs = G.subs, K.deps = G.deps, K.stopped = G.stopped,
         K.queue \subseteq G.queue
  PROVE  GraphOK(K, F, here)
<1>1. /\ BothSides(G, Unconfirmed(F)) /\ UnreadLetGo(G, Running(F)) /\ StoppedLetGo(G)
      /\ Alive(G, Running(F), there)
  BY DEF GraphOK
<1>2. BothSides(K, Unconfirmed(F))  BY <1>1 DEF BothSides
<1>3. UnreadLetGo(K, Running(F)) /\ StoppedLetGo(K)  BY <1>1 DEF UnreadLetGo, StoppedLetGo
<1>4. Alive(K, Running(F), here)  BY <1>1 DEF Alive
<1> QED BY <1>2, <1>3, <1>4 DEF GraphOK

(* An observer that nothing runs yet is mounted and runs for the first time. *)
LEMMA MountStarts ==
  ASSUME IInv, NEW o \in (Watches \cup Doms) \ mounted,
         stack # <<>> => ~top.thrown /\ NextOf(page, top).op = "mount",
         mounted' = mounted \cup {o}, stack' = Append(stack, Run(o, "mount")),
         UNCHANGED graph
  PROVE  StackOK(page, stack') /\ GraphOK(graph', stack', mounted') /\ mounted' \subseteq Watches \cup Doms
<1> DEFINE f == Run(o, "mount")
<1>1. o \in Observers /\ o \notin Computeds /\ mounted \subseteq Watches \cup Doms
  BY NamesAssumption DEF Observers, IInv, RestOK
<1>2. o \notin Running(stack)  BY <1>1 DEF IInv, GraphOK, Alive
<1>3. f \in Frames /\ f.who = o /\ f.by = "mount"  BY <1>1, RunIs
<1>4. GraphOK(graph, stack, mounted') /\ StackOK(page, stack)
  <2>1. graph \in Graphs /\ GraphOK(graph, stack, mounted) /\ StackOK(page, stack)
    BY DEF IInv, GraphOK
  <2> QED BY <2>1, StillOK
<1>5. stack # <<>> => Awaits(page, stack[Len(stack)], f)  BY <1>3 DEF Awaits, top
<1>6. stack' = Append(stack, f)  OBVIOUS
<1> HIDE DEF f
<1>7. StackOK(page, stack') /\ GraphOK(graph, stack', mounted')
  BY <1>2, <1>3, <1>4, <1>5, <1>6, RunStarts
<1> QED BY <1>1, <1>7

LEMMA CreateKeeps == IInv /\ Busy /\ Create /\ UNCHANGED page => IInv'
<1> SUFFICES ASSUME IInv, Busy, Create, UNCHANGED page PROVE IInv'  OBVIOUS
<1> DEFINE o == Instruction.of
<1>1. /\ o \in Doms /\ Instruction.op = "mount" /\ ~top.thrown
      /\ NextOf(page, top).op = "mount"
  BY InstructionIs DEF Create
<1>2. Nobody \in Answers  BY DEF Answers
<1>3. CASE o \in mounted
  <2>1. Alike(stack, stack')  BY <1>1, <1>2, <1>3, ContinueAlike DEF Create
  <2>2. RestOK' /\ mounted' = mounted /\ graph' = graph  BY <1>3 DEF Create, IInv, RestOK
  <2> QED BY <2>1, <2>2, AlikeStack DEF IInv
<1>4. CASE o \notin mounted
  <2>1. /\ mounted' = mounted \cup {o} /\ stack' = Append(stack, Run(o, "mount"))
        /\ UNCHANGED graph
    BY <1>4 DEF Create
  <2>2. o \in (Watches \cup Doms) \ mounted  BY <1>1, <1>4
  <2>3. /\ StackOK(page, stack') /\ GraphOK(graph', stack', mounted')
        /\ mounted' \subseteq Watches \cup Doms
    BY <1>1, <2>1, <2>2, MountStarts
  <2>4. RestOK'  BY <2>3 DEF Create, IInv, RestOK
  <2> QED BY <2>3, <2>4 DEF IInv
<1> QED BY <1>3, <1>4

LEMMA TellOK ==
  ASSUME NEW G, NEW F, NEW there, GraphOK(G, F, there),
         NEW O \in SUBSET Observers, O \subseteq Computeds \cup there,
         NEW R, R \subseteq Computeds \cup there
  PROVE  GraphOK(Tell(G, O, R), F, there)
<1> DEFINE H == Tell(G, O, R)
<1>1. /\ G \in Graphs /\ BothSides(G, Unconfirmed(F)) /\ UnreadLetGo(G, Running(F))
      /\ StoppedLetGo(G) /\ Alive(G, Running(F), there)
  BY DEF GraphOK
<1>2. /\ H \in Graphs /\ BothSides(H, Unconfirmed(F)) /\ UnreadLetGo(H, Running(F))
      /\ StoppedLetGo(H) /\ H.stopped \subseteq G.stopped \cup R
      /\ \A o \in H.queue : o \in G.queue \cup O \cup Computeds \/ \E n \in Nodes : o \in G.subs[n]
      /\ Erodes(G, H, Dirtied(G, O, R))
  BY <1>1, TellKeeps
<1> HIDE DEF H
<1>a. \A n \in Nodes : H.subs[n] \subseteq G.subs[n]  BY <1>2 DEF Erodes
<1>3. Alive(H, Running(F), there)  BY <1>1, <1>2, <1>a DEF Alive
<1> QED BY <1>2, <1>3 DEF GraphOK, H

LEMMA StopOK ==
  ASSUME NEW G, NEW F, NEW there, GraphOK(G, F, there), NEW S \in SUBSET Observers,
         S \subseteq Computeds \cup there
  PROVE  GraphOK(StopAll(G, S), F, there)
<1> DEFINE H == StopAll(G, S)
<1>1. /\ G \in Graphs /\ BothSides(G, Unconfirmed(F)) /\ UnreadLetGo(G, Running(F))
      /\ StoppedLetGo(G) /\ Alive(G, Running(F), there)
  BY DEF GraphOK
<1>2. /\ H \in Graphs /\ BothSides(H, Unconfirmed(F)) /\ UnreadLetGo(H, Running(F))
      /\ StoppedLetGo(H) /\ H.stopped = G.stopped \cup S /\ H.queue = G.queue
      /\ \A n \in Nodes : H.subs[n] \subseteq G.subs[n]
  BY <1>1, StopAllKeeps DEF Erodes
<1> HIDE DEF H
<1>3. Alive(H, Running(F), there)  BY <1>1, <1>2 DEF Alive
<1> QED BY <1>2, <1>3 DEF GraphOK, H

LEMMA AssignOK ==
  ASSUME IInv, NEW s \in Cells, NEW v \in Values, Assign(s, v)
  PROVE  GraphOK(graph', stack, mounted) /\ val' \in [Cells -> Values]
<1>1. GraphOK(graph, stack, mounted) /\ graph \in Graphs /\ val \in [Cells -> Values]
  BY DEF IInv, GraphOK, RestOK
<1>2. val' \in [Cells -> Values]  BY <1>1 DEF Assign
<1>3. CASE v = val[s]  BY <1>1, <1>2, <1>3 DEF Assign
<1>4. CASE v # val[s]
  <2>1. graph' = Tell(graph, graph.subs[s], OnStack)  BY <1>4 DEF Assign
  <2>2. /\ graph.subs[s] \in SUBSET Observers
        /\ graph.subs[s] \subseteq Computeds \cup mounted
        /\ OnStack \subseteq Computeds \cup mounted
    BY <1>1 DEF Graphs, GraphOK, Alive, OnStack, Running, Nodes
  <2> QED BY <1>1, <1>2, <2>1, <2>2, TellOK
<1> QED BY <1>3, <1>4

LEMMA WriteKeeps == IInv /\ Busy /\ Write /\ UNCHANGED page => IInv'
<1> SUFFICES ASSUME IInv, Busy, Write, UNCHANGED page PROVE IInv'  OBVIOUS
<1> DEFINE s == Instruction.of
           v == Instruction.to
<1>1. s \in Cells /\ v \in Values /\ Assign(s, v) /\ mounted' = mounted
  BY InstructionIs DEF Write
<1>2. Alike(stack, stack')  BY GoesOn
<1>3. GraphOK(graph', stack, mounted) /\ val' \in [Cells -> Values]  BY <1>1, AssignOK
<1>4. RestOK'  BY <1>3 DEF Write, IInv, RestOK
<1> QED BY <1>1, <1>2, <1>3, <1>4, AlikeStack DEF IInv

LEMMA DestroyKeeps == IInv /\ Busy /\ Destroy /\ UNCHANGED page => IInv'
<1> SUFFICES ASSUME IInv, Busy, Destroy, UNCHANGED page PROVE IInv'  OBVIOUS
<1> DEFINE S == {Instruction.of} \cap mounted
<1>1. S \in SUBSET Observers /\ S \subseteq Computeds \cup mounted
  BY DEF IInv, RestOK, Observers
<1>2. Alike(stack, stack')  BY GoesOn
<1>3. GraphOK(graph', stack, mounted) /\ mounted' = mounted
  BY <1>1, StopOK DEF Destroy, IInv
<1>4. RestOK'  BY DEF Destroy, IInv, RestOK
<1> QED BY <1>2, <1>3, <1>4, AlikeStack DEF IInv

LEMMA EnterBodyKeeps == IInv /\ Busy /\ EnterBody /\ UNCHANGED page => IInv'
<1> SUFFICES ASSUME IInv, Busy, EnterBody, UNCHANGED page PROVE IInv'  OBVIOUS
<1>1. Alike(stack, stack')  BY GoesOn
<1>2. RestOK' /\ mounted' = mounted /\ graph' = graph  BY DEF EnterBody, IInv, RestOK
<1> QED BY <1>1, <1>2, AlikeStack DEF IInv

(* The end of a run confirms what it read and drops the rest.                *)
LEMMA ForgetIs ==
  ASSUME IInv, Busy
  PROVE  /\ ForgetOld(graph) \in Graphs
         /\ ForgetOld(graph).stopped = graph.stopped /\ ForgetOld(graph).queue = graph.queue
         /\ BothSides(ForgetOld(graph), Unconfirmed(below))
         /\ UnreadLetGo(ForgetOld(graph), Running(stack)) /\ StoppedLetGo(ForgetOld(graph))
         /\ Erodes(graph, ForgetOld(graph), {})
<1> DEFINE w == top.who
           P == {<<w, n>> : n \in top.old \ graph.deps[w]}
           G == graph
           H == Cut(G, P)
           X == Detached(G, P)
<1>1. ForgetOld(graph) = H  BY DEF ForgetOld
<1>2. /\ G \in Graphs /\ BothSides(G, Unconfirmed(stack)) /\ UnreadLetGo(G, Running(stack))
      /\ StoppedLetGo(G)
  BY DEF IInv, GraphOK
<1>3. \A o, n : <<o, n>> \in P <=> o = w /\ n \in top.old \ G.deps[w]  OBVIOUS
<1> HIDE DEF P, G, w
<1>5. /\ H \in Graphs /\ H.stopped = G.stopped /\ H.queue = G.queue
      /\ \A n \in Nodes : H.subs[n] =
           {o \in G.subs[n] : <<o, n>> \notin P /\ ~(o \in X /\ n \in G.deps[o])}
      /\ \A o \in Observers : H.deps[o] =
           IF o \in X THEN {} ELSE {n \in G.deps[o] : <<o, n>> \notin P}
  BY <1>2, CutFields
<1>6. /\ BothSides(H, Unconfirmed(stack)) /\ UnreadLetGo(H, Running(stack))
      /\ StoppedLetGo(H)
  BY <1>2, CutKeeps
<1>7. Erodes(G, H, {})
  <2>1. \A o \in Observers, n \in Nodes :
          <<o, n>> \in P /\ n \in G.deps[o] => o \in {} \cup G.stopped
    BY <1>3
  <2> QED BY <1>2, <2>1, CutErodes
<1> HIDE DEF H, X
<1>8. BothSides(H, Unconfirmed(below))
  <2> SUFFICES ASSUME NEW o \in Observers, NEW n \in Nodes
               PROVE  /\ n \in H.deps[o] => o \in H.subs[n]
                      /\ o \in H.subs[n] => n \in H.deps[o] \/ <<o, n>> \in Unconfirmed(below)
    BY DEF BothSides
  <2>1. /\ n \in H.deps[o] => o \in H.subs[n]
        /\ o \in H.subs[n] => n \in H.deps[o] \/ <<o, n>> \in Unconfirmed(stack)
    BY <1>6 DEF BothSides
  <2>2. /\ o \in H.subs[n] => <<o, n>> \notin P /\ ~(o \in X /\ n \in G.deps[o])
        /\ n \in G.deps[o] /\ o \notin X /\ <<o, n>> \notin P => n \in H.deps[o]
    BY <1>5
  <2>3. <<o, n>> \in Unconfirmed(stack) =>
          <<o, n>> \in Unconfirmed(below) \/ (o = w /\ n \in top.old)
    BY BelowIs DEF w
  <2> QED BY <1>3, <2>1, <2>2, <2>3
<1> QED BY <1>1, <1>5, <1>6, <1>7, <1>8 DEF G

LEMMA EndObserverKeeps == IInv /\ Busy /\ EndObserver /\ UNCHANGED page => IInv'
<1> SUFFICES ASSUME IInv, Busy, EndObserver, UNCHANGED page PROVE IInv'  OBVIOUS
<1> DEFINE H == ForgetOld(graph)
<1>1. /\ top \in Frames /\ top.who \in Watches \cup Doms /\ top.who \notin Computeds
  BY InstructionIs, NamesAssumption DEF EndObserver
<1>2. StackOK(page, below) /\ Running(below) = Running(stack) \ {top.who}
      /\ below \in Seq(Frames) /\ (below # <<>> => Awaits(page, below[Len(below)], top))
  BY BelowIs
<1>3. GraphOK(graph, stack, mounted)  BY DEF IInv
<1>4. GraphOK(H, below, mounted)
  <2>1. /\ H \in Graphs /\ H.stopped = graph.stopped /\ H.queue = graph.queue
        /\ BothSides(H, Unconfirmed(below))
        /\ UnreadLetGo(H, Running(stack)) /\ StoppedLetGo(H)
        /\ Erodes(graph, H, {})
    BY ForgetIs
  <2> HIDE DEF H
  <2>2. UnreadLetGo(H, Running(below))  BY <1>1, <1>2, <2>1 DEF UnreadLetGo
  <2>3. Alive(H, Running(below), mounted)  BY <1>2, <1>3, <2>1 DEF GraphOK, Alive, Erodes
  <2> QED BY <2>1, <2>2, <2>3 DEF GraphOK
<1>5. Alike(below, stack')  BY EndsAbove
<1>6. graph' = H /\ mounted' = mounted  BY DEF EndObserver
<1>7. RestOK'
  <2>1. shown' \in [Watches \cup Doms -> Answers]
    <3>1. shown \in [Watches \cup Doms -> Answers]  BY DEF IInv, RestOK
    <3>2. CASE Fails  BY <3>1, <3>2 DEF EndObserver
    <3>3. CASE ~Fails
      <4>1. Saw \in Answers
        BY <1>1, <3>3, InstructionIs DEF Saw, Result, Frames, EndObserver, Ends, Fails
      <4> QED BY <3>1, <3>3, <4>1 DEF EndObserver
    <3> QED BY <3>2, <3>3
  <2>2. used' \in [Observers -> SUBSET (Nodes \X Answers)]
    BY <1>1 DEF EndObserver, IInv, RestOK, Frames
  <2> QED BY <2>1, <2>2 DEF EndObserver, IInv, RestOK
<1> HIDE DEF H
<1> QED BY <1>2, <1>4, <1>5, <1>6, <1>7, AlikeStack DEF IInv

LEMMA CleanedIs ==
  ASSUME IInv, Busy
  PROVE  /\ Cleaned \in Graphs /\ Cleaned.dirty = ForgetOld(graph).dirty \ {top.who}
         /\ Cleaned.subs = ForgetOld(graph).subs /\ Cleaned.deps = ForgetOld(graph).deps
         /\ Cleaned.stopped = graph.stopped /\ Cleaned.queue = graph.queue
         /\ BothSides(Cleaned, Unconfirmed(below))
         /\ UnreadLetGo(Cleaned, Running(stack)) /\ StoppedLetGo(Cleaned)
<1> DEFINE H == ForgetOld(graph)
<1>1. /\ H \in Graphs /\ H.stopped = graph.stopped /\ H.queue = graph.queue
      /\ BothSides(H, Unconfirmed(below)) /\ UnreadLetGo(H, Running(stack)) /\ StoppedLetGo(H)
  BY ForgetIs
<1>2. Cleaned = [H EXCEPT !.dirty = @ \ {top.who}]  BY DEF Cleaned
<1> HIDE DEF H
<1>3. /\ Cleaned \in Graphs /\ Cleaned.dirty = H.dirty \ {top.who}
      /\ Cleaned.subs = H.subs /\ Cleaned.deps = H.deps
      /\ Cleaned.stopped = H.stopped /\ Cleaned.queue = H.queue
  BY <1>1, <1>2 DEF Graphs
<1>4. BothSides(Cleaned, Unconfirmed(below))  BY <1>1, <1>3 DEF BothSides
<1>5. UnreadLetGo(Cleaned, Running(stack)) /\ StoppedLetGo(Cleaned)
  BY <1>1, <1>3 DEF UnreadLetGo, StoppedLetGo
<1> QED BY <1>1, <1>3, <1>4, <1>5 DEF H

LEMMA LeftWithIs ==
  ASSUME IInv, Busy, top.who \in Computeds
  PROVE  /\ GraphOK(LeftWith, below, mounted)
         /\ Erodes(Cleaned, LeftWith, {top.who})
         /\ LeftWith.stopped = graph.stopped
         /\ LetsGo(Cleaned, top.who) => top.who \in LeftWith.dirty
         /\ ~LetsGo(Cleaned, top.who) => LeftWith = Cleaned
<1> DEFINE c == top.who
           G == Cleaned
           H == LeftWith
           old == Unconfirmed(below)
           R == Running(stack)
           Enough ==
             /\ H \in Graphs /\ BothSides(H, old) /\ UnreadLetGo(H, R) /\ StoppedLetGo(H)
             /\ H.deps[c] = {} \/ H.subs[c] # {}
             /\ H.stopped = graph.stopped /\ H.queue = graph.queue /\ Erodes(G, H, {c})
             /\ LetsGo(G, c) => c \in H.dirty
             /\ ~LetsGo(G, c) => H = G
<1>1. /\ G \in Graphs /\ BothSides(G, old) /\ UnreadLetGo(G, R) /\ StoppedLetGo(G)
      /\ G.stopped = graph.stopped /\ G.queue = graph.queue /\ G.subs = ForgetOld(graph).subs
  BY CleanedIs
<1>2. c \in Observers /\ c \in Computeds  BY DEF Observers
<1>3. ASSUME ~LetsGo(G, c) PROVE Enough
  <2>1. H = G  BY <1>3 DEF LeftWith
  <2>2. G.subs[c] # {}  BY <1>3 DEF LetsGo
  <2>3. Erodes(G, G, {c})  BY DEF Erodes
  <2> HIDE DEF H, G, c, old, R
  <2> QED BY <1>1, <1>3, <2>1, <2>2, <2>3
<1>4. ASSUME LetsGo(G, c) PROVE Enough
  <2> DEFINE K == CleanUp(G, {c})
  <2>1. H = [K EXCEPT !.dirty = @ \cup {c}]  BY <1>4 DEF LeftWith, Detach
  <2> HIDE DEF G
  <2>a. LetsGo(G, c)  BY <1>4 DEF G
  <2>2. {c} \in SUBSET Observers /\ {c} \subseteq {c} \cup G.stopped  BY <1>2
  <2>3. /\ K \in Graphs /\ K.stopped = G.stopped /\ K.queue = G.queue
        /\ BothSides(K, old) /\ UnreadLetGo(K, R) /\ StoppedLetGo(K)
        /\ K.deps[c] = {} /\ Erodes(G, K, {c})
    BY <1>1, <2>2, CleanUpKeeps DEF G
  <2>b. /\ G.stopped = graph.stopped /\ G.queue = graph.queue  BY <1>1 DEF G
  <2> HIDE DEF H, K, c, old, R
  <2>4. /\ H \in Graphs /\ H.subs = K.subs /\ H.deps = K.deps /\ H.stopped = K.stopped
        /\ H.queue = K.queue /\ H.dirty = K.dirty \cup {c}
    BY <1>2, <2>1, <2>3 DEF Graphs
  <2>5. BothSides(H, old) /\ UnreadLetGo(H, R) /\ StoppedLetGo(H)
    BY <2>3, <2>4 DEF BothSides, UnreadLetGo, StoppedLetGo
  <2>6. Erodes(G, H, {c})  BY <2>3, <2>4 DEF Erodes
  <2> QED BY <1>2, <2>a, <2>b, <2>3, <2>4, <2>5, <2>6
<1>5. Enough  BY <1>3, <1>4
<1> HIDE DEF H, G, c, old, R
<1>6. UnreadLetGo(H, Running(below))
  <2>1. Running(below) = R \ {c}  BY BelowIs DEF R, c
  <2> QED BY <1>5, <2>1 DEF UnreadLetGo
<1>7. Alive(H, Running(below), mounted)
  <2>1. /\ Alive(graph, Running(stack), mounted) /\ Running(below) \subseteq Running(stack)
    BY BelowIs DEF IInv, GraphOK
  <2>2. \A n \in Nodes : H.subs[n] \subseteq graph.subs[n]
    BY <1>1, <1>5, ForgetIs DEF Erodes
  <2> QED BY <1>5, <2>1, <2>2 DEF Alive
<1> QED BY <1>5, <1>6, <1>7 DEF GraphOK, H, G, c, old

LEMMA EndComputedIs ==
  ASSUME IInv, Busy, EndComputed
  PROVE  /\ top \in Frames /\ top.who \in Computeds
         /\ \E changed \in Changed(top.who) :
              graph' = IF changed THEN Tell(LeftWith, Dependents(LeftWith, top.who), OnStack)
                       ELSE LeftWith
         /\ Dependents(LeftWith, top.who) \in SUBSET Observers
         /\ Dependents(LeftWith, top.who) \subseteq Computeds \cup mounted
         /\ OnStack = Running(stack) /\ OnStack \subseteq Computeds \cup mounted
<1>1. top \in Frames /\ top.who \in Computeds  BY InstructionIs DEF EndComputed
<1>2. \E changed \in Changed(top.who) :
              graph' = IF changed THEN Tell(LeftWith, Dependents(LeftWith, top.who), OnStack)
                       ELSE LeftWith
  BY DEF EndComputed, LeftWith, Cleaned
<1>3. GraphOK(LeftWith, below, mounted)  BY <1>1, LeftWithIs
<1>4. /\ Dependents(LeftWith, top.who) \in SUBSET Observers
      /\ Dependents(LeftWith, top.who) \subseteq Computeds \cup mounted
  BY <1>1, <1>3 DEF GraphOK, Graphs, Alive, Dependents, Nodes
<1>5. OnStack = Running(stack) /\ OnStack \subseteq Computeds \cup mounted
  BY DEF OnStack, Running, IInv, GraphOK, Alive
<1> QED BY <1>1, <1>2, <1>4, <1>5

LEMMA EndComputedKeeps == IInv /\ Busy /\ EndComputed /\ UNCHANGED page => IInv'
<1> SUFFICES ASSUME IInv, Busy, EndComputed, UNCHANGED page PROVE IInv'  OBVIOUS
<1> DEFINE c == top.who
<1>1. top \in Frames /\ c \in Computeds /\ c \in Nodes /\ c \in Observers
  BY EndComputedIs DEF Nodes, Observers
<1>2. GraphOK(LeftWith, below, mounted)  BY <1>1, LeftWithIs
<1>3. GraphOK(graph', below, mounted)  BY <1>2, EndComputedIs, TellOK
<1>4. StackOK(page, below) /\ below \in Seq(Frames)
      /\ (below # <<>> => Awaits(page, below[Len(below)], top))
  BY BelowIs
<1>5. Fails \/ Result \in Answers  BY InstructionIs DEF EndComputed, Ends, Fails, Result
<1>6. Alike(below, stack')  BY EndsAbove
<1>7. mounted' = mounted  BY DEF EndComputed
<1>8. RestOK'
  <2>1. cache' \in [Computeds -> [has : BOOLEAN, failed : BOOLEAN, value : Answers]]
    <3> DEFINE old == cache[c]
               new == [has |-> TRUE, failed |-> Fails, value |-> IF Fails THEN old.value ELSE Result]
    <3>1. cache \in [Computeds -> [has : BOOLEAN, failed : BOOLEAN, value : Answers]]
      BY DEF IInv, RestOK
    <3>2. cache' = [cache EXCEPT ![c] = new]  BY <1>1, <3>1 DEF EndComputed
    <3>3. old.value \in Answers  BY <1>1, <3>1
    <3>4. Fails \in BOOLEAN  BY DEF Fails
    <3>5. (IF Fails THEN old.value ELSE Result) \in Answers  BY <1>5, <3>3
    <3>6. new \in [has : BOOLEAN, failed : BOOLEAN, value : Answers]  BY <3>4, <3>5
    <3> HIDE DEF new
    <3> QED BY <3>1, <3>2, <3>6
  <2>2. used' \in [Observers -> SUBSET (Nodes \X Answers)]
    BY <1>1 DEF EndComputed, IInv, RestOK, Frames
  <2> QED BY <2>1, <2>2 DEF EndComputed, IInv, RestOK
<1> QED BY <1>3, <1>4, <1>6, <1>7, <1>8, AlikeStack DEF IInv

-----------------------------------------------------------------------------
(* The steps taken when nothing runs.                                        *)

LEMMA EmptyStack ==
  ASSUME IInv, ~Busy
  PROVE  stack = <<>> /\ StackOK(page, <<>>) /\ Running(stack) = {} /\ Unconfirmed(stack) = {}
         /\ \A f : Append(stack, f) = <<f>>
BY DEF Busy, StackOK, Distinct, Waits, Running, Unconfirmed

LEMMA TurnKeeps ==
  ASSUME IInv, NEW s \in Cells, NEW v \in Values, Turn(s, v), UNCHANGED page
  PROVE  IInv'
<1>1. GraphOK(graph', stack, mounted) /\ val' \in [Cells -> Values]  BY AssignOK DEF Turn
<1>2. stack' = stack /\ mounted' = mounted  BY DEF Turn
<1>3. RestOK'  BY <1>1 DEF Turn, IInv, RestOK
<1> QED BY <1>1, <1>2, <1>3 DEF IInv

(* A run that starts the stack.                                              *)
LEMMA FirstRun ==
  ASSUME IInv, ~Busy, NEW G, GraphOK(G, stack, mounted), NEW o \in Observers,
         o \in Computeds \cup mounted, G.deps = graph.deps,
         NEW by \in {"run", "access", "mount"}, stack' = <<Run(o, by)>>, graph' = Anew(G, o),
         UNCHANGED page
  PROVE  StackOK(page, stack') /\ GraphOK(graph', stack', mounted)
<1> DEFINE f == Run(o, by)
<1>1. f \in Frames /\ f.who = o /\ f.old = G.deps[f.who]  BY RunIs
<1>2. stack' = Append(stack, f) /\ stack = <<>> /\ o \notin Running(stack) /\ StackOK(page, stack)
  BY EmptyStack DEF IInv
<1> HIDE DEF f
<1>3. graph' = Anew(G, f.who)  BY <1>1
<1> QED BY <1>1, <1>2, <1>3, RunStarts

LEMMA PeekKeeps ==
  ASSUME IInv, NEW c \in Computeds, Peek(c), UNCHANGED page
  PROVE  IInv'
<1>1. ~Busy /\ c \in Observers /\ GraphOK(graph, stack, mounted)
  BY DEF Peek, Idle, Observers, IInv
<1>2. StackOK(page, stack') /\ GraphOK(graph', stack', mounted)
  BY <1>1, FirstRun DEF Peek
<1>3. RestOK' /\ mounted' = mounted  BY DEF Peek, IInv, RestOK
<1> QED BY <1>2, <1>3 DEF IInv

LEMMA MountKeeps ==
  ASSUME IInv, NEW o \in Watches \cup Doms, Mount(o), UNCHANGED page
  PROVE  IInv'
<1>1. /\ o \in (Watches \cup Doms) \ mounted /\ ~Busy /\ mounted' = mounted \cup {o}
      /\ UNCHANGED graph /\ stack = <<>> /\ stack' = Append(stack, Run(o, "mount"))
  BY EmptyStack DEF Mount, Idle
<1>2. /\ StackOK(page, stack') /\ GraphOK(graph', stack', mounted')
      /\ mounted' \subseteq Watches \cup Doms
  BY <1>1, MountStarts
<1>3. RestOK'  BY <1>2 DEF Mount, IInv, RestOK
<1> QED BY <1>2, <1>3 DEF IInv

LEMMA StopKeeps ==
  ASSUME IInv, NEW o \in Watches \cup Doms, Stop(o), UNCHANGED page
  PROVE  IInv'
<1>1. {o} \in SUBSET Observers /\ {o} \subseteq Computeds \cup mounted
  BY DEF Stop, Observers
<1>2. GraphOK(graph', stack, mounted)  BY <1>1, StopOK DEF Stop, IInv
<1>3. RestOK' /\ stack' = stack /\ mounted' = mounted  BY DEF Stop, IInv, RestOK
<1> QED BY <1>2, <1>3 DEF IInv

LEMMA StepQueuedKeeps ==
  ASSUME IInv, ~Busy, NEW o \in graph.queue, StepQueued(o), UNCHANGED <<page, mounted>>
  PROVE  StackOK(page, stack') /\ GraphOK(graph', stack', mounted')
<1> DEFINE G == [graph EXCEPT !.queue = @ \ {o}]
<1>1. /\ GraphOK(graph, stack, mounted) /\ graph \in Graphs /\ o \in Observers
      /\ o \in Computeds \cup mounted
  BY DEF IInv, GraphOK, Graphs, Alive
<1>2. /\ G \in Graphs /\ G.subs = graph.subs /\ G.deps = graph.deps
      /\ G.stopped = graph.stopped /\ G.queue \subseteq graph.queue
  BY <1>1 DEF Graphs
<1>3. graph' = (IF Owes(o) THEN Anew(G, o) ELSE G) /\ stack' = IF Owes(o) THEN <<Run(o, "run")>> ELSE <<>>
  BY DEF StepQueued
<1> HIDE DEF G
<1>4. GraphOK(G, stack, mounted)  BY <1>1, <1>2, StillOK
<1>5. CASE Owes(o)  BY <1>1, <1>2, <1>3, <1>4, <1>5, FirstRun
<1>6. CASE ~Owes(o)  BY <1>3, <1>4, <1>6, EmptyStack
<1> QED BY <1>5, <1>6

LEMMA StartFlushKeeps == IInv /\ StartFlush => IInv'
<1> SUFFICES ASSUME IInv, StartFlush PROVE IInv'  OBVIOUS
<1>1. /\ graph' \in Graphs /\ graph'.subs = graph.subs /\ graph'.deps = graph.deps
      /\ graph'.stopped = graph.stopped /\ graph'.queue \subseteq graph.queue
  BY DEF StartFlush, IInv, GraphOK, Graphs
<1>2. GraphOK(graph', stack, mounted)  BY <1>1, StillOK DEF IInv
<1>3. RestOK' /\ stack' = stack /\ mounted' = mounted /\ page' = page
  BY DEF StartFlush, Enter, IInv, RestOK
<1> QED BY <1>2, <1>3 DEF IInv

LEMMA FlushKeeps == IInv /\ Flush => IInv'
<1> SUFFICES ASSUME IInv, Flush PROVE IInv'  OBVIOUS
<1>1. page' = page /\ RestOK  BY DEF Flush, IInv
<1>2. ASSUME BeginWatches \/ EndPass \/ EndDoms PROVE IInv'
  <2> DEFINE Flushes == [phase : {"rest", "derive", "watch", "dom"}, pass : SUBSET Watches, ran : BOOLEAN]
  <2>1. /\ UNCHANGED <<val, cache, shown, used, drawn>>
        /\ stack' = stack /\ mounted' = mounted /\ graph' = graph
    BY <1>2 DEF BeginWatches, EndPass, EndDoms
  <2>2. flush \in Flushes  BY <1>1 DEF RestOK
  <2>3. flush' \in Flushes
    <3>1. CASE BeginWatches  BY <3>1 DEF BeginWatches, Queued
    <3>2. CASE EndPass  BY <2>2, <3>2 DEF EndPass, Enter
    <3>3. CASE EndDoms  BY <2>2, <3>3 DEF EndDoms, Enter
    <3> QED BY <1>2, <3>1, <3>2, <3>3
  <2>4. RestOK'  BY <1>1, <2>1, <2>3 DEF RestOK
  <2> QED BY <1>1, <2>1, <2>4 DEF IInv
<1>3. ASSUME NEW c \in Computeds, StepComputed(c) PROVE IInv'
  <2>1. ~Busy /\ c \in graph.queue /\ StepQueued(c) /\ mounted' = mounted
    BY <1>3 DEF StepComputed, Queued
  <2>2. RestOK'  BY <1>1, <1>3 DEF StepComputed, RestOK
  <2> QED BY <1>1, <2>1, <2>2, StepQueuedKeeps DEF IInv
<1>4. ASSUME NEW o \in Doms, StepDom(o) PROVE IInv'
  <2>1. ~Busy /\ o \in graph.queue /\ StepQueued(o) /\ mounted' = mounted
    BY <1>4 DEF StepDom, Queued
  <2>2. RestOK'  BY <1>1, <1>4 DEF StepDom, RestOK
  <2> QED BY <1>1, <2>1, <2>2, StepQueuedKeeps DEF IInv
<1>5. ASSUME StepWatch PROVE IInv'
  <2> DEFINE w == First(flush.pass)
  <2>1. ~Busy /\ mounted' = mounted  BY <1>5 DEF StepWatch
  <2>2. RestOK'
    <3>1. \/ flush' = [flush EXCEPT !.pass = @ \ {w}]
          \/ flush' = [flush EXCEPT !.pass = @ \ {w}, !.ran = TRUE]
      BY <1>5 DEF StepWatch
    <3>2. flush' \in [phase : {"rest", "derive", "watch", "dom"}, pass : SUBSET Watches, ran : BOOLEAN]
      BY <1>1, <3>1 DEF RestOK
    <3>3. UNCHANGED <<val, cache, shown, mounted, used, drawn>>  BY <1>5 DEF StepWatch
    <3> QED BY <1>1, <3>2, <3>3 DEF RestOK
  <2>3. CASE w \in graph.stopped \/ w \notin graph.queue
    BY <1>1, <1>5, <2>1, <2>2, <2>3 DEF StepWatch, IInv
  <2>4. CASE w \in graph.queue /\ w \notin graph.stopped
    <3>1. StepQueued(w)  BY <1>5, <2>4 DEF StepWatch
    <3> HIDE DEF w
    <3> QED BY <1>1, <2>1, <2>2, <2>4, <3>1, StepQueuedKeeps DEF IInv
  <2> QED BY <2>3, <2>4
<1> QED BY <1>2, <1>3, <1>4, <1>5 DEF Flush

LEMMA StartsOK == Init => IInv
<1> SUFFICES ASSUME Init PROVE IInv  OBVIOUS
<1>1. RestOK  BY MaxSelfAssumption DEF Init, RestOK, Answers
<1>2. stack = <<>> /\ StackOK(page, stack)  BY DEF Init, StackOK, Distinct, Waits
<1>3. graph \in Graphs  BY MaxSelfAssumption DEF Init, Graphs, Observers
<1>4. GraphOK(graph, stack, mounted)
  BY <1>3 DEF Init, GraphOK, BothSides, UnreadLetGo, StoppedLetGo, Alive, Running, Observers, Nodes
<1> QED BY <1>1, <1>2, <1>4 DEF IInv

LEMMA Inductive == IInv /\ [Next]_vars => IInv'
<1> SUFFICES ASSUME IInv, [Next]_vars PROVE IInv'  OBVIOUS
<1>1. CASE Step
  BY <1>1, ReadCellKeeps, ReadFreshKeeps, ReadDirtyKeeps, ReadRecursiveKeeps, WriteKeeps,
     CreateKeeps, DestroyKeeps, EndComputedKeeps, EnterBodyKeeps, EndObserverKeeps DEF Step
<1>2. CASE StartFlush \/ Flush  BY <1>2, StartFlushKeeps, FlushKeeps
<1>3. CASE Outside  BY <1>3, TurnKeeps, PeekKeeps, MountKeeps, StopKeeps DEF Outside
<1>4. CASE UNCHANGED vars  BY <1>4 DEF vars, IInv, RestOK
<1> QED BY <1>1, <1>2, <1>3, <1>4 DEF Next

LEMMA Invariance == Spec => []IInv
BY StartsOK, Inductive, PTL DEF Spec

-----------------------------------------------------------------------------
(* What follows from the invariant.                                          *)

(* The variables keep their types, whatever the page and its code.           *)
THEOREM TypesKept == Spec => []TypeOK
<1>1. IInv => TypeOK  BY DEF IInv, RestOK, StackOK, GraphOK, TypeOK
<1> QED BY <1>1, Invariance, PTL

(* Once no run is under way, whoever subscribes is subscribed to (graph.js's *)
(* subscribers and dependencies agree), and neither a stopped observer nor a *)
(* computed without subscribers holds a subscription: nothing leaks.         *)
THEOREM NothingLeaks == Spec => []SubscriptionsMatch
<1>1. IInv => SubscriptionsMatch
  <2> SUFFICES ASSUME IInv, ~Busy PROVE SubscriptionsMatch  BY DEF SubscriptionsMatch
  <2>1. /\ BothSides(graph, {}) /\ UnreadLetGo(graph, {}) /\ StoppedLetGo(graph)
    BY EmptyStack DEF IInv, GraphOK
  <2>2. \A o \in Observers, n \in Nodes : o \in graph.subs[n] <=> n \in graph.deps[o]
    BY <2>1 DEF BothSides
  <2>3. \A o \in Observers :
         o \in graph.stopped \/ (o \in Computeds /\ graph.subs[o] = {})
           => graph.deps[o] = {}
    BY <2>1 DEF UnreadLetGo, StoppedLetGo
  <2> QED BY <2>2, <2>3 DEF SubscriptionsMatch
<1> QED BY <1>1, Invariance, PTL

(* A run that starts is not that of a stopped observer.                      *)
LEMMA OnlyLiveStart ==
  IInv /\ [Next]_vars =>
    \A i \in DOMAIN stack' : i > Len(stack) => stack'[i].who \notin graph.stopped
<1> SUFFICES ASSUME IInv, [Next]_vars, NEW i \in DOMAIN stack', i > Len(stack)
             PROVE  stack'[i].who \notin graph.stopped
  OBVIOUS
<1>1. IInv' /\ stack \in Seq(Frames) /\ stack' \in Seq(Frames)
  BY Inductive DEF IInv, StackOK
<1>2. Len(stack) \in Nat /\ Len(stack') \in Nat /\ i \in 1 .. Len(stack')  BY <1>1
<1>3. Len(stack') > Len(stack)  BY <1>2
<1>4. ASSUME NEW o \in Observers \ graph.stopped, NEW by \in {"run", "access", "mount"},
             stack' = Append(stack, Run(o, by))
      PROVE  stack'[i].who \notin graph.stopped
  <2> DEFINE f == Run(o, by)
  <2>1. f \in Frames /\ f.who = o  BY RunIs
  <2>2. stack' = Append(stack, f)  BY <1>4
  <2> HIDE DEF f
  <2>3. i = Len(stack) + 1 /\ stack'[i] = f  BY <1>1, <1>2, <2>1, <2>2
  <2> QED BY <2>1, <2>3
<1>5. ASSUME Alike(stack, stack') \/ stack' = stack \/ Alike(below, stack') \/ stack' = below, Busy
      PROVE  FALSE
  <2>1. Len(below) = Len(stack) - 1  BY <1>5, BelowIs
  <2> QED BY <1>2, <1>3, <1>5, <2>1 DEF Alike
<1>6. \A o \in (Watches \cup Doms) \ mounted : o \in Observers \ graph.stopped
  BY NamesAssumption DEF IInv, GraphOK, Alive, Observers
<1>7. ~Busy => \A f : Append(stack, f) = <<f>>  BY EmptyStack
<1>8. CASE Step
  <2>1. Busy /\ stack # <<>>  BY <1>8 DEF Step, Busy
  <2>2. CASE ReadDirty  BY <1>4, <2>2 DEF ReadDirty, Fresh, Observers
  <2>3. CASE Create
    <3>1. Instruction.of \in Doms /\ Nobody \in Answers
      BY <2>1, <2>3, InstructionIs DEF Create, Answers
    <3>2. CASE Instruction.of \in mounted
      <4>1. Alike(stack, stack')  BY <2>1, <2>3, <3>1, <3>2, ContinueAlike DEF Create
      <4> QED BY <1>5, <2>1, <4>1
    <3>3. CASE Instruction.of \notin mounted  BY <1>4, <1>6, <2>3, <3>1, <3>3 DEF Create
    <3> QED BY <3>2, <3>3
  <2>4. CASE ReadCell \/ ReadFresh \/ Write \/ Destroy \/ EnterBody \/ ReadRecursive
    BY <1>5, <2>1, <2>4, GoesOn
  <2>5. CASE EndComputed \/ EndObserver  BY <1>5, <2>1, <2>5, EndsAbove
  <2> QED BY <1>8, <2>2, <2>3, <2>4, <2>5 DEF Step
<1>9. ASSUME ~Busy, stack' # stack PROVE \E o \in Observers \ graph.stopped,
        by \in {"run", "access", "mount"} : stack' = Append(stack, Run(o, by))
  <2>1. stack = <<>> /\ ~Step /\ ~StartFlush  BY <1>9, EmptyStack DEF Step, StartFlush
  <2>2. ASSUME NEW o \in Observers, StepQueued(o)
        PROVE  o \in Observers \ graph.stopped /\ stack' = Append(stack, Run(o, "run"))
    <3>1. Owes(o)  BY <1>9, <2>1, <2>2 DEF StepQueued
    <3> QED BY <1>7, <1>9, <2>2, <3>1 DEF StepQueued, Owes
  <2>3. CASE Flush
    <3>1. \E o \in Observers : StepQueued(o)
      <4>1. \A w \in graph.queue : w \in Observers  BY DEF IInv, GraphOK, Graphs
      <4>2. CASE StepWatch  BY <1>9, <4>1, <4>2 DEF StepWatch
      <4>3. ~BeginWatches /\ ~EndPass /\ ~EndDoms
        BY <1>9 DEF BeginWatches, EndPass, EndDoms
      <4> QED BY <2>3, <4>2, <4>3 DEF Flush, StepComputed, StepDom, Observers
    <3> QED BY <2>2, <3>1
  <2>4. CASE Outside
    <3>1. ASSUME NEW c \in Computeds, Peek(c)
          PROVE  c \in Observers \ graph.stopped /\ stack' = Append(stack, Run(c, "access"))
      BY <1>7, <1>9, <3>1 DEF Peek, Fresh, Observers
    <3>2. ASSUME NEW o \in Watches \cup Doms, Mount(o)
          PROVE  o \in Observers \ graph.stopped /\ stack' = Append(stack, Run(o, "mount"))
      BY <1>6, <1>7, <1>9, <3>2 DEF Mount
    <3>3. \A o : ~Stop(o)  BY <1>9 DEF Stop
    <3>4. \A s, v : ~Turn(s, v)  BY <1>9 DEF Turn
    <3> QED BY <2>4, <3>1, <3>2, <3>3, <3>4 DEF Outside
  <2> QED BY <1>9, <2>1, <2>3, <2>4 DEF Next, vars
<1>10. stack' # stack  BY <1>3, <1>2
<1>11. ~Step /\ Busy => FALSE
  BY <1>10 DEF Next, vars, StartFlush, Flush, Outside, Idle, StepComputed, BeginWatches,
     StepWatch, EndPass, StepDom, EndDoms, Turn, Peek, Mount, Stop
<1> QED BY <1>4, <1>8, <1>9, <1>10, <1>11

(* A stopped observer's code never starts again, whatever was queued, told   *)
(* or read when it was stopped.                                              *)
THEOREM StoppedNeverRun == Spec => StoppedStaysQuiet
<1>1. IInv /\ [Next]_vars =>
        [\A i \in DOMAIN stack' : i > Len(stack) => stack'[i].who \notin graph.stopped]_vars
  BY OnlyLiveStart
<1> QED BY <1>1, Invariance, PTL DEF StoppedStaysQuiet, Spec
-----------------------------------------------------------------------------
(* A clean computed is current, if derivations are pure.                     *)

(* A clean computed stays good while none of what it reads is told.  K is G, *)
(* or G with one that ends no longer dirty.                                  *)
LEMMA GoodStays ==
  ASSUME NEW G \in Graphs, NEW K, NEW H \in Graphs, NEW D, Erodes(K, H, D),
         K.dirty \subseteq G.dirty, K.deps = G.deps, K.stopped = G.stopped,
         NEW V, NEW W, NEW C, NEW E,
         NEW x \in Computeds, x \notin D \cup H.dirty \cup H.stopped,
         NEW r, Good(x, r, G, V, C), E[x].failed = C[x].failed,
         \A n \in G.deps[x] \cap Kept(G, C) :
           /\ n \notin D \/ n \in G.stopped
           /\ Holds(W, E, n) = Holds(V, C, n)
           /\ n \in Cells \cup G.stopped \/ E[n].failed = C[n].failed
  PROVE  Good(x, r, H, W, E)
<1>1. x \in Observers /\ H.deps[x] = G.deps[x] /\ G.stopped \subseteq H.stopped
      /\ G.deps[x] \subseteq Nodes
  BY DEF Erodes, Observers, Graphs
<1>2. \A n \in G.deps[x] : n \in Kept(G, C) => n \in Kept(H, E)
  BY <1>1 DEF Erodes, Kept, Nodes
<1>3. Sure(r, x, H, W, E)  BY <1>1, <1>2 DEF Good, Sure
<1>4. ~E[x].failed => H.deps[x] \subseteq Kept(H, E)  BY <1>1, <1>2 DEF Good
<1> QED BY <1>3, <1>4 DEF Good

(* So does what a run has read, while the runs above it go on and end.       *)
LEMMA BackedStays ==
  ASSUME NEW G \in Graphs, NEW K, NEW H \in Graphs, NEW D, Erodes(K, H, D),
         K.dirty \subseteq G.dirty, K.deps = G.deps, K.stopped = G.stopped,
         NEW V, NEW W, NEW C, NEW E,
         NEW o \in Observers, NEW r, NEW S, NEW S2, S2 \subseteq S, Backed(o, r, S, G, V, C),
         H.deps[o] = G.deps[o],
         \A T : Apart(T, S, G) => T \cap D = {},
         \A n \in Nodes \ S : Holds(W, E, n) = Holds(V, C, n)
                              /\ (n \in Computeds => E[n].failed = C[n].failed)
  PROVE  Backed(o, r, S2, H, W, E)
<1>1. PICK T : Apart(T, S, G) /\ Within(r, T) /\ Sure(r, o, G, V, C)  BY DEF Backed
<1>2. T \cap D = {} /\ G.stopped \subseteq H.stopped /\ G.deps[o] \subseteq Nodes
  BY <1>1 DEF Erodes, Graphs
<1> DEFINE T2 == T \ (H.dirty \ H.stopped)
<1>3. T \subseteq Nodes /\ T \cap S = {} /\ T \cap G.dirty \subseteq G.stopped
      /\ \A x \in T \cap Computeds : G.deps[x] \subseteq T
  BY <1>1 DEF Apart
<1>4. ASSUME NEW a \in Observers, NEW n \in T, n \in H.deps[a] PROVE n \in T2
  <2>1. CASE n \notin H.dirty  BY <2>1
  <2>2. CASE n \in H.dirty /\ n \in G.dirty  BY <1>2, <1>3, <2>2
  <2>3. CASE n \in H.dirty \ G.dirty
    <3>1. n \in Computeds  BY <2>3 DEF Graphs
    <3> QED BY <1>2, <1>4, <2>3, <3>1 DEF Erodes
  <2> QED BY <2>1, <2>2, <2>3
<1>5. Apart(T2, S2, H)
  <2>1. ASSUME NEW x \in T2 \cap Computeds PROVE H.deps[x] \subseteq T2
    <3>1. x \in Observers /\ G.deps[x] \subseteq T /\ H.deps[x] \subseteq G.deps[x]
      BY <1>3 DEF Observers, Erodes
    <3> QED BY <1>4, <3>1
  <2> QED BY <1>3, <2>1 DEF Apart
<1>6. \A p \in r : /\ p[1] \in G.deps[o] /\ p[1] \in T /\ p[1] \in Kept(G, C)
                   /\ p[2] = Holds(V, C, p[1])
  BY <1>1 DEF Sure, Within
<1>7. Within(r, T2)  BY <1>4, <1>6 DEF Within
<1>8. Sure(r, o, H, W, E)
  <2> SUFFICES ASSUME NEW p \in r
               PROVE  p[1] \in H.deps[o] \cap Kept(H, E) /\ p[2] = Holds(W, E, p[1])
    BY DEF Sure
  <2> DEFINE n == p[1]
  <2>1. n \in T2 /\ n \in G.deps[o] /\ n \in Kept(G, C) /\ n \in Nodes \ S
    BY <1>3, <1>6, <1>7 DEF Within
  <2>2. n \in Kept(H, E)  BY <1>2, <2>1 DEF Kept, Nodes
  <2> QED BY <1>6, <2>1, <2>2
<1> QED BY <1>5, <1>7, <1>8 DEF Backed

(* Nor does reading, or starting a run, of what is not apart disturb it.     *)
LEMMA BackedSame ==
  ASSUME NEW G \in Graphs, NEW H \in Graphs, NEW V, NEW C, NEW o \in Observers, NEW r,
         NEW S, NEW S2, Backed(o, r, S, G, V, C), S2 \cap Nodes \subseteq S \cup (G.dirty \ G.stopped),
         H.dirty = G.dirty, H.stopped = G.stopped, G.deps[o] \subseteq H.deps[o],
         \A x \in Computeds \ (S \cup (G.dirty \ G.stopped)) : H.deps[x] = G.deps[x]
  PROVE  Backed(o, r, S2, H, V, C)
<1>1. PICK T : Apart(T, S, G) /\ Within(r, T) /\ Sure(r, o, G, V, C)  BY DEF Backed
<1>2. Apart(T, S2, H)  BY <1>1 DEF Apart
<1>3. Sure(r, o, H, V, C)  BY <1>1 DEF Sure, Kept
<1> QED BY <1>1, <1>2, <1>3 DEF Backed

(* What is kept is apart from every run of a computed that is not stopped.   *)
LEMMA KeptIsApart ==
  ASSUME NEW G \in Graphs, StoppedLetGo(G), NEW V, NEW C, NEW U, CleanOK(G, V, C, U),
         NEW S, S \cap Cells = {}, S \subseteq G.dirty \ G.stopped
  PROVE  Apart(Kept(G, C) \cap Nodes, S, G)
<1> DEFINE T == Kept(G, C) \cap Nodes
<1>1. ASSUME NEW x \in T \cap Computeds PROVE G.deps[x] \subseteq T
  <2>1. x \in Observers /\ x \notin Cells /\ G.deps[x] \subseteq Nodes
    BY NamesAssumption DEF Observers, Graphs
  <2>2. CASE x \in G.stopped  BY <2>2 DEF StoppedLetGo
  <2>3. CASE x \notin G.stopped  BY <2>1, <2>3 DEF Kept, CleanOK, Good
  <2> QED BY <2>2, <2>3
<1>2. G.dirty \cap Cells = {}  BY NamesAssumption DEF Graphs, Observers
<1> QED BY <1>1, <1>2 DEF Apart, Kept

LEMMA SureIsBacked ==
  ASSUME NEW G \in Graphs, StoppedLetGo(G), NEW V, NEW C, NEW U, CleanOK(G, V, C, U),
         NEW o \in Observers, NEW r, Sure(r, o, G, V, C),
         NEW S, S \cap Cells = {}, S \subseteq G.dirty \ G.stopped
  PROVE  Backed(o, r, S, G, V, C)
<1>1. Apart(Kept(G, C) \cap Nodes, S, G)  BY KeptIsApart
<1>2. Within(r, Kept(G, C) \cap Nodes)
  <2>1. G.deps[o] \subseteq Nodes  BY DEF Graphs
  <2> QED BY <2>1 DEF Within, Sure
<1> QED BY <1>1, <1>2 DEF Backed

LEMMA NoneDeriving ==
  ASSUME IInv, DerivingOK(stack, graph), Busy => top.who \notin Computeds
  PROVE  Running(stack) \cap Computeds = {}
<1>1. stack \in Seq(Frames) /\ Len(stack) \in Nat /\ DOMAIN stack = 1 .. Len(stack)
  BY DEF IInv, StackOK
<1>2. ASSUME NEW i \in 1 .. Len(stack), stack[i].who \in Computeds PROVE FALSE
  <2>1. Busy /\ Len(stack) \in i .. Len(stack)  BY <1>1, <1>2 DEF Busy
  <2> QED BY <1>2, <2>1 DEF DerivingOK, top
<1> QED BY <1>1, <1>2 DEF Running

LEMMA QuietFrames ==
  ASSUME NEW F \in Seq(Frames), Running(F) \cap Computeds = {}, NEW G, NEW V, NEW C
  PROVE  DerivingOK(F, G) /\ FramesOK(F, G, V, C)
<1>1. \A i \in 1 .. Len(F) : F[i].who \notin Computeds  BY DEF Running
<1> QED BY <1>1 DEF DerivingOK, FramesOK

LEMMA CleanSame ==
  ASSUME NEW G, NEW H, NEW V, NEW C, NEW U, NEW U2, CleanOK(G, V, C, U),
         H.dirty = G.dirty, H.stopped = G.stopped,
         \A x \in Computeds \ (G.dirty \cup G.stopped) : H.deps[x] = G.deps[x] /\ U2[x] = U[x]
  PROVE  CleanOK(H, V, C, U2)
<1>1. Kept(H, C) = Kept(G, C)  BY DEF Kept
<1> QED BY <1>1 DEF CleanOK, Good, Sure

LEMMA CleanErodes ==
  ASSUME NEW G \in Graphs, NEW H \in Graphs, NEW D, Erodes(G, H, D),
         NEW V, NEW W, NEW C, NEW U, CleanOK(G, V, C, U),
         \A x \in Computeds \ (H.dirty \cup H.stopped) :
           /\ x \notin D /\ G.deps[x] \cap D = {}
           /\ \A n \in G.deps[x] : Holds(W, C, n) = Holds(V, C, n)
  PROVE  CleanOK(H, W, C, U)
<1> SUFFICES ASSUME NEW x \in Computeds \ (H.dirty \cup H.stopped) PROVE Good(x, U[x], H, W, C)
  BY DEF CleanOK
<1>1. Good(x, U[x], G, V, C) /\ x \notin D \cup H.dirty \cup H.stopped
  BY DEF Erodes, CleanOK
<1>2. \A n \in G.deps[x] : n \notin D /\ Holds(W, C, n) = Holds(V, C, n)
                           /\ (n \in Cells \cup G.stopped \/ C[n].failed = C[n].failed)
  OBVIOUS
<1> QED BY <1>1, <1>2, GoodStays

(* What is told makes dirty all that subscribe to it and are not running.    *)
LEMMA TellReaches ==
  ASSUME NEW G \in Graphs, NEW O \in SUBSET Observers, NEW R, NEW old, NEW running,
         BothSides(G, old), UnreadLetGo(G, running), StoppedLetGo(G),
         NEW x \in Computeds \ R, x \notin Tell(G, O, R).dirty \cup Tell(G, O, R).stopped
  PROVE  /\ x \notin G.dirty \cup G.stopped /\ x \notin O \cup Dirtied(G, O, R)
         /\ G.deps[x] \cap Dirtied(G, O, R) = {}
<1> DEFINE D == Dirtied(G, O, R)
           H == Tell(G, O, R)
<1>1. Erodes(G, H, D) /\ D \subseteq H.dirty  BY TellKeeps
<1>2. /\ D \subseteq Computeds
      /\ \A c \in Computeds : (c \in O \/ \E d \in D : c \in G.subs[d])
           /\ c \notin G.stopped \cup G.dirty \cup R => c \in D
  BY DirtiedIs
<1> HIDE DEF D, H
<1>3. x \notin G.dirty \cup G.stopped  BY <1>1 DEF Erodes, H
<1>4. \A n \in Computeds : n \in G.deps[x] => x \in G.subs[n]
  BY DEF BothSides, Nodes, Observers
<1> QED BY <1>1, <1>2, <1>3, <1>4 DEF D, H

(* What the end of a computed tells: it marks D, whoever subscribes to it    *)
(* and is not running unless its answer is as before, and what subscribes    *)
(* to what is marked.                                                        *)
LEMMA EndTold ==
  ASSUME IInv, Busy, EndComputed
  PROVE  \E D :
    /\ Erodes(LeftWith, graph', D) /\ D \subseteq graph'.dirty
    /\ D \cap (LeftWith.dirty \cup LeftWith.stopped) = {}
    /\ \A x \in Computeds \ (Running(stack) \cup graph'.dirty \cup graph'.stopped) :
         /\ x \notin D /\ LeftWith.deps[x] \cap D = {}
         /\ x \in LeftWith.subs[top.who] /\ x # top.consumer =>
              /\ cache'[top.who].value = cache[top.who].value
              /\ cache'[top.who].failed = cache[top.who].failed
    /\ \A T : (\A c \in (Computeds \cap T) \ (LeftWith.dirty \cup LeftWith.stopped) :
                 /\ c \notin LeftWith.subs[top.who]
                 /\ \A d \in Computeds \ T : c \notin LeftWith.subs[d])
              => D \cap T = {}
<1> DEFINE L == LeftWith
           w == top.who
           O == Dependents(L, w)
           R == OnStack
           H == graph'
           D == Dirtied(L, O, R)
<1>1. /\ w \in Computeds /\ O \in SUBSET Observers /\ R = Running(stack)
      /\ \E changed \in Changed(w) : H = IF changed THEN Tell(L, O, R) ELSE L
  BY EndComputedIs
<1>2. /\ L \in Graphs /\ BothSides(L, Unconfirmed(below)) /\ UnreadLetGo(L, Running(below))
      /\ StoppedLetGo(L)
  BY <1>1, LeftWithIs DEF GraphOK
<1>3. CASE H = Tell(L, O, R)
  <2>1. Erodes(L, H, D) /\ D \subseteq H.dirty  BY <1>1, <1>2, <1>3, TellKeeps
  <2>2. D \cap (L.dirty \cup L.stopped) = {}  BY DirtiedIs
  <2>3. ASSUME NEW x \in Computeds \ (Running(stack) \cup H.dirty \cup H.stopped)
        PROVE  x \notin O \cup D /\ L.deps[x] \cap D = {}
    <3>1. x \in Computeds \ R /\ x \notin Tell(L, O, R).dirty \cup Tell(L, O, R).stopped
      BY <1>1, <1>3
    <3>2. O \in SUBSET Observers  BY <1>1
    <3> HIDE DEF L, D, H, O, R
    <3>3. \A c \in Computeds \ R : c \notin Tell(L, O, R).dirty \cup Tell(L, O, R).stopped =>
            c \notin O \cup Dirtied(L, O, R) /\ L.deps[c] \cap Dirtied(L, O, R) = {}
      <4>1. PICK old, running : /\ L \in Graphs /\ BothSides(L, old)
                                /\ UnreadLetGo(L, running) /\ StoppedLetGo(L)
        BY <1>2
      <4> QED BY <3>2, <4>1, TellReaches
    <3>4. x \notin O \cup Dirtied(L, O, R) /\ L.deps[x] \cap Dirtied(L, O, R) = {}
      BY <3>1, <3>3
    <3> QED BY <3>4 DEF D
  <2>4. \A x : x \notin O => ~(x \in L.subs[w] /\ x # top.consumer)  BY DEF Dependents
  <2>5. ASSUME NEW T, \A c \in (Computeds \cap T) \ (L.dirty \cup L.stopped) :
                        c \notin L.subs[w] /\ \A d \in Computeds \ T : c \notin L.subs[d]
        PROVE  D \cap T = {}
    <3>1. O \subseteq L.subs[w]  BY DEF Dependents
    <3> HIDE DEF O, L, R, w
    <3> QED BY <2>5, <3>1, DirtiedIs
  <2> HIDE DEF D, L, w, H, O
  <2>6. \A x \in Computeds \ (Running(stack) \cup H.dirty \cup H.stopped) :
         /\ x \notin D /\ L.deps[x] \cap D = {}
         /\ ~(x \in L.subs[w] /\ x # top.consumer)
    BY <2>3, <2>4
  <2> QED BY <2>1, <2>2, <2>5, <2>6 DEF L, w, H
<1>4. CASE H = L /\ FALSE \in Changed(w)
  <2>1. Erodes(L, L, {})  BY DEF Erodes
  <2>2. /\ cache[w].failed = Fails
        /\ cache' = [cache EXCEPT ![w] = [has |-> TRUE, failed |-> Fails,
              value |-> IF Fails THEN cache[w].value ELSE Result]]
        /\ w \in DOMAIN cache
        /\ ~Fails => Result = cache[w].value
    <3>1. cache[w].failed = Fails /\ (~Fails => Result = cache[w].value)
      BY <1>4 DEF Changed
    <3>2. w \in DOMAIN cache  BY <1>1 DEF IInv, RestOK
    <3> QED BY <3>1, <3>2 DEF EndComputed
  <2>3. cache'[w].value = cache[w].value /\ cache'[w].failed = cache[w].failed  BY <2>2
  <2> HIDE DEF L, w, H
  <2>4. /\ Erodes(L, H, {}) /\ {} \subseteq H.dirty
        /\ {} \cap (L.dirty \cup L.stopped) = {}
        /\ \A x : x \notin {} /\ L.deps[x] \cap {} = {}
        /\ \A T : {} \cap T = {}
    BY <1>4, <2>1
  <2> QED BY <2>3, <2>4 DEF L, w, H
<1> QED
  <2>1. H = Tell(L, O, R) \/ (H = L /\ FALSE \in Changed(w))
    <3>1. Changed(w) \subseteq BOOLEAN  BY DEF Changed, Fails
    <3> QED BY <1>1, <3>1
  <2> QED BY <1>3, <1>4, <2>1

LEMMA AssignClean ==
  ASSUME FreshInv, NEW s \in Cells, NEW v \in Values, Assign(s, v),
         Running(stack) \cap Computeds = {}
  PROVE  CleanOK(graph', val', cache, used)
<1>1. /\ graph \in Graphs /\ BothSides(graph, Unconfirmed(stack))
      /\ UnreadLetGo(graph, Running(stack)) /\ StoppedLetGo(graph)
      /\ val \in [Cells -> Values] /\ OnStack = Running(stack)
      /\ CleanOK(graph, val, cache, used)
  BY DEF FreshInv, IInv, GraphOK, RestOK, OnStack, Running
<1>2. CASE v = val[s]
  <2>1. graph' = graph /\ val' = val  BY <1>1, <1>2 DEF Assign
  <2> QED BY <1>1, <2>1
<1>3. CASE v # val[s]
  <2> DEFINE O == graph.subs[s]
             R == OnStack
             D == Dirtied(graph, O, R)
             H == Tell(graph, O, R)
  <2>1. graph' = H /\ val' = [val EXCEPT ![s] = v]  BY <1>3 DEF Assign
  <2>2. O \in SUBSET Observers  BY <1>1 DEF Graphs, Nodes
  <2>3. H \in Graphs /\ Erodes(graph, H, D)  BY <1>1, <2>2, TellKeeps
  <2>4. ASSUME NEW x \in Computeds \ (H.dirty \cup H.stopped)
        PROVE  /\ x \notin D /\ graph.deps[x] \cap D = {}
               /\ \A n \in graph.deps[x] : Holds(val', cache, n) = Holds(val, cache, n)
    <3>1. x \in Computeds \ R  BY <1>1
    <3>2. x \notin O \cup D /\ graph.deps[x] \cap D = {}
      BY <1>1, <2>2, <2>4, <3>1, TellReaches
    <3>3. s \notin graph.deps[x]  BY <1>1, <3>2 DEF BothSides, Observers, Nodes
    <3> QED BY <1>1, <2>1, <3>2, <3>3 DEF Holds
  <2> HIDE DEF D, H
  <2>5. CleanOK(H, val', cache, used)  BY <1>1, <2>3, <2>4, CleanErodes
  <2> QED BY <2>1, <2>5
<1> QED BY <1>2, <1>3

(* A step of a watch, a position or the program outside that starts no       *)
(* derivation.                                                               *)
LEMMA QuietStep ==
  ASSUME FreshInv, IInv', Running(stack') \cap Computeds = {},
         CleanOK(graph', val', cache', used')
  PROVE  FreshInv'
<1>1. stack' \in Seq(Frames)  BY DEF IInv, StackOK
<1>2. DerivingOK(stack', graph') /\ FramesOK(stack', graph', val', cache')
  BY <1>1, QuietFrames
<1> QED BY <1>2 DEF FreshInv

LEMMA StillClean ==
  ASSUME FreshInv, graph'.dirty = graph.dirty, graph'.stopped = graph.stopped,
         \A x \in Computeds : graph'.deps[x] = graph.deps[x] /\ used'[x] = used[x],
         UNCHANGED <<val, cache>>
  PROVE  CleanOK(graph', val', cache', used')
<1>1. CleanOK(graph, val, cache, used)  BY DEF FreshInv
<1> QED BY <1>1, CleanSame

LEMMA ObserverSteps ==
  ASSUME FreshInv, Busy, top.who \notin Computeds, Step, ~ReadDirty, IInv'
  PROVE  FreshInv'
<1>1. IInv /\ graph \in Graphs /\ Running(stack) \cap Computeds = {}
  BY NoneDeriving DEF FreshInv, IInv, GraphOK
<1>2. StackOK(page, stack) /\ Active \notin Computeds
  BY <1>1, ActiveIs, NamesAssumption DEF IInv, Nodes
<1>3. ASSUME Alike(stack, stack') PROVE Running(stack') \cap Computeds = {}
  BY <1>1, <1>2, <1>3, AlikeStack
<1>4. ASSUME NEW n \in Nodes, graph' = Track(graph, n), UNCHANGED <<val, cache, used>>
      PROVE  CleanOK(graph', val', cache', used')
  <2>1. /\ graph'.dirty = graph.dirty /\ graph'.stopped = graph.stopped
        /\ graph' = graph \/ (graph'.deps = [graph.deps EXCEPT ![Active] = @ \cup {n}])
    BY <1>1, <1>4, TrackIs
  <2>2. graph.deps \in [Observers -> SUBSET Nodes]  BY <1>1 DEF Graphs
  <2>3. \A x \in Computeds : graph'.deps[x] = graph.deps[x]
    BY <1>2, <2>1, <2>2 DEF Observers
  <2> QED BY <1>4, <2>1, <2>3, StillClean
<1>5. CASE ReadCell \/ ReadFresh \/ ReadRecursive
  <2>1. Instruction.of \in Nodes /\ graph' = Track(graph, Instruction.of) /\ UNCHANGED <<val, cache, used>>
    BY <1>5 DEF ReadCell, ReadFresh, ReadRecursive, Nodes
  <2>2. Alike(stack, stack')  BY <1>1, <1>5, GoesOn
  <2> QED BY <1>3, <1>4, <2>1, <2>2, QuietStep
<1>6. CASE Write
  <2>1. Instruction.of \in Cells /\ Instruction.to \in Values
        /\ Assign(Instruction.of, Instruction.to) /\ UNCHANGED <<cache, used>>
    BY <1>1, <1>6, InstructionIs DEF Write
  <2>2. Alike(stack, stack')  BY <1>1, <1>6, GoesOn
  <2>3. CleanOK(graph', val', cache', used')  BY <1>1, <2>1, AssignClean
  <2> QED BY <1>3, <2>2, <2>3, QuietStep
<1>7. CASE Create
  <2>1. UNCHANGED <<graph, val, cache, used>>  BY <1>7 DEF Create
  <2>2. Running(stack') \cap Computeds = {}
    <3>1. Instruction.of \in Doms /\ Instruction.op = "mount" /\ Nobody \in Answers
      BY <1>1, <1>7, InstructionIs DEF Create, Answers
    <3>2. CASE Instruction.of \in mounted
      BY <1>1, <1>3, <1>7, <3>1, <3>2, ContinueAlike DEF Create
    <3>3. CASE Instruction.of \notin mounted
      <4> DEFINE f == Run(Instruction.of, "mount")
      <4>1. stack' = Append(stack, f) /\ f \in Frames /\ f.who \in Doms
        BY <1>1, <1>7, <3>1, <3>3, RunIs DEF Create, Observers
      <4>2. f.who \notin Computeds /\ stack \in Seq(Frames)
        BY <1>1, <4>1, NamesAssumption DEF IInv, StackOK
      <4> HIDE DEF f
      <4>3. \A i \in DOMAIN stack' : (i \in DOMAIN stack /\ stack'[i] = stack[i]) \/ stack'[i] = f
        BY <4>1, <4>2
      <4> QED BY <1>1, <4>2, <4>3 DEF Running
    <3> QED BY <3>2, <3>3
  <2>3. CleanOK(graph', val', cache', used')  BY <2>1, StillClean
  <2> QED BY <2>2, <2>3, QuietStep
<1>8. CASE Destroy
  <2> DEFINE S == {Instruction.of} \cap mounted
             H == StopAll(graph, S)
  <2>1. graph' = H /\ UNCHANGED <<val, cache, used>> /\ S \in SUBSET Observers
    BY <1>1, <1>8 DEF Destroy, IInv, RestOK, Observers
  <2>2. H \in Graphs /\ Erodes(graph, H, {})
    BY <1>1, <2>1, StopAllKeeps DEF IInv, GraphOK
  <2>3. Alike(stack, stack')  BY <1>1, <1>8, GoesOn
  <2> HIDE DEF H, S
  <2>4. CleanOK(H, val, cache, used)  BY <1>1, <2>2, CleanErodes DEF FreshInv
  <2> QED BY <1>3, <2>1, <2>3, <2>4, QuietStep
<1>9. CASE EnterBody
  <2>1. UNCHANGED <<graph, val, cache, used>>  BY <1>9 DEF EnterBody
  <2>2. Alike(stack, stack')  BY <1>1, <1>9, GoesOn
  <2>3. CleanOK(graph', val', cache', used')  BY <2>1, StillClean
  <2> QED BY <1>3, <2>2, <2>3, QuietStep
<1>10. CASE EndObserver
  <2>1. graph' = ForgetOld(graph) /\ UNCHANGED <<val, cache>>
        /\ used' = [used EXCEPT ![top.who] = top.seen]
    BY <1>10 DEF EndObserver
  <2>2. graph' \in Graphs /\ Erodes(graph, graph', {})  BY <1>1, <2>1, ForgetIs
  <2>3. CleanOK(graph', val, cache, used)  BY <1>1, <2>2, CleanErodes DEF FreshInv
  <2>4. \A x \in Computeds : used'[x] = used[x]  BY <1>1, <2>1 DEF IInv, RestOK, Observers
  <2>5. CleanOK(graph', val, cache, used')  BY <2>3, <2>4, CleanSame
  <2>6. Running(stack') \cap Computeds = {}
    <3>1. StackOK(page, below) /\ Running(below) \subseteq Running(stack) /\ Alike(below, stack')
      BY <1>1, <1>10, BelowIs, EndsAbove
    <3> QED BY <1>1, <3>1, AlikeStack
  <2> QED BY <2>1, <2>5, <2>6, QuietStep
<1>11. ~EndComputed  BY DEF EndComputed
<1> QED BY <1>5, <1>6, <1>7, <1>8, <1>9, <1>10, <1>11 DEF Step

(* A computed that is dirty and observed starts its run, on its own or for   *)
(* the reader on top, which subscribes to it.                                *)
LEMMA DerivationStarts ==
  ASSUME FreshInv, IInv', NEW c \in Computeds, c \in graph.dirty \ graph.stopped,
         c \notin Running(stack), NEW by \in {"run", "access", "mount"},
         stack' = Append(stack, Run(c, by)), Busy => ~top.thrown,
         graph'.dirty = graph.dirty, graph'.stopped = graph.stopped, graph'.deps[c] = {},
         \A x \in Observers \ {c} : graph'.deps[x] = graph.deps[x] \/ (Busy /\ x = top.who),
         Busy /\ top.who \in Computeds \ graph.stopped =>
           graph'.deps[top.who] = graph.deps[top.who] \cup {c},
         \A n \in Nodes \ {c} : graph'.subs[n] = graph.subs[n],
         UNCHANGED <<val, cache, used>>
  PROVE  FreshInv'
<1> DEFINE F == stack
           k == Len(stack)
           f == Run(c, by)
           I == Append(F, f)
           G == graph
           H == graph'
<1>1. /\ IInv /\ G \in Graphs /\ H \in Graphs /\ F \in Seq(Frames) /\ Distinct(F)
      /\ CleanOK(G, val, cache, used) /\ DerivingOK(F, G) /\ FramesOK(F, G, val, cache)
  BY DEF FreshInv, IInv, GraphOK, StackOK
<1>2. /\ f \in Frames /\ f.who = c /\ f.consumer = Active /\ f.phase = "read" /\ f.seen = {}
      /\ ~f.thrown /\ ~f.recursed
  BY <1>1, RunIs DEF Observers
<1> HIDE DEF f
<1>4. /\ k \in Nat /\ k = Len(F) /\ Len(I) = k + 1 /\ I[k + 1] = f /\ I \in Seq(Frames)
      /\ \A i \in 1 .. k : I[i] = F[i] /\ F[i] \in Frames /\ F[i].who \in Running(F)
  BY <1>1, <1>2 DEF Running
<1>5. stack' = I  BY DEF f
<1>6. Busy <=> k # 0  BY <1>1 DEF Busy
<1>7. top = F[k]  BY DEF top
<1>8. \/ Active \notin Computeds
      \/ k # 0 /\ Active = F[k].who
  BY <1>1, <1>6, <1>7, ActiveIs, NamesAssumption DEF Nodes
<1>a. /\ H.dirty = G.dirty /\ H.stopped = G.stopped /\ H.deps[c] = {}
      /\ \A x \in Observers \ {c} : H.deps[x] = G.deps[x] \/ (k # 0 /\ x = F[k].who)
      /\ k # 0 /\ F[k].who \in Computeds \ G.stopped => H.deps[F[k].who] = G.deps[F[k].who] \cup {c}
      /\ \A n \in Nodes \ {c} : H.subs[n] = G.subs[n]
      /\ k # 0 => ~F[k].thrown
      /\ c \in G.dirty \ G.stopped /\ c \notin Running(F)
  BY <1>6, <1>7
<1> HIDE DEF F, k, I, G, H
<1>9. \A i \in 1 .. k : F[i].who \in Computeds =>
         /\ F[i].phase = "read" /\ F[i].who \in G.dirty /\ ~F[i].recursed
         /\ F[i].consumer \in Computeds => i > 1 /\ F[i].consumer = F[i - 1].who
         /\ \A j \in i .. k : F[j].who \in Computeds
  BY <1>1, <1>4, <1>a DEF DerivingOK
<1>b. \A x \in Computeds \ (G.dirty \cup G.stopped) : H.deps[x] = G.deps[x]
  <2> SUFFICES ASSUME NEW x \in Computeds \ (G.dirty \cup G.stopped) PROVE H.deps[x] = G.deps[x]
    OBVIOUS
  <2>1. k # 0 => x # F[k].who  BY <1>4, <1>9
  <2> QED BY <1>a, <2>1 DEF Observers
<1>c. CleanOK(H, val, cache, used)  BY <1>1, <1>a, <1>b, CleanSame
<1>d. DerivingOK(I, H)
  <2> SUFFICES ASSUME NEW i \in 1 .. k + 1, I[i].who \in Computeds
               PROVE  /\ I[i].phase = "read" /\ I[i].who \in H.dirty
                      /\ I[i].consumer \in Computeds => i > 1 /\ I[i].consumer = I[i - 1].who
                      /\ ~I[i].recursed
                      /\ \A j \in i .. k + 1 : I[j].who \in Computeds
    BY <1>4 DEF DerivingOK
  <2>1. CASE i = k + 1
    <3>1. I[i] = f /\ (k # 0 => i > 1 /\ i - 1 \in 1 .. k /\ I[i - 1] = F[k])
      BY <1>4, <2>1
    <3>2. \A j \in i .. k + 1 : j = i  BY <1>4, <2>1
    <3> QED BY <1>2, <1>8, <1>a, <3>1, <3>2
  <2>2. CASE i # k + 1
    <3>1. i \in 1 .. k /\ I[i] = F[i] /\ (i > 1 => I[i - 1] = F[i - 1])  BY <1>4, <2>2
    <3>2. \A j \in i .. k + 1 : (j \in i .. k /\ I[j] = F[j]) \/ I[j] = f  BY <1>4
    <3> QED BY <1>2, <1>9, <1>a, <2>2, <3>1, <3>2
  <2> QED BY <2>1, <2>2
<1>e. FramesOK(I, H, val, cache)
  <2> SUFFICES ASSUME NEW i \in 1 .. k + 1, I[i].who \in Computeds, ~Doomed(I[i], H)
               PROVE  FrameOK(I, i, H, val, cache)
    BY <1>4 DEF FramesOK
  <2>1. CASE i = k + 1
    <3>1. I[i] = f /\ i = Len(I)  BY <1>4, <2>1
    <3>2. Apart({}, FromOn(I, i), H) /\ Within({}, {}) /\ Sure({}, c, H, val, cache)
      BY DEF Apart, Within, Sure
    <3>3. Backed(c, {}, FromOn(I, i), H, val, cache)  BY <3>2 DEF Backed
    <3>4. Backed(I[i].who, I[i].seen, FromOn(I, i), H, val, cache) /\ H.deps[I[i].who] = {}
      BY <1>2, <1>a, <3>1, <3>3
    <3>5. ~(i < Len(I))  BY <1>4, <2>1
    <3> QED BY <3>4, <3>5 DEF FrameOK
  <2>2. CASE i # k + 1
    <3> DEFINE o == F[i].who
               S == FromOn(F, i)
    <3>1. /\ i \in 1 .. k /\ I[i] = F[i] /\ o \in Computeds /\ o # c /\ o \in Observers
          /\ i < Len(I) /\ i # Len(I) /\ i + 1 \in 1 .. k + 1
      BY <1>4, <1>a, <2>2 DEF Observers
    <3>2. ~Doomed(F[i], G)  BY <1>a, <2>2, <3>1 DEF Doomed, Nodes
    <3>3. FrameOK(F, i, G, val, cache)  BY <1>1, <1>4, <3>1, <3>2 DEF FramesOK
    <3>4. G.deps[o] \subseteq H.deps[o] /\ (i # k => H.deps[o] = G.deps[o])
      <4>1. i # k => o # F[k].who  BY <1>1, <1>4, <3>1 DEF Distinct
      <4> QED BY <1>a, <2>2, <3>1, <4>1 DEF Doomed
    <3>5. FromOn(I, i) \cap Nodes \subseteq S \cup (G.dirty \ G.stopped)
      <4>1. \A j \in i .. k + 1 : (j \in i .. k /\ I[j] = F[j]) \/ I[j] = f  BY <1>4, <3>1
      <4> QED BY <1>2, <1>4, <1>a, <3>1, <4>1 DEF FromOn
    <3>6. \A x \in Computeds \ (S \cup (G.dirty \ G.stopped)) : H.deps[x] = G.deps[x]
      <4>1. k \in i .. k  BY <1>4, <3>1
      <4>2. F[k].who \in S  BY <1>4, <4>1 DEF FromOn
      <4> QED BY <1>a, <4>2 DEF Observers
    <3>7. Backed(o, F[i].seen, S, G, val, cache)  BY <3>3 DEF FrameOK
    <3> HIDE DEF S, o
    <3>8. Backed(o, F[i].seen, FromOn(I, i), H, val, cache)
      BY <1>1, <1>a, <3>1, <3>4, <3>5, <3>6, <3>7, BackedSame
    <3>9. \A n \in H.deps[o] : (\E p \in F[i].seen : p[1] = n) \/ n = I[i + 1].who
      <4>1. CASE i = k  BY <1>2, <1>4, <1>a, <2>2, <3>1, <3>3, <4>1 DEF FrameOK, o, Doomed
      <4>2. CASE i # k
        <5>1. I[i + 1] = F[i + 1] /\ H.deps[o] = G.deps[o]  BY <1>4, <3>1, <3>4, <4>2
        <5> QED BY <1>4, <3>1, <3>3, <4>2, <5>1 DEF FrameOK, o
      <4> QED BY <4>1, <4>2
    <3>10. I[i + 1].who \in H.deps[o]
      <4>1. CASE i = k  BY <1>2, <1>4, <1>a, <2>2, <3>1, <4>1 DEF o, Doomed
      <4>2. CASE i # k
        <5>1. I[i + 1] = F[i + 1] /\ H.deps[o] = G.deps[o] /\ i < k
          BY <1>4, <3>1, <3>4, <4>2
        <5> QED BY <1>4, <3>3, <5>1 DEF FrameOK, o
      <4> QED BY <4>1, <4>2
    <3> QED BY <3>1, <3>8, <3>9, <3>10 DEF FrameOK, o
  <2> QED BY <2>1, <2>2
<1> QED BY <1>5, <1>c, <1>d, <1>e DEF FreshInv, H

LEMMA ReadDirtyIs ==
  ASSUME IInv, Busy, ReadDirty, NEW c, c = Instruction.of
  PROVE  Derives(c)
<1> DEFINE K == Track(graph, c)
<1>1. /\ graph \in Graphs /\ c \in Computeds /\ c \in Nodes /\ c \in Observers
      /\ c \in graph.dirty \ graph.stopped /\ c \notin Running(stack) /\ c \notin Watches
      /\ stack' = Append(stack, Run(c, "access")) /\ graph' = Anew(K, c) /\ Instruction.op = "read"
  BY NamesAssumption DEF IInv, GraphOK, ReadDirty, Fresh, Nodes, Observers, OnStack, Running
<1>2. ~top.thrown  BY <1>1, InstructionIs
<1>3. /\ K \in Graphs /\ K.stopped = graph.stopped /\ K.dirty = graph.dirty /\ K.queue = graph.queue
      /\ K.pending = graph.pending
      /\ \/ Active \in {Nobody, c} \cup graph.stopped /\ K = graph
         \/ /\ Active \in Observers \cap Running(stack) /\ Active \notin {Nobody, c} \cup graph.stopped
            /\ K.subs = [graph.subs EXCEPT ![c] = @ \cup {Active}]
            /\ K.deps = [graph.deps EXCEPT ![Active] = @ \cup {c}]
  <2>1. K.pending = graph.pending  BY <1>1 DEF Graphs, Track
  <2>2. graph \in Graphs /\ c \in Nodes  BY <1>1
  <2> QED BY <2>1, <2>2, TrackIs
<1>4. graph.deps \in [Observers -> SUBSET Nodes] /\ graph.subs \in [Nodes -> SUBSET Observers]
  BY <1>1 DEF Graphs
<1> HIDE DEF K
<1>5. /\ graph'.dirty = K.dirty /\ graph'.stopped = K.stopped /\ graph'.subs = K.subs
      /\ graph'.queue = K.queue /\ graph'.pending = K.pending
      /\ graph'.deps = [K.deps EXCEPT ![c] = {}] /\ K.deps \in [Observers -> SUBSET Nodes]
  BY <1>1, <1>3 DEF Anew, Graphs
<1>6. (Active = Nobody \/ Active = top.who) /\ top.who \in Running(stack) /\ top.who \in Observers
  BY TopRuns, InstructionIs DEF Active, Frames
<1>7. top.phase = "read" => Active = top.who /\ Active # Nobody /\ Active # c
  BY <1>1, <1>6, NamesAssumption DEF Active, Observers, Nodes
<1>8. \A x \in Observers \ {c} :
        \/ graph'.deps[x] = graph.deps[x]
        \/ x = top.who /\ graph'.deps[x] = graph.deps[x] \cup {c}
  BY <1>3, <1>4, <1>5, <1>6
<1>9. top.phase = "read" /\ top.who \notin graph.stopped => c \in graph'.deps[top.who]
  BY <1>3, <1>4, <1>5, <1>6, <1>7
<1>10. /\ graph'.deps[c] = {} /\ graph'.subs[c] \subseteq graph.subs[c] \cup {Active}
       /\ \A n \in Nodes \ {c} : graph'.subs[n] = graph.subs[n]
  BY <1>1, <1>3, <1>4, <1>5
<1> QED BY <1>1, <1>2, <1>3, <1>5, <1>8, <1>9, <1>10 DEF Derives

(* A reader that runs subscribes to the computed that starts.                *)
LEMMA ReadStarts ==
  ASSUME FreshInv, Busy, ReadDirty, IInv'
  PROVE  FreshInv'
<1> DEFINE c == Instruction.of
<1>1. Derives(c) /\ UNCHANGED <<val, cache, used>>  BY ReadDirtyIs DEF FreshInv, ReadDirty
<1> HIDE DEF c
<1>2. top.who \in Computeds \ graph.stopped => graph'.deps[top.who] = graph.deps[top.who] \cup {c}
  <2> SUFFICES ASSUME top.who \in Computeds \ graph.stopped
               PROVE  graph'.deps[top.who] = graph.deps[top.who] \cup {c}
    OBVIOUS
  <2>1. Len(stack) \in 1 .. Len(stack) /\ top.who \in Running(stack)
    BY InstructionIs, TopRuns DEF FreshInv
  <2>2. top.phase = "read" /\ top.who # c /\ top.who \in Observers
    BY <1>1, <2>1 DEF Derives, FreshInv, DerivingOK, top, Observers
  <2> QED BY <1>1, <2>2 DEF Derives
<1> QED BY <1>1, <1>2, DerivationStarts DEF Derives

(* A computed reads what is kept, or its read fails.                         *)
LEMMA DerivationReads ==
  ASSUME FreshInv, Busy, top.who \in Computeds, ~top.thrown, IInv', Alike(stack, stack'),
         NEW n \in Nodes, graph' = Track(graph, n), UNCHANGED <<val, cache, used>>,
         \A i \in 1 .. Len(stack) :
           /\ stack'[i].consumer = stack[i].consumer /\ stack'[i].phase = stack[i].phase
           /\ stack[i].recursed => stack'[i].recursed
           /\ stack'[i].recursed => stack[i].recursed \/ stack'[Len(stack)].thrown
           /\ i # Len(stack) => stack'[i].seen = stack[i].seen
           /\ stack'[i].who = n => stack'[i].recursed \/ n \in graph.stopped,
         LET f == stack'[Len(stack)] IN
           \/ f.thrown /\ f.seen = top.seen
           \/ f.seen = top.seen \cup {<<n, Holds(val, cache, n)>>} /\ n \in Kept(graph, cache)
  PROVE  FreshInv'
<1> DEFINE F == stack
           k == Len(stack)
           I == stack'
           G == graph
           H == graph'
           w == top.who
           R(i) == /\ I[i].consumer = F[i].consumer /\ I[i].phase = F[i].phase
                   /\ F[i].recursed => I[i].recursed
                   /\ I[i].recursed => F[i].recursed \/ I[k].thrown
                   /\ i # k => I[i].seen = F[i].seen
                   /\ I[i].who = n => I[i].recursed \/ n \in G.stopped
<1>1. /\ IInv /\ G \in Graphs /\ H \in Graphs /\ F \in Seq(Frames) /\ Distinct(F)
      /\ CleanOK(G, val, cache, used) /\ DerivingOK(F, G) /\ FramesOK(F, G, val, cache)
      /\ StoppedLetGo(H)
  BY DEF FreshInv, IInv, GraphOK, StackOK
<1>2. /\ k \in Nat /\ k # 0 /\ k = Len(F) /\ k = Len(I) /\ w = F[k].who
      /\ \A i \in 1 .. k : I[i].who = F[i].who
      /\ \A i \in 1 .. k : F[i].who \in Observers
  <2>1. k \in Nat /\ k # 0 /\ \A i \in 1 .. k : F[i] \in Frames  BY <1>1, InstructionIs
  <2>2. \A i \in 1 .. k : F[i].who \in Observers  BY <2>1 DEF Frames
  <2> QED BY <2>1, <2>2 DEF Alike, top
<1>e. DOMAIN F = 1 .. k  BY <1>1
<1>3. /\ H.stopped = G.stopped /\ H.dirty = G.dirty
      /\ \/ Active \in {Nobody, n} \cup G.stopped /\ H = G
         \/ /\ Active \in Observers \cap Running(stack) /\ Active \notin {Nobody, n} \cup G.stopped
            /\ H.subs = [G.subs EXCEPT ![n] = @ \cup {Active}]
            /\ H.deps = [G.deps EXCEPT ![Active] = @ \cup {n}]
  BY <1>1, TrackIs
<1>4. G.deps \in [Observers -> SUBSET Nodes] /\ G.subs \in [Nodes -> SUBSET Observers]
  BY <1>1 DEF Graphs
<1>5. \A i \in 1 .. k : R(i)  OBVIOUS
<1>6. \/ I[k].thrown /\ I[k].seen = F[k].seen
      \/ I[k].seen = F[k].seen \cup {<<n, Holds(val, cache, n)>>} /\ n \in Kept(G, cache)
  BY DEF top
<1>7. Active = w /\ w # Nobody /\ w \in Observers /\ w \in Computeds /\ ~F[k].thrown
  <2>1. F[k].phase = "read"
    <3>1. k \in 1 .. k  BY <1>2
    <3>2. F[k].who \in Computeds  BY DEF top
    <3> QED BY <1>1, <3>1, <3>2 DEF DerivingOK
  <2> QED BY <1>2, <2>1, NamesAssumption DEF Active, Observers, top
<1> HIDE DEF F, k, I, G, H, w
<1>8. \A i \in 1 .. k : F[i].who \in Computeds =>
         /\ F[i].phase = "read" /\ F[i].who \in G.dirty /\ ~F[i].recursed
         /\ F[i].consumer \in Computeds => i > 1 /\ F[i].consumer = F[i - 1].who
         /\ \A j \in i .. k : F[j].who \in Computeds
  BY <1>1, <1>2, <1>7 DEF DerivingOK
<1>9. w \in G.dirty  BY <1>2, <1>7, <1>8
<1>a. \A x \in Observers \ {w} : H.deps[x] = G.deps[x]  BY <1>3, <1>4, <1>7
<1>b. CleanOK(H, val, cache, used)  BY <1>1, <1>3, <1>9, <1>a, CleanSame DEF Observers
<1>c. DerivingOK(I, H)
  <2> SUFFICES ASSUME NEW i \in 1 .. k, I[i].who \in Computeds
               PROVE  /\ I[i].phase = "read" /\ I[i].who \in H.dirty
                      /\ I[i].consumer \in Computeds => i > 1 /\ I[i].consumer = I[i - 1].who
                      /\ I[i].recursed => I[k].thrown
                      /\ \A j \in i .. k : I[j].who \in Computeds
    BY <1>2 DEF DerivingOK
  <2>1. i > 1 => i - 1 \in 1 .. k  BY <1>2
  <2>2. R(i) /\ F[i].who \in Computeds  BY <1>2, <1>5
  <2>3. \A j \in i .. k : I[j].who \in Computeds  BY <1>2, <1>8, <2>2
  <2> QED BY <1>2, <1>3, <1>8, <2>1, <2>2, <2>3
<1>d. FramesOK(I, H, val, cache)
  <2> SUFFICES ASSUME NEW i \in 1 .. k, I[i].who \in Computeds, ~Doomed(I[i], H)
               PROVE  FrameOK(I, i, H, val, cache)
    BY <1>2 DEF FramesOK
  <2> DEFINE o == F[i].who
  <2>1. R(i) /\ I[i].who = o /\ o \in Computeds /\ o \in Observers /\ o \in Nodes
    BY <1>2, <1>5 DEF Observers, Nodes
  <2>2. o # n /\ o \notin G.stopped /\ H.subs[o] = G.subs[o]
    BY <1>3, <1>4, <2>1 DEF Doomed
  <2>3. ~Doomed(F[i], G)  BY <2>1, <2>2 DEF Doomed
  <2>4. FrameOK(F, i, G, val, cache)  BY <1>1, <1>2, <2>1, <2>3 DEF FramesOK
  <2>5. FromOn(I, i) = FromOn(F, i)  BY <1>2 DEF FromOn
  <2>6. CASE i # k
    <3>1. o # w /\ I[i].seen = F[i].seen /\ i < Len(F) /\ i < Len(I)
          /\ I[i + 1].who = F[i + 1].who
      <4>1. i \in DOMAIN F /\ k \in DOMAIN F /\ i + 1 \in 1 .. k /\ i < k
        BY <1>2, <1>e, <2>6
      <4>2. o # w  BY <1>1, <1>2, <2>6, <4>1 DEF Distinct
      <4> QED BY <1>2, <2>1, <2>6, <4>1, <4>2
    <3>2. H.deps[o] = G.deps[o]  BY <1>a, <2>1, <3>1
    <3>3. w \in FromOn(F, i)
      <4>1. k \in i .. k  BY <1>2
      <4> QED BY <1>2, <4>1 DEF FromOn
    <3>4. \A x \in Computeds \ FromOn(F, i) : H.deps[x] = G.deps[x]
      BY <1>a, <3>3 DEF Observers
    <3>5. Backed(o, F[i].seen, FromOn(F, i), G, val, cache)  BY <2>4 DEF FrameOK
    <3> HIDE DEF o
    <3>6. Backed(o, F[i].seen, FromOn(F, i), H, val, cache)
      BY <1>1, <1>3, <2>1, <3>2, <3>4, <3>5, BackedSame
    <3> QED BY <1>2, <2>1, <2>4, <2>5, <3>1, <3>2, <3>6 DEF FrameOK, o
  <2>7. CASE i = k
    <3>1. o = w /\ H.deps[w] = G.deps[w] \cup {n}  BY <1>2, <1>3, <1>4, <1>7, <2>2, <2>7
    <3>2. FromOn(F, i) = {w} /\ w \in H.dirty \ H.stopped /\ w \notin Cells
      <4>1. \A j \in i .. k : j = k  BY <1>2, <2>7
      <4>2. k \in i .. k  BY <1>2, <2>7
      <4>3. FromOn(F, i) = {w}  BY <1>2, <4>1, <4>2 DEF FromOn
      <4> QED BY <1>3, <1>7, <1>9, <2>2, <3>1, <4>3, NamesAssumption DEF Observers
    <3>3. Sure(I[k].seen, w, H, val, cache)
      <4>1. Sure(F[k].seen, w, G, val, cache)  BY <1>2, <2>4, <2>7 DEF FrameOK, Backed
      <4>2. Kept(H, cache) = Kept(G, cache)  BY <1>3 DEF Kept
      <4>3. \A p \in I[k].seen :
              \/ p \in F[k].seen
              \/ p[1] = n /\ p[2] = Holds(val, cache, n) /\ n \in Kept(G, cache)
        BY <1>6
      <4> QED BY <3>1, <4>1, <4>2, <4>3 DEF Sure
    <3>4. Backed(w, I[k].seen, {w}, H, val, cache)
      BY <1>1, <1>7, <1>b, <3>2, <3>3, SureIsBacked
    <3>5. \A m \in H.deps[w] : (\E p \in I[k].seen : p[1] = m) \/ I[k].thrown
      <4>1. \A m \in G.deps[w] : \E p \in F[k].seen : p[1] = m
        BY <1>2, <1>7, <2>4, <2>7 DEF FrameOK
      <4>2. F[k].seen \subseteq I[k].seen  BY <1>6
      <4>3. I[k].thrown \/ \E p \in I[k].seen : p[1] = n
        <5>1. <<n, Holds(val, cache, n)>>[1] = n  OBVIOUS
        <5> QED BY <1>6, <5>1
      <4> QED BY <3>1, <4>1, <4>2, <4>3
    <3>6. Backed(I[i].who, I[i].seen, FromOn(I, i), H, val, cache) /\ H.deps[I[i].who] = H.deps[w]
      BY <2>1, <2>5, <2>7, <3>1, <3>2, <3>4
    <3>7. ~(i < Len(I)) /\ i = Len(I) /\ i = k  BY <1>2, <2>7
    <3> QED BY <3>5, <3>6, <3>7 DEF FrameOK
  <2> QED BY <2>6, <2>7
<1> QED BY <1>b, <1>c, <1>d DEF FreshInv, I, H

LEMMA ContinueIs ==
  ASSUME IInv, Busy, Instruction.op \notin {"return", "throw"},
         NEW v \in Answers, NEW n \in Nodes \cup {Nobody}, Continue(n, v)
  PROVE  /\ \A i \in 1 .. Len(stack) - 1 : stack'[i] = stack[i]
         /\ LET f == stack'[Len(stack)] IN
              /\ f.who = top.who /\ f.consumer = top.consumer /\ f.phase = top.phase
              /\ f.recursed = top.recursed /\ f.thrown = top.thrown
              /\ f.seen = IF n # Nobody /\ top.phase = "read"
                            THEN top.seen \cup {<<n, v>>} ELSE top.seen
<1> DEFINE a == Answered(top, n, v)
           H == Append(below, a)
<1>1. stack \in Seq(Frames) /\ stack # <<>> /\ page \in Pages
  BY DEF IInv, StackOK, Busy, RestOK
<1>2. top \in Frames /\ NextOf(page, top).op \notin {"return", "throw"}  BY InstructionIs
<1>3. /\ a \in Frames /\ a.who = top.who /\ a.consumer = top.consumer /\ a.phase = top.phase
      /\ a.recursed = top.recursed /\ a.thrown = top.thrown
      /\ a.seen = IF n # Nobody /\ top.phase = "read" THEN top.seen \cup {<<n, v>>} ELSE top.seen
  BY <1>1, <1>2, AnsweredIs
<1>4. below \in Seq(Frames) /\ Len(below) = Len(stack) - 1
      /\ \A i \in 1 .. Len(stack) - 1 : below[i] = stack[i]
  BY BelowIs
<1> HIDE DEF a
<1>5. H[Len(stack)] = a /\ \A i \in 1 .. Len(stack) - 1 : H[i] = stack[i]
  BY <1>1, <1>3, <1>4, TopAppended
<1>6. stack' = H  BY DEF Continue, a
<1> QED BY <1>3, <1>5, <1>6

(* Every read of a computed but that of one to be derived first.             *)
LEMMA ReadsGoOn ==
  ASSUME FreshInv, Busy, top.who \in Computeds, ReadCell \/ ReadFresh \/ ReadRecursive, IInv'
  PROVE  FreshInv'
<1> DEFINE n == Instruction.of
           k == Len(stack)
           R(i) == /\ stack'[i].consumer = stack[i].consumer /\ stack'[i].phase = stack[i].phase
                   /\ stack[i].recursed => stack'[i].recursed
                   /\ stack'[i].recursed => stack[i].recursed \/ stack'[k].thrown
                   /\ i # k => stack'[i].seen = stack[i].seen
                   /\ stack'[i].who = n => stack'[i].recursed \/ n \in graph.stopped
           A(f) == \/ f.thrown /\ f.seen = top.seen
                   \/ /\ f.seen = top.seen \cup {<<n, Holds(val, cache, n)>>}
                      /\ n \in Kept(graph, cache)
<1>1. /\ IInv /\ stack \in Seq(Frames) /\ stack # <<>> /\ Instruction.op = "read" /\ ~top.thrown
      /\ n \in Nodes /\ n # Nobody
  BY InstructionIs, NamesAssumption DEF FreshInv, IInv, StackOK, Busy, ReadCell, ReadFresh,
     ReadRecursive
<1>2. /\ Alike(stack, stack') /\ graph' = Track(graph, n) /\ UNCHANGED <<val, cache, used>>
  BY <1>1, GoesOn DEF ReadCell, ReadFresh, ReadRecursive
<1>3. k \in Nat /\ k \in 1 .. k /\ top = stack[k] /\ \A i \in 1 .. k : i \in 1 .. k - 1 \/ i = k
  BY <1>1, InstructionIs DEF top
<1>4. \A i \in 1 .. k : stack'[i].who = stack[i].who  BY <1>2 DEF Alike
<1>5. top.phase = "read"  BY <1>3 DEF FreshInv, DerivingOK
(* What is neither stopped nor dirty is not running. *)
<1>6. n \in Cells \/ (n \in Computeds /\ Fresh(n)) =>
        \A i \in 1 .. k : stack'[i].who = n => n \in graph.stopped
  <2>1. \A i \in 1 .. k : stack[i].who \in Observers
    <3>1. \A i \in 1 .. k : stack[i] \in Frames  BY <1>1
    <3> QED BY <3>1 DEF Frames
  <2>2. \A i \in 1 .. k : stack[i].who = n /\ n \in Computeds => n \in graph.dirty
    BY DEF FreshInv, DerivingOK
  <2> QED BY <1>4, <2>1, <2>2, NamesAssumption DEF Fresh
<1>7. ASSUME n \in Cells \/ (n \in Computeds /\ Fresh(n) /\ ~cache[n].failed),
             NEW v \in Answers, v = Holds(val, cache, n), Continue(n, v)
      PROVE  (\A i \in 1 .. k : R(i)) /\ A(stack'[k])
  <2>1. /\ \A i \in 1 .. k - 1 : stack'[i] = stack[i]
        /\ LET f == stack'[k] IN
              /\ f.who = top.who /\ f.consumer = top.consumer /\ f.phase = top.phase
              /\ f.recursed = top.recursed
              /\ f.seen = top.seen \cup {<<n, v>>}
    BY <1>1, <1>5, <1>7, ContinueIs
  <2>2. n \in Kept(graph, cache)  BY <1>7 DEF Kept, Fresh
  <2> HIDE DEF k, n
  <2>3. \A i \in 1 .. k : R(i)  BY <1>3, <1>6, <1>7, <2>1
  <2> QED BY <1>7, <2>1, <2>2, <2>3
<1>8. ASSUME n \in Computeds, Fresh(n), stack' = Throws(stack)
      PROVE  (\A i \in 1 .. k : R(i)) /\ A(stack'[k])
  <2>1. /\ \A i \in 1 .. k - 1 : stack'[i] = stack[i]
        /\ stack'[k] = [top EXCEPT !.thrown = TRUE] /\ top \in Frames
    BY <1>1, <1>8, ThrownIs, InstructionIs DEF top
  <2>2. /\ stack'[k].consumer = top.consumer /\ stack'[k].phase = top.phase
        /\ stack'[k].recursed = top.recursed /\ stack'[k].seen = top.seen /\ stack'[k].thrown
    BY <2>1 DEF Frames
  <2> HIDE DEF k, n
  <2> QED BY <1>3, <1>6, <1>8, <2>1, <2>2
<1>9. ASSUME n \in Computeds, stack' = Throws(Remembered(n))
      PROVE  (\A i \in 1 .. k : R(i)) /\ A(stack'[k])
  <2> DEFINE F == Remembered(n)
  <2>1. /\ F \in Seq(Frames) /\ F # <<>> /\ Len(F) = k
        /\ \A i \in 1 .. k :
              /\ F[i].seen = stack[i].seen /\ F[i].consumer = stack[i].consumer
              /\ F[i].phase = stack[i].phase
              /\ F[i].recursed <=> stack[i].recursed \/ stack[i].who = n
    BY <1>1, RememberedIs
  <2>2. /\ \A i \in 1 .. k - 1 : stack'[i] = F[i]
        /\ stack'[k] = [F[k] EXCEPT !.thrown = TRUE] /\ F[k] \in Frames
    BY <1>3, <1>9, <2>1, ThrownIs
  <2>3. /\ stack'[k].consumer = F[k].consumer /\ stack'[k].phase = F[k].phase
        /\ stack'[k].recursed = F[k].recursed /\ stack'[k].seen = F[k].seen /\ stack'[k].thrown
    BY <2>2 DEF Frames
  <2> HIDE DEF k, n, F
  <2>4. \A i \in 1 .. k :
              /\ stack'[i].seen = stack[i].seen /\ stack'[i].consumer = stack[i].consumer
              /\ stack'[i].phase = stack[i].phase
              /\ stack'[i].recursed <=> stack[i].recursed \/ stack[i].who = n
    <3> SUFFICES ASSUME NEW i \in 1 .. k
                 PROVE  /\ stack'[i].seen = F[i].seen /\ stack'[i].consumer = F[i].consumer
                        /\ stack'[i].phase = F[i].phase
                        /\ stack'[i].recursed = F[i].recursed
      BY <2>1
    <3> QED BY <1>3, <2>2, <2>3
  <2> QED BY <1>3, <1>4, <2>3, <2>4
<1>10. (\A i \in 1 .. k : R(i)) /\ A(stack'[k])
  <2>1. CASE ReadCell
    <3>1. n \in Cells /\ Continue(n, val[n]) /\ val[n] = Holds(val, cache, n) /\ val[n] \in Answers
      BY <1>1, <2>1 DEF ReadCell, Holds, IInv, RestOK, Answers
    <3> QED BY <1>7, <3>1
  <2>2. CASE ReadFresh
    <3>1. n \in Computeds /\ Fresh(n) /\ n \notin Cells
      BY <2>2, NamesAssumption DEF ReadFresh, Observers
    <3>2. CASE cache[n].failed  BY <1>8, <2>2, <3>1, <3>2 DEF ReadFresh
    <3>3. CASE ~cache[n].failed
      <4>1. /\ Continue(n, cache[n].value) /\ cache[n].value = Holds(val, cache, n)
            /\ cache[n].value \in Answers
        BY <1>1, <2>2, <3>1, <3>3 DEF ReadFresh, Holds, IInv, RestOK
      <4> QED BY <1>7, <3>1, <3>3, <4>1
    <3> QED BY <3>2, <3>3
  <2>3. CASE ReadRecursive  BY <1>9, <2>3 DEF ReadRecursive, Remembered
  <2> QED BY <2>1, <2>2, <2>3
<1>11. n \in Nodes /\ ~top.thrown  BY <1>1
<1>12. /\ Alike(stack, stack') /\ graph' = Track(graph, n) /\ UNCHANGED <<val, cache, used>>
       /\ \A i \in 1 .. Len(stack) :
           /\ stack'[i].consumer = stack[i].consumer /\ stack'[i].phase = stack[i].phase
           /\ stack[i].recursed => stack'[i].recursed
           /\ stack'[i].recursed => stack[i].recursed \/ stack'[Len(stack)].thrown
           /\ i # Len(stack) => stack'[i].seen = stack[i].seen
           /\ stack'[i].who = n => stack'[i].recursed \/ n \in graph.stopped
       /\ LET f == stack'[Len(stack)] IN
           \/ f.thrown /\ f.seen = top.seen
           \/ f.seen = top.seen \cup {<<n, Holds(val, cache, n)>>} /\ n \in Kept(graph, cache)
  BY <1>2, <1>10
<1> HIDE DEF n
<1> QED BY <1>11, <1>12, DerivationReads

LEMMA EndErodes ==
  ASSUME IInv, Busy, top.who \in Computeds, NEW D, Erodes(LeftWith, graph', D)
  PROVE  /\ Undirtied.dirty = graph.dirty \ {top.who} /\ Undirtied.deps = graph.deps
         /\ Undirtied.subs = graph.subs /\ Undirtied.stopped = graph.stopped
         /\ Erodes(Undirtied, LeftWith, {top.who}) /\ Erodes(Undirtied, graph', {top.who} \cup D)
         /\ Cleaned.subs[top.who] # {} /\ top.who \notin graph.stopped =>
              Cleaned.deps[top.who] = graph.deps[top.who]
<1> DEFINE w == top.who
           G == graph
           K == Undirtied
           N == Cleaned
           L == LeftWith
           X == ForgetOld(graph)
<1>1. K.dirty = G.dirty \ {w} /\ K.deps = G.deps /\ K.subs = G.subs /\ K.stopped = G.stopped
  BY DEF Undirtied, IInv, GraphOK, Graphs
<1>2. /\ Erodes(G, X, {}) /\ X.stopped = G.stopped
      /\ N.dirty = X.dirty \ {w} /\ N.subs = X.subs /\ N.deps = X.deps /\ N.stopped = X.stopped
  BY ForgetIs, CleanedIs
<1>3. Erodes(N, L, {w})  BY LeftWithIs
<1>4. w \in Observers /\ w \in Computeds  BY DEF Observers
<1> HIDE DEF w, G, K, N, L, X
<1>5. Erodes(K, N, {w})
  <2>1. /\ \A o \in Observers : N.deps[o] \subseteq K.deps[o]
        /\ \A n \in Nodes : N.subs[n] \subseteq K.subs[n]
        /\ K.stopped \subseteq N.stopped /\ K.dirty \subseteq N.dirty
    BY <1>1, <1>2 DEF Erodes
  <2>2. \A o \in Observers, n \in Computeds :
          n \in N.deps[o] /\ n \in N.dirty \ K.dirty => n \in {w}
    BY <1>1, <1>2 DEF Erodes
  <2>3. \A o \in Observers \ ({w} \cup N.stopped) :
          (o \in Computeds => N.subs[o] # {} \/ o \notin N.dirty) => N.deps[o] = K.deps[o]
    BY <1>1, <1>2 DEF Erodes
  <2> QED BY <2>1, <2>2, <2>3 DEF Erodes
<1>6. Erodes(K, L, {w} \cup {w}) /\ {w} \cup {w} = {w}  BY <1>3, <1>5, ErodesOn
<1>7. Erodes(K, L, {w})  BY <1>6
<1>8. Erodes(K, graph', {w} \cup D)  BY <1>7, ErodesOn DEF L
<1>9. N.subs[w] # {} /\ w \notin G.stopped => N.deps[w] = G.deps[w]
  BY <1>2, <1>4 DEF Erodes
<1> QED BY <1>1, <1>7, <1>8, <1>9 DEF w, G, K, N, L

(* The answer of a computed goes to the frame below.                         *)
LEMMA EndAnswers ==
  ASSUME IInv, Busy, EndComputed
  PROVE  /\ stack' \in Seq(Frames) /\ Len(stack') = Len(stack) - 1
         /\ \A i \in 1 .. Len(stack) - 1 :
              /\ stack'[i].who = stack[i].who /\ stack'[i].consumer = stack[i].consumer
              /\ stack'[i].phase = stack[i].phase /\ stack'[i].recursed = stack[i].recursed
         /\ \A i \in 1 .. Len(stack) - 2 : stack'[i] = stack[i]
         /\ Len(stack) > 1 => LET f == stack[Len(stack) - 1]
                                  g == stack'[Len(stack) - 1] IN
              /\ Fails => g.thrown /\ g.seen = f.seen
              /\ ~Fails /\ f.phase = "read" => g.seen = f.seen \cup {<<top.who, Result>>}
              /\ f.phase # "read" => g.seen = f.seen
<1> DEFINE k == Len(stack)
           w == top.who
           F == below
           m == k - 1
           I == stack'
<1>1. /\ F \in Seq(Frames) /\ Len(F) = m /\ m \in Nat
      /\ \A i \in 1 .. m : F[i] = stack[i]
      /\ F # <<>> => Awaits(page, F[Len(F)], top)
  <2>1. k \in Nat /\ k # 0  BY InstructionIs
  <2> QED BY <2>1, BelowIs
<1>7. k \in Nat /\ k # 0 /\ k - 2 = m - 1 /\ k = m + 1  BY InstructionIs
<1>2. I \in Seq(Frames) /\ Len(I) = m  BY <1>1, EndsAbove DEF Alike
<1>3. page \in Pages /\ w \in Nodes /\ w # Nobody /\ top \in Frames
  BY InstructionIs, NamesAssumption DEF IInv, RestOK, EndComputed, Nodes
<1>4. Fails \/ Result \in Answers  BY InstructionIs DEF EndComputed, Ends, Fails, Result
<1>5. CASE F = <<>>
  <2>1. m = 0  BY <1>1, <1>5
  <2> HIDE DEF I, m, F
  <2>2. \A i : i \notin 1 .. m /\ i \notin 1 .. m - 1  BY <2>1
  <2>3. k - 2 = m - 1 /\ ~(k > 1)  BY <1>7, <2>1
  <2> QED BY <1>2, <2>2, <2>3 DEF I, m
<1>6. CASE F # <<>>
  <2> DEFINE f == F[m]
             a == Answered(f, w, Result)
             g == I[m]
  <2>1. m # 0 /\ m \in 1 .. m /\ f \in Frames /\ f = stack[m] /\ Awaits(page, f, top)
    <3>1. m # 0  BY <1>1, <1>6
    <3> QED BY <1>1, <1>6, <3>1
  <2>2. top.by # "run"  BY <2>1 DEF Awaits
  <2>3. NextOf(page, f).op \notin {"return", "throw"}  BY <2>1 DEF Awaits
  <2>4. CASE Fails
    <3>1. I = Throws(F)  BY <1>6, <2>2, <2>4 DEF EndComputed, ReturnFailed
    <3>2. g = [f EXCEPT !.thrown = TRUE] /\ \A i \in 1 .. m - 1 : I[i] = F[i]
      BY <1>1, <1>6, <3>1, ThrownIs
    <3> HIDE DEF I, m, F, g, f
    <3>3. /\ g.who = f.who /\ g.consumer = f.consumer /\ g.phase = f.phase
          /\ g.recursed = f.recursed /\ g.thrown /\ g.seen = f.seen
      BY <2>1, <3>2 DEF Frames
    <3>4. \A i \in 1 .. m : i \in 1 .. m - 1 \/ i = m  BY <1>1
    <3>5. \A i \in 1 .. m - 1 : I[i] = stack[i]  BY <1>1, <3>2
    <3>6. \A i \in 1 .. m :
              /\ I[i].who = stack[i].who /\ I[i].consumer = stack[i].consumer
              /\ I[i].phase = stack[i].phase /\ I[i].recursed = stack[i].recursed
      BY <2>1, <3>3, <3>4, <3>5 DEF g
    <3> QED BY <1>2, <2>1, <2>4, <3>3, <3>5, <3>6, <1>7 DEF I, m, g
  <2>5. CASE ~Fails
    <3>1. I = [F EXCEPT ![m] = a]  BY <1>1, <1>6, <2>2, <2>5 DEF EndComputed, Return
    <3>2. /\ a \in Frames /\ a.who = f.who /\ a.consumer = f.consumer /\ a.phase = f.phase
          /\ a.recursed = f.recursed
          /\ a.seen = IF w # Nobody /\ f.phase = "read" THEN f.seen \cup {<<w, Result>>} ELSE f.seen
      <4> HIDE DEF f, w
      <4>1. page \in Pages /\ f \in Frames /\ NextOf(page, f).op \notin {"return", "throw"}
            /\ Result \in Answers /\ w \in Nodes \cup {Nobody}
        BY <1>3, <1>4, <2>1, <2>3, <2>5
      <4> QED BY <4>1, AnsweredIs
    <3> HIDE DEF a, I
    <3>3. g = a /\ \A i \in 1 .. m - 1 : I[i] = F[i]  BY <1>1, <1>6, <3>1, <3>2, TopSet
    <3> HIDE DEF m, F, g, f
    <3>4. \A i \in 1 .. m : i \in 1 .. m - 1 \/ i = m  BY <1>1
    <3>5. \A i \in 1 .. m - 1 : I[i] = stack[i]  BY <1>1, <3>3
    <3>6. \A i \in 1 .. m :
              /\ I[i].who = stack[i].who /\ I[i].consumer = stack[i].consumer
              /\ I[i].phase = stack[i].phase /\ I[i].recursed = stack[i].recursed
      BY <2>1, <3>2, <3>3, <3>4, <3>5 DEF g
    <3>8. g.seen = IF f.phase = "read" THEN f.seen \cup {<<w, Result>>} ELSE f.seen
      BY <1>3, <3>2, <3>3
    <3> QED BY <1>2, <2>1, <2>5, <3>5, <3>6, <1>7, <3>8 DEF I, m, g
  <2> QED BY <2>4, <2>5
<1> QED BY <1>5, <1>6

(* What the end of w marks is disjoint from every part of the graph that     *)
(* does not read w: it was not told.                                         *)
LEMMA EndSpares ==
  ASSUME FreshInv, Busy, EndComputed, NEW D, Erodes(LeftWith, graph', D),
         \A T : (\A c \in (Computeds \cap T) \ (LeftWith.dirty \cup LeftWith.stopped) :
                 /\ c \notin LeftWith.subs[top.who]
                 /\ \A d \in Computeds \ T : c \notin LeftWith.subs[d])
              => D \cap T = {},
         NEW T, \A c \in Computeds \cap T :
           /\ graph.deps[c] \subseteq T /\ top.who \notin graph.deps[c]
           /\ c # top.who /\ c \in graph.dirty => c \in graph.stopped
  PROVE  D \cap T = {}
<1> DEFINE w == top.who
           G == graph
           L == LeftWith
<1>1. /\ IInv /\ w \in Computeds /\ w \in Observers /\ w \in Nodes
      /\ DerivingOK(stack, G)
  BY DEF FreshInv, EndComputed, Observers, Nodes
<1>2. /\ Undirtied.dirty = G.dirty \ {w} /\ Undirtied.stopped = G.stopped
      /\ Undirtied.deps = G.deps /\ Erodes(Undirtied, L, {w})
  BY <1>1, EndErodes
<1>3. BothSides(L, Unconfirmed(below)) /\ L.stopped = G.stopped
  BY <1>1, LeftWithIs DEF GraphOK
(* Whoever is below is dirty, and none of them is w. *)
<1>4. \A c \in Computeds : c \notin G.dirty \/ c = w =>
        \A n : <<c, n>> \notin Unconfirmed(below)
  <2> SUFFICES ASSUME NEW c \in Computeds, c \notin G.dirty \/ c = w, NEW n,
                      <<c, n>> \in Unconfirmed(below)
               PROVE  FALSE
    OBVIOUS
  <2>1. c \in Running(below)  BY DEF Unconfirmed, Running
  <2>2. c \in Running(stack) /\ c # w  BY <1>1, <2>1, BelowIs
  <2>3. c \in G.dirty
    <3>1. stack \in Seq(Frames)  BY <1>1 DEF IInv, StackOK
    <3>2. DOMAIN stack = 1 .. Len(stack)  BY <3>1
    <3> QED BY <1>1, <2>2, <3>2 DEF Running, DerivingOK
  <2> QED BY <2>2, <2>3
<1> HIDE DEF w, G, L
<1>5. ASSUME NEW c \in (Computeds \cap T) \ (L.dirty \cup L.stopped), NEW d \in Nodes,
             c \in L.subs[d]
      PROVE  d \in T /\ d # w
  <2>1. c \notin G.dirty \/ c = w  BY <1>2, <1>5 DEF Erodes
  <2>2. c \in Observers  BY DEF Observers
  <2>3. d \in L.deps[c]  BY <1>3, <1>4, <1>5, <2>1, <2>2 DEF BothSides
  <2>4. d \in G.deps[c]  BY <1>2, <2>2, <2>3 DEF Erodes
  <2> QED BY <2>4 DEF w, G
<1>6. \A c \in (Computeds \cap T) \ (L.dirty \cup L.stopped) :
         c \notin L.subs[w] /\ \A d \in Computeds \ T : c \notin L.subs[d]
  BY <1>1, <1>5 DEF Nodes
<1> QED BY <1>6 DEF L, w

LEMMA DerivationEnds ==
  ASSUME FreshInv, Busy, EndComputed, IInv'
  PROVE  FreshInv'
<1> DEFINE k == Len(stack)
           F == stack
           I == stack'
           w == top.who
           G == graph
           K == Undirtied
           N == Cleaned
           L == LeftWith
           H == graph'
           C == cache
           E == cache'
<1>1. /\ IInv /\ w \in Computeds /\ w \in Observers /\ w \in Nodes /\ w \notin Cells
      /\ DerivingOK(F, G) /\ FramesOK(F, G, val, C) /\ CleanOK(G, val, C, used)
      /\ G \in Graphs /\ H \in Graphs /\ StoppedLetGo(H) /\ I \in Seq(Frames)
      /\ F \in Seq(Frames) /\ Distinct(F)
  BY NamesAssumption DEF FreshInv, EndComputed, Observers, Nodes, IInv, GraphOK, StackOK
<1>2. PICK D :
    /\ Erodes(L, H, D) /\ D \subseteq H.dirty
    /\ D \cap (L.dirty \cup L.stopped) = {}
    /\ \A x \in Computeds \ (Running(F) \cup H.dirty \cup H.stopped) :
         /\ x \notin D /\ L.deps[x] \cap D = {}
         /\ x \in L.subs[w] /\ x # top.consumer =>
              E[w].value = C[w].value /\ E[w].failed = C[w].failed
    /\ \A T : (\A c \in (Computeds \cap T) \ (L.dirty \cup L.stopped) :
                 /\ c \notin L.subs[w]
                 /\ \A d \in Computeds \ T : c \notin L.subs[d])
              => D \cap T = {}
  BY <1>1, EndTold
<1>3. /\ K.dirty = G.dirty \ {w} /\ K.deps = G.deps /\ K.subs = G.subs /\ K.stopped = G.stopped
      /\ Erodes(K, L, {w}) /\ Erodes(K, H, {w} \cup D)
      /\ N.subs[w] # {} /\ w \notin G.stopped => N.deps[w] = G.deps[w]
  BY <1>1, <1>2, EndErodes
<1>4. /\ BothSides(L, Unconfirmed(below)) /\ L.stopped = G.stopped
      /\ LetsGo(N, w) => w \in L.dirty
      /\ ~LetsGo(N, w) => L = N
      /\ \A n \in Nodes : L.subs[n] \subseteq N.subs[n]
  <2>1. /\ GraphOK(L, below, mounted) /\ Erodes(N, L, {w}) /\ L.stopped = G.stopped
        /\ LetsGo(N, w) => w \in L.dirty
        /\ ~LetsGo(N, w) => L = N
    BY <1>1, LeftWithIs
  <2>2. \A n \in Nodes : L.subs[n] \subseteq N.subs[n]  BY <2>1 DEF Erodes
  <2> QED BY <2>1, <2>2 DEF GraphOK
<1>5. w \notin N.dirty /\ \A n \in Nodes : N.subs[n] \subseteq G.subs[n]
  BY <1>1, CleanedIs, ForgetIs DEF Erodes
<1>6. /\ k \in Nat /\ k # 0 /\ k = Len(F) /\ Len(I) = k - 1 /\ top = F[k] /\ w = F[k].who
      /\ \A i \in 1 .. k - 1 :
           /\ I[i].who = F[i].who /\ I[i].consumer = F[i].consumer
           /\ I[i].phase = F[i].phase /\ I[i].recursed = F[i].recursed
      /\ \A i \in 1 .. k - 2 : I[i] = F[i]
      /\ k > 1 => /\ Fails => I[k - 1].thrown /\ I[k - 1].seen = F[k - 1].seen
                  /\ ~Fails /\ F[k - 1].phase = "read" =>
                       I[k - 1].seen = F[k - 1].seen \cup {<<w, Result>>}
  BY <1>1, EndAnswers, InstructionIs DEF top
<1>7. F[k].thrown => Fails  BY DEF Fails, Instruction, top
<1>8. /\ E[w].failed = Fails /\ (~Fails => E[w].value = Result)
      /\ \A n \in Computeds \ {w} : E[n] = C[n]
      /\ used' = [used EXCEPT ![w] = F[k].seen] /\ val' = val
      /\ used \in [Observers -> SUBSET (Nodes \X Answers)]
  <2>1. C \in [Computeds -> [has : BOOLEAN, failed : BOOLEAN, value : Answers]]
        /\ used \in [Observers -> SUBSET (Nodes \X Answers)]
    BY <1>1 DEF IInv, RestOK
  <2>2. /\ E = [C EXCEPT ![w] = [has |-> TRUE, failed |-> Fails,
              value |-> IF Fails THEN @.value ELSE Result]]
        /\ used' = [used EXCEPT ![w] = top.seen] /\ val' = val
    BY DEF EndComputed
  <2> HIDE DEF C, E
  <2> QED BY <1>1, <2>1, <2>2 DEF F, k, top
<1>9. \A n \in Nodes \ {w} : Holds(val, E, n) = Holds(val, C, n)
                             /\ (n \in Computeds => E[n].failed = C[n].failed)
  BY <1>8 DEF Holds, Nodes
<1>a. /\ LetsGo(N, w) <=> (Fails /\ F[k].recursed) \/ N.subs[w] = {}  BY DEF LetsGo, top
<1>b. ASSUME NEW T, \A c \in Computeds \cap T :
           /\ G.deps[c] \subseteq T /\ w \notin G.deps[c]
           /\ c # w /\ c \in G.dirty => c \in G.stopped
      PROVE  D \cap T = {}
  BY <1>1, <1>2, <1>b, EndSpares
<1>c. F[k].consumer \in Computeds => k > 1 /\ F[k].consumer = F[k - 1].who
  BY <1>1, <1>6 DEF DerivingOK
<1>d. /\ DOMAIN F = 1 .. k /\ \A i \in 1 .. k : F[i] \in Frames /\ F[i].who \in Observers
  <2>1. DOMAIN F = 1 .. k /\ \A i \in 1 .. k : F[i] \in Frames  BY <1>1
  <2> QED BY <2>1 DEF Frames
<1> HIDE DEF k, F, I, w, G, K, N, L, H, C, E
<1>e. \A i \in 1 .. k : F[i].who \in Computeds =>
        /\ F[i].phase = "read" /\ F[i].who \in G.dirty
        /\ F[i].consumer \in Computeds => i > 1 /\ F[i].consumer = F[i - 1].who
        /\ F[i].recursed => F[k].thrown
        /\ \A j \in i .. k : F[j].who \in Computeds
  BY <1>1, <1>6 DEF DerivingOK
<1>f. \A x \in Computeds : x \in Running(F) => x \in G.dirty  BY <1>d, <1>e DEF Running
<1>g. ASSUME NEW T, NEW S, w \in S, Apart(T, S, G) PROVE T \cap ({w} \cup D) = {}
  <2>1. w \notin T /\ \A c \in Computeds \cap T : G.deps[c] \subseteq T  BY <1>g DEF Apart
  <2>2. \A c \in Computeds \cap T : c \in G.dirty => c \in G.stopped  BY <1>g DEF Apart
  <2> QED BY <1>b, <2>1, <2>2
(* If it ends clean, what it has read is still so, and it is not told.       *)
<1>h. ASSUME w \notin G.stopped, ~LetsGo(N, w)
      PROVE  /\ FrameOK(F, k, G, val, C) /\ ~F[k].recursed /\ L = N
             /\ N.deps[w] = G.deps[w]
             /\ Backed(w, F[k].seen, {w}, G, val, C)
             /\ ~Fails => \A n \in G.deps[w] : \E p \in F[k].seen : p[1] = n
  <2>1. ~F[k].recursed /\ N.subs[w] # {} /\ L = N
    BY <1>1, <1>4, <1>6, <1>7, <1>a, <1>e, <1>h
  <2>2. N.deps[w] = G.deps[w]  BY <1>3, <1>h, <2>1
  <2>3. ~Doomed(F[k], G) /\ k \in 1 .. Len(F)
    <3>1. G.subs[w] # {}  BY <1>1, <1>5, <2>1
    <3>2. F[k].who = w /\ k \in 1 .. Len(F)  BY <1>6
    <3> QED BY <1>h, <2>1, <3>1, <3>2 DEF Doomed
  <2>4. FrameOK(F, k, G, val, C)  BY <1>1, <1>6, <2>3 DEF FramesOK
  <2>5. FromOn(F, k) = {w}
    <3>1. \A j \in k .. Len(F) : j = k  BY <1>6
    <3>2. k \in k .. Len(F)  BY <1>6
    <3>3. w = F[k].who  BY <1>6
    <3> QED BY <3>1, <3>2, <3>3 DEF FromOn
  <2>6. Backed(w, F[k].seen, {w}, G, val, C)  BY <1>6, <2>4, <2>5 DEF FrameOK
  <2>7. ~Fails => \A n \in G.deps[w] : \E p \in F[k].seen : p[1] = n
    BY <1>6, <1>7, <2>4 DEF FrameOK
  <2> QED BY <2>1, <2>2, <2>4, <2>6, <2>7
<1>i. ASSUME NEW x \in Computeds \ (H.dirty \cup H.stopped), x # w
      PROVE  Good(x, used'[x], H, val, E)
  <2>1. x \in Observers /\ x \notin G.dirty /\ x \notin G.stopped /\ x \notin Running(F)
    BY <1>3, <1>f, <1>i DEF Erodes, Observers
  <2>2. Good(x, used[x], G, val, C) /\ used'[x] = used[x]
    BY <1>1, <1>8, <1>i, <2>1 DEF CleanOK
  <2>3. x \notin D /\ L.deps[x] \cap D = {}  BY <1>2, <1>i, <2>1
  <2>4. H.deps[x] = G.deps[x] /\ L.deps[x] = G.deps[x]
    <3>1. H.deps[x] = K.deps[x] /\ L.deps[x] \subseteq K.deps[x] /\ H.deps[x] \subseteq L.deps[x]
      BY <1>2, <1>3, <1>i, <2>1, <2>3 DEF Erodes
    <3> QED BY <1>3, <3>1
  <2>5. ASSUME w \in G.deps[x] \cap Kept(G, C)
        PROVE  w \in G.stopped /\ Holds(val, E, w) = Holds(val, C, w)
    <3>1. w \in G.dirty /\ k \in 1 .. k  BY <1>1, <1>6, <1>e
    <3>2. w \in G.stopped  BY <1>1, <2>5, <3>1 DEF Kept
    <3>3. x \in L.subs[w]  BY <1>1, <1>4, <2>1, <2>4, <2>5 DEF BothSides
    <3>4. x # F[k].consumer
      <4>1. k > 1 => k - 1 \in 1 .. k  BY <1>6
      <4> QED BY <1>c, <1>d, <2>1, <4>1 DEF Running
    <3>5. E[w].value = C[w].value  BY <1>2, <1>6, <1>i, <2>1, <3>3, <3>4
    <3> QED BY <1>1, <3>2, <3>5 DEF Holds
  <2>6. \A n \in G.deps[x] \cap Kept(G, C) :
           /\ n \notin {w} \cup D \/ n \in G.stopped
           /\ Holds(val, E, n) = Holds(val, C, n)
           /\ n \in Cells \cup G.stopped \/ E[n].failed = C[n].failed
    <3> SUFFICES ASSUME NEW n \in G.deps[x] \cap Kept(G, C)
                 PROVE  /\ n \notin {w} \cup D \/ n \in G.stopped
                        /\ Holds(val, E, n) = Holds(val, C, n)
                        /\ n \in Cells \cup G.stopped \/ E[n].failed = C[n].failed
      OBVIOUS
    <3>1. n \in Nodes /\ n \notin D  BY <1>1, <2>1, <2>3, <2>4 DEF Graphs
    <3>2. CASE n = w  BY <2>5, <3>2
    <3>3. CASE n # w  BY <1>9, <3>1, <3>3 DEF Nodes
    <3> QED BY <3>2, <3>3
  <2>7. E[x].failed = C[x].failed /\ x \notin ({w} \cup D) \cup H.dirty \cup H.stopped
    BY <1>8, <1>i, <2>3
  <2>8. K.dirty \subseteq G.dirty /\ K.deps = G.deps /\ K.stopped = G.stopped  BY <1>3
  <2> QED BY <1>1, <1>3, <2>2, <2>6, <2>7, <2>8, GoodStays
<1>j. ASSUME w \notin H.dirty \cup H.stopped
      PROVE  Good(w, used'[w], H, val, E)
  <2>1. w \notin G.stopped /\ ~LetsGo(N, w) /\ w \notin D
    BY <1>2, <1>3, <1>4, <1>j DEF Erodes
  <2>2. H.deps[w] = G.deps[w]  BY <1>1, <1>2, <1>h, <1>j, <2>1 DEF Erodes
  <2>3. \A T : Apart(T, {w}, G) => T \cap ({w} \cup D) = {}  BY <1>g
  <2>4. Backed(w, F[k].seen, {w}, G, val, C)  BY <1>h, <2>1
  <2>5. K.dirty \subseteq G.dirty /\ K.deps = G.deps /\ K.stopped = G.stopped  BY <1>3
  <2>6. {w} \subseteq {w}  OBVIOUS
  <2>7. Backed(w, F[k].seen, {w}, H, val, E)
    BY <1>1, <1>3, <1>9, <2>2, <2>3, <2>4, <2>5, <2>6, BackedStays
  <2>8. used'[w] = F[k].seen  BY <1>1, <1>8
  <2>9. ~E[w].failed => H.deps[w] \subseteq Kept(H, E)
    BY <1>8, <1>h, <2>1, <2>2, <2>7 DEF Backed, Sure
  <2> QED BY <2>7, <2>8, <2>9 DEF Good, Backed
<1>k. CleanOK(H, val, E, used')  BY <1>i, <1>j DEF CleanOK
<1>l. DerivingOK(I, H)
  <2> SUFFICES ASSUME NEW i \in 1 .. k - 1, I[i].who \in Computeds
               PROVE  /\ I[i].phase = "read" /\ I[i].who \in H.dirty
                      /\ I[i].consumer \in Computeds => i > 1 /\ I[i].consumer = I[i - 1].who
                      /\ I[i].recursed => I[k - 1].thrown
                      /\ \A j \in i .. k - 1 : I[j].who \in Computeds
    BY <1>6 DEF DerivingOK
  <2>1. i \in 1 .. k /\ (i > 1 => i - 1 \in 1 .. k - 1) /\ k > 1 /\ k \in 1 .. k /\ i # k
    BY <1>6
  <2>2. I[i].who = F[i].who /\ I[i].who # w /\ I[i].who \in G.dirty
    BY <1>1, <1>6, <1>d, <1>e, <2>1 DEF Distinct
  <2>3. I[i].who \in H.dirty  BY <1>3, <2>2 DEF Erodes
  <2>4. \A j \in i .. k - 1 : I[j].who \in Computeds
    <3> SUFFICES ASSUME NEW j \in i .. k - 1 PROVE I[j].who \in Computeds  OBVIOUS
    <3>1. j \in i .. k /\ j \in 1 .. k - 1  BY <1>6
    <3> QED BY <1>6, <1>e, <2>1, <2>2, <3>1
  <2>5. I[i].recursed => I[k - 1].thrown  BY <1>6, <1>7, <1>e, <2>1, <2>2
  <2> QED BY <1>6, <1>e, <2>1, <2>2, <2>3, <2>4, <2>5
<1>m. ASSUME NEW i \in 1 .. k - 1, I[i].who \in Computeds, ~Doomed(I[i], H)
      PROVE  FrameOK(I, i, H, val, E)
  <2> DEFINE o == F[i].who
             S == FromOn(F, i)
  <2>1. /\ i \in 1 .. k /\ k > 1 /\ k \in 1 .. k /\ i # k /\ i < Len(F) /\ i + 1 \in 1 .. k
        /\ i <= Len(I) /\ k - 1 \in 1 .. k - 1
    BY <1>6
  <2>2. /\ I[i].who = o /\ o \in Computeds /\ o # w /\ o \in G.dirty /\ o \in Observers /\ o \in Nodes
        /\ o \notin Cells
    BY <1>1, <1>6, <1>d, <1>e, <1>m, <2>1, NamesAssumption DEF Distinct, Nodes
  <2>3. o \notin H.stopped /\ H.subs[o] # {} /\ ~F[i].recursed
    BY <1>6, <1>m, <2>2 DEF Doomed
  <2>4. ~Doomed(F[i], G)  BY <1>3, <2>2, <2>3 DEF Doomed, Erodes
  <2>5. FrameOK(F, i, G, val, C)  BY <1>1, <1>6, <2>1, <2>2, <2>4 DEF FramesOK
  <2>6. H.deps[o] = G.deps[o] /\ o \in H.dirty
    <3>1. o \in K.dirty /\ o \notin D  BY <1>2, <1>3, <2>2 DEF Erodes
    <3> QED BY <1>3, <2>2, <2>3, <3>1 DEF Erodes
  <2>7. w \in S /\ FromOn(I, i) \subseteq S
    <3>1. k \in i .. Len(F)  BY <1>6, <2>1
    <3>2. \A j \in i .. Len(I) : j \in i .. Len(F) /\ I[j].who = F[j].who
      <4>1. \A j \in i .. Len(I) : j \in i .. Len(F) /\ j \in 1 .. k - 1  BY <1>6
      <4> QED BY <1>6, <4>1
    <3>3. w = F[k].who  BY <1>6
    <3> QED BY <3>1, <3>2, <3>3 DEF FromOn
  <2>8. \A T : Apart(T, S, G) => T \cap ({w} \cup D) = {}  BY <1>g, <2>7
  <2>9. Backed(o, F[i].seen, S, G, val, C)  BY <2>5 DEF FrameOK
  <2>10. K.dirty \subseteq G.dirty /\ K.deps = G.deps /\ K.stopped = G.stopped  BY <1>3
  <2>11. \A n \in Nodes \ S : Holds(val, E, n) = Holds(val, C, n)
                              /\ (n \in Computeds => E[n].failed = C[n].failed)
    BY <1>9, <2>7
  <2> HIDE DEF o, S
  <2>12. Backed(o, F[i].seen, FromOn(I, i), H, val, E)
    BY <1>1, <1>3, <2>2, <2>6, <2>7, <2>8, <2>9, <2>10, <2>11, BackedStays
  <2>13. CASE i # k - 1
    <3>1. i \in 1 .. k - 2 /\ i + 1 \in 1 .. k - 1 /\ i # Len(I) /\ i < Len(I)
      BY <1>6, <2>13
    <3>2. I[i] = F[i] /\ I[i + 1].who = F[i + 1].who  BY <1>6, <3>1
    <3>3. i # Len(F) /\ (\A n \in G.deps[o] : (\E p \in F[i].seen : p[1] = n) \/ n = F[i + 1].who)
          /\ F[i + 1].who \in G.deps[o]
      BY <1>6, <2>1, <2>5 DEF FrameOK, o
    <3> QED BY <2>2, <2>6, <2>12, <3>1, <3>2, <3>3 DEF FrameOK, o
  <2>14. CASE i = k - 1
    <3>1. i = Len(I) /\ ~(i < Len(I)) /\ i + 1 = k  BY <1>6, <2>14
    <3>2. (\A n \in G.deps[o] : (\E p \in F[i].seen : p[1] = n) \/ n = w) /\ w \in G.deps[o]
      <4>1. i # Len(F) /\ F[i + 1].who = w  BY <1>6, <2>1, <3>1
      <4> QED BY <2>1, <2>5, <4>1 DEF FrameOK, o
    <3>3. CASE Fails
      <4>1. I[i].thrown /\ I[i].seen = F[i].seen  BY <1>6, <2>1, <2>14, <3>3
      <4> QED BY <2>2, <2>12, <3>1, <4>1 DEF FrameOK
    <3>4. CASE ~Fails
      <4>1. I[i].seen = F[i].seen \cup {<<w, Result>>}
        BY <1>6, <1>e, <2>1, <2>2, <2>14, <3>4 DEF o
      <4>2. w \in H.stopped \/ w \notin H.dirty
        <5> SUFFICES ASSUME w \notin H.stopped PROVE w \notin H.dirty  OBVIOUS
        <5>1. w \in H.deps[o] /\ w \in L.deps[o]  BY <1>2, <2>2, <2>6, <3>2 DEF Erodes
        <5>2. w \notin G.stopped  BY <1>3 DEF Erodes
        <5>3. N.subs[w] # {}
          <6>1. o \in L.subs[w]  BY <1>1, <1>4, <2>2, <5>1 DEF BothSides
          <6> QED BY <1>1, <1>4, <6>1
        <5>4. ~LetsGo(N, w)  BY <1>a, <3>4, <5>3
        <5>5. L = N /\ Backed(w, F[k].seen, {w}, G, val, C)
              /\ \A n \in G.deps[w] : \E p \in F[k].seen : p[1] = n
          BY <1>h, <3>4, <5>2, <5>4
        <5>6. PICK T : Apart(T, {w}, G) /\ Within(F[k].seen, T)  BY <5>5 DEF Backed
        <5>7. D \cap (T \cup {w}) = {}
          <6>1. /\ w \notin T /\ \A c \in Computeds \cap T : G.deps[c] \subseteq T
                /\ \A c \in Computeds \cap T : c \in G.dirty => c \in G.stopped
            BY <5>6 DEF Apart
          <6>2. G.deps[w] \subseteq T  BY <5>5, <5>6 DEF Within
          <6>3. \A c \in Computeds \cap (T \cup {w}) :
                  /\ G.deps[c] \subseteq T \cup {w} /\ w \notin G.deps[c]
                  /\ c # w /\ c \in G.dirty => c \in G.stopped
            BY <6>1, <6>2
          <6> QED BY <1>b, <6>3
        <5> QED BY <1>1, <1>2, <1>5, <2>2, <5>1, <5>5, <5>7 DEF Erodes
      <4>3. Sure(I[i].seen, o, H, val, E)
        <5>1. \A p \in F[i].seen : p[1] \in H.deps[o] \cap Kept(H, E) /\ p[2] = Holds(val, E, p[1])
          BY <2>12 DEF Backed, Sure
        <5>2. /\ w \in H.deps[o] /\ w \in Kept(H, E) /\ Result = Holds(val, E, w)
          BY <1>1, <1>8, <2>6, <3>2, <3>4, <4>2 DEF Kept, Holds
        <5>3. \A p \in I[i].seen : p \in F[i].seen \/ (p[1] = w /\ p[2] = Result)  BY <4>1
        <5> QED BY <5>1, <5>2, <5>3 DEF Sure
      <4>4. FromOn(I, i) = {o}
        <5>1. \A j \in i .. Len(I) : j = i  BY <3>1
        <5>2. i \in i .. Len(I)  BY <3>1
        <5> QED BY <2>2, <5>1, <5>2 DEF FromOn
      <4>5. {o} \cap Cells = {} /\ {o} \subseteq H.dirty \ H.stopped  BY <2>2, <2>3, <2>6
      <4>6. Backed(o, I[i].seen, {o}, H, val, E)
        BY <1>1, <1>k, <2>2, <4>3, <4>5, SureIsBacked
      <4>7. \A n \in H.deps[o] : \E p \in I[i].seen : p[1] = n
        <5>1. <<w, Result>>[1] = w  OBVIOUS
        <5>2. \E p \in I[i].seen : p[1] = w  BY <4>1, <5>1
        <5>3. F[i].seen \subseteq I[i].seen  BY <4>1
        <5> QED BY <2>6, <3>2, <5>2, <5>3
      <4> QED BY <2>2, <3>1, <4>4, <4>6, <4>7 DEF FrameOK
    <3> QED BY <3>3, <3>4
  <2> QED BY <2>13, <2>14
<1>n. FramesOK(I, H, val, E)  BY <1>6, <1>m DEF FramesOK
<1> QED BY <1>8, <1>k, <1>l, <1>n DEF FreshInv, I, H, E

(* Derivations that only read keep the invariant in every step of the code.  *)
LEMMA StepStaysFresh ==
  ASSUME PureDerivations, FreshInv, Step, IInv'
  PROVE  FreshInv'
<1>1. Busy /\ IInv  BY DEF Step, FreshInv
<1>2. CASE ReadDirty  BY <1>1, <1>2, ReadStarts
<1>3. CASE ~ReadDirty /\ top.who \notin Computeds  BY <1>1, <1>3, ObserverSteps
<1>4. CASE ~ReadDirty /\ top.who \in Computeds
  <2>1. top.phase = "read"
    <3>1. Len(stack) \in 1 .. Len(stack)  BY <1>1, InstructionIs
    <3> QED BY <1>4, <3>1 DEF FreshInv, DerivingOK, top
  <2>2. page \in Pages /\ top \in Frames  BY <1>1, InstructionIs DEF IInv, RestOK
  <2>3. Instruction.op \in {"read", "return", "throw"}
    <3>1. CASE top.thrown  BY <3>1 DEF Instruction
    <3>2. CASE ~top.thrown
      BY <1>4, <2>1, <2>2, <3>2 DEF Instruction, PureDerivations, Frames
    <3> QED BY <3>1, <3>2
  <2>4. ~Write /\ ~Create /\ ~Destroy /\ ~EnterBody /\ ~EndObserver
    BY <1>4, <2>3, NamesAssumption DEF Write, Create, Destroy, EnterBody, EndObserver
  <2> QED BY <1>1, <1>4, <2>4, ReadsGoOn, DerivationEnds DEF Step
<1> QED BY <1>2, <1>3, <1>4

(* What a flush takes from its queues starts anew, or is left as it is.      *)
LEMMA QueuedStaysFresh ==
  ASSUME FreshInv, ~Busy, NEW o \in graph.queue, StepQueued(o),
         UNCHANGED <<val, cache, used>>, IInv'
  PROVE  FreshInv'
<1> DEFINE G == [graph EXCEPT !.queue = @ \ {o}]
<1>1. /\ IInv /\ graph \in Graphs /\ o \in Observers /\ stack = <<>> /\ Running(stack) = {}
      /\ \A f : Append(stack, f) = <<f>>
  BY EmptyStack DEF FreshInv, IInv, GraphOK, Graphs
<1>2. /\ G \in Graphs /\ G.subs = graph.subs /\ G.deps = graph.deps
      /\ G.dirty = graph.dirty /\ G.stopped = graph.stopped
  BY <1>1 DEF Graphs
<1>3. graph' = (IF Owes(o) THEN Anew(G, o) ELSE G) /\ stack' = IF Owes(o) THEN <<Run(o, "run")>> ELSE <<>>
  BY DEF StepQueued
<1> HIDE DEF G
<1>4. CASE Owes(o)
  <2>1. /\ graph'.dirty = graph.dirty /\ graph'.stopped = graph.stopped
        /\ graph'.subs = graph.subs /\ graph'.deps = [graph.deps EXCEPT ![o] = {}]
    BY <1>2, <1>3, <1>4 DEF Anew, Graphs
  <2>2. graph.deps \in [Observers -> SUBSET Nodes]  BY <1>1 DEF Graphs
  <2>3. graph'.deps[o] = {} /\ \A x \in Observers \ {o} : graph'.deps[x] = graph.deps[x]
    BY <1>1, <2>1, <2>2
  <2>4. CASE o \in Computeds
    <3>1. o \in graph.dirty \ graph.stopped  BY <1>4, <2>4 DEF Owes
    <3>2. stack' = Append(stack, Run(o, "run")) /\ o \notin Running(stack)
      BY <1>1, <1>3, <1>4
    <3> QED BY <2>1, <2>3, <2>4, <3>1, <3>2, DerivationStarts
  <2>5. CASE o \notin Computeds
    <3>1. CleanOK(graph', val', cache', used')
      BY <2>1, <2>3, <2>5, StillClean DEF Observers
    <3>2. Run(o, "run").who = o  BY <1>1, RunIs
    <3>3. Running(stack') \cap Computeds = {}  BY <1>3, <1>4, <2>5, <3>2 DEF Running
    <3> QED BY <3>1, <3>3, QuietStep
  <2> QED BY <2>4, <2>5
<1>5. CASE ~Owes(o)
  <2>1. CleanOK(graph', val', cache', used')  BY <1>2, <1>3, <1>5, StillClean
  <2>2. Running(stack') \cap Computeds = {}  BY <1>3, <1>5 DEF Running
  <2> QED BY <2>1, <2>2, QuietStep
<1> QED BY <1>4, <1>5

LEMMA FlushStaysFresh ==
  ASSUME FreshInv, StartFlush \/ Flush, IInv'
  PROVE  FreshInv'
<1>1. IInv /\ ~Busy /\ graph \in Graphs /\ Running(stack) = {}
  BY EmptyStack DEF FreshInv, IInv, GraphOK, StartFlush, Idle, Flush, StepComputed, BeginWatches,
     StepWatch, EndPass, StepDom, EndDoms
<1>2. UNCHANGED <<val, cache, used>>
  BY DEF StartFlush, Flush, StepComputed, BeginWatches, StepWatch, EndPass, StepDom, EndDoms
<1>3. ASSUME UNCHANGED stack, graph'.dirty = graph.dirty, graph'.stopped = graph.stopped,
             graph'.deps = graph.deps
      PROVE  FreshInv'
  <2>1. CleanOK(graph', val', cache', used')  BY <1>2, <1>3, StillClean
  <2>2. Running(stack') = {}  BY <1>1, <1>3
  <2> QED BY <2>1, <2>2, QuietStep
<1>4. CASE StartFlush
  <2>1. UNCHANGED stack /\ graph' = [graph EXCEPT !.pending = FALSE]
    BY <1>4 DEF StartFlush
  <2>2. graph'.dirty = graph.dirty /\ graph'.stopped = graph.stopped /\ graph'.deps = graph.deps
    BY <1>1, <2>1 DEF Graphs
  <2> QED BY <1>3, <2>1, <2>2
<1>5. CASE BeginWatches \/ EndPass \/ EndDoms
  BY <1>3, <1>5 DEF BeginWatches, EndPass, EndDoms
<1>6. ASSUME NEW o \in Computeds \cup Doms, StepComputed(o) \/ StepDom(o)
      PROVE  FreshInv'
  <2>1. o \in graph.queue /\ StepQueued(o)  BY <1>6 DEF StepComputed, StepDom, Queued
  <2> QED BY <1>1, <1>2, <2>1, QueuedStaysFresh
<1>7. CASE StepWatch
  <2> DEFINE w == First(flush.pass)
  <2>1. CASE w \in graph.stopped \/ w \notin graph.queue
    BY <1>3, <1>7, <2>1 DEF StepWatch
  <2>2. CASE w \in graph.queue /\ w \notin graph.stopped
    <3>1. StepQueued(w)  BY <1>7, <2>2 DEF StepWatch
    <3> HIDE DEF w
    <3> QED BY <1>1, <1>2, <2>2, <3>1, QueuedStaysFresh
  <2> QED BY <2>1, <2>2
<1> QED BY <1>4, <1>5, <1>6, <1>7 DEF Flush

LEMMA OutsideStaysFresh ==
  ASSUME FreshInv, Outside, IInv'
  PROVE  FreshInv'
<1>1. /\ IInv /\ ~Busy /\ graph \in Graphs /\ stack = <<>> /\ Running(stack) = {}
      /\ \A f : Append(stack, f) = <<f>>
  BY EmptyStack DEF FreshInv, IInv, GraphOK, Outside, Turn, Peek, Mount, Stop, Idle
<1>2. ASSUME NEW s \in Cells, NEW v \in Values, Turn(s, v)
      PROVE  FreshInv'
  <2>1. Assign(s, v) /\ UNCHANGED <<cache, stack, used>>  BY <1>2 DEF Turn
  <2>2. CleanOK(graph', val', cache', used')  BY <1>1, <2>1, AssignClean
  <2>3. Running(stack') = {}  BY <1>1, <2>1
  <2> QED BY <2>2, <2>3, QuietStep
<1>3. ASSUME NEW c \in Computeds, Peek(c)
      PROVE  FreshInv'
  <2>1. /\ c \in graph.dirty \ graph.stopped /\ graph' = Anew(graph, c)
        /\ stack' = Append(stack, Run(c, "access")) /\ c \notin Running(stack)
        /\ UNCHANGED <<val, cache, used>> /\ c \in Observers
    BY <1>1, <1>3 DEF Peek, Fresh, Observers
  <2>2. /\ graph'.dirty = graph.dirty /\ graph'.stopped = graph.stopped
        /\ graph'.subs = graph.subs /\ graph'.deps = [graph.deps EXCEPT ![c] = {}]
        /\ graph.deps \in [Observers -> SUBSET Nodes]
    BY <1>1, <2>1 DEF Anew, Graphs
  <2>3. graph'.deps[c] = {} /\ \A x \in Observers \ {c} : graph'.deps[x] = graph.deps[x]
    BY <2>1, <2>2
  <2> QED BY <1>1, <2>1, <2>2, <2>3, DerivationStarts
<1>4. ASSUME NEW o \in Watches \cup Doms, Mount(o)
      PROVE  FreshInv'
  <2>1. stack' = <<Run(o, "mount")>> /\ UNCHANGED <<graph, val, cache, used>>
    BY <1>4 DEF Mount
  <2>2. Run(o, "mount").who = o /\ o \notin Computeds
    BY <1>1, RunIs, NamesAssumption DEF Observers
  <2>3. Running(stack') \cap Computeds = {}  BY <2>1, <2>2 DEF Running
  <2>4. CleanOK(graph', val', cache', used')  BY <2>1, StillClean
  <2> QED BY <2>3, <2>4, QuietStep
<1>5. ASSUME NEW o \in Watches \cup Doms, Stop(o)
      PROVE  FreshInv'
  <2> DEFINE H == StopAll(graph, {o})
  <2>1. graph' = H /\ UNCHANGED <<val, cache, stack, used>> /\ {o} \in SUBSET Observers
    BY <1>5 DEF Stop, Observers
  <2>2. H \in Graphs /\ Erodes(graph, H, {})
    BY <1>1, <2>1, StopAllKeeps DEF IInv, GraphOK
  <2> HIDE DEF H
  <2>3. CleanOK(H, val, cache, used)  BY <1>1, <2>2, CleanErodes DEF FreshInv
  <2>4. Running(stack') = {}  BY <1>1, <2>1
  <2> QED BY <2>1, <2>3, <2>4, QuietStep
<1> QED BY <1>2, <1>3, <1>4, <1>5 DEF Outside

LEMMA StartsFresh == Init => FreshInv
<1> SUFFICES ASSUME Init PROVE FreshInv  OBVIOUS
<1>1. IInv  BY StartsOK
<1>2. DerivingOK(stack, graph) /\ FramesOK(stack, graph, val, cache)
  BY DEF Init, DerivingOK, FramesOK
<1>3. CleanOK(graph, val, cache, used)  BY DEF Init, CleanOK
<1> QED BY <1>1, <1>2, <1>3 DEF FreshInv

LEMMA StaysFresh ==
  ASSUME PureDerivations, FreshInv, [Next]_vars
  PROVE  FreshInv'
<1>1. IInv'  BY Inductive DEF FreshInv
<1>2. CASE Step  BY <1>1, <1>2, StepStaysFresh
<1>3. CASE StartFlush \/ Flush  BY <1>1, <1>3, FlushStaysFresh
<1>4. CASE Outside  BY <1>1, <1>4, OutsideStaysFresh
<1>5. CASE UNCHANGED vars  BY <1>1, <1>5 DEF vars, FreshInv
<1> QED BY <1>2, <1>3, <1>4, <1>5 DEF Next

LEMMA FreshIsCurrent == FreshInv => CleanIsCurrent
<1> SUFFICES ASSUME FreshInv,
                    NEW c \in Computeds \ (graph.dirty \cup graph.stopped),
                    NEW p \in used[c]
             PROVE  /\ p[2] = Current(p[1])
                    /\ p[1] \in Computeds \ graph.stopped =>
                         p[1] \notin graph.dirty /\ ~cache[p[1]].failed
  BY DEF CleanIsCurrent, StillTrue, Stands, FailsNow
<1>1. p[1] \in Kept(graph, cache) /\ p[2] = Holds(val, cache, p[1])
  BY DEF FreshInv, CleanOK, Good, Sure
<1>2. Computeds \cap Cells = {}  BY NamesAssumption DEF Observers
<1> QED BY <1>1, <1>2 DEF Kept, Holds, Current

(* On every page whose computeds only read, whatever its shape, its          *)
(* conditions, its cycles and its failures, a computed that is clean is what *)
(* its code would derive now: no read ever sees what a write has outdated.   *)
THEOREM DerivedIsCurrent == PureDerivations => (Spec => []CleanIsCurrent)
<1> SUFFICES ASSUME PureDerivations PROVE Spec => []CleanIsCurrent  OBVIOUS
<1>1. Init => FreshInv  BY StartsFresh
<1>2. FreshInv /\ [Next]_vars => FreshInv'  BY StaysFresh
<1>3. FreshInv => CleanIsCurrent  BY FreshIsCurrent
<1> QED BY <1>1, <1>2, <1>3, PTL DEF Spec

-----------------------------------------------------------------------------
(* Nobody is forgotten, if what observers evaluate only reads.               *)

(* Reading and starting runs makes nobody less attentive.                    *)
LEMMA MindsOn ==
  ASSUME NEW G, NEW H, NEW V, NEW C, NEW o, NEW r, NEW R, NEW R2,
         Minds(o, r, G, V, C, R), G.deps[o] \subseteq H.deps[o], H.dirty = G.dirty,
         H.stopped = G.stopped, G.queue \subseteq H.queue \cup R2, o \in G.queue => o \in H.queue,
         R \subseteq R2
  PROVE  Minds(o, r, H, V, C, R2)
<1>1. CASE o \in G.queue \cup G.stopped  BY <1>1 DEF Minds
<1>2. CASE \A p \in r : Heeds(o, p, G, V, C, R)
  <2>1. ASSUME NEW p \in r PROVE Heeds(o, p, H, V, C, R2)
    <3>1. Heeds(o, p, G, V, C, R)  BY <1>2
    <3> QED BY <3>1 DEF Heeds
  <2> QED BY <2>1 DEF Minds
<1> QED BY <1>1, <1>2 DEF Minds

(* Nor do telling and unsubscribing, if what is made dirty under it is       *)
(* queued and what ends under it ends as it was.                             *)
LEMMA MindsStay ==
  ASSUME NEW G \in Graphs, NEW K, NEW H \in Graphs, NEW D, D \subseteq Computeds,
         Erodes(K, H, D), K.dirty \subseteq G.dirty, K.deps = G.deps, K.stopped = G.stopped,
         G.queue \subseteq H.queue,
         NEW V, NEW W, NEW C, NEW E, NEW o \in Viewers, NEW r, NEW R, NEW R2,
         Minds(o, r, G, V, C, R),
         o \notin H.queue \cup H.stopped => \A n \in H.deps[o] :
           /\ Holds(W, E, n) = Holds(V, C, n)
           /\ n \in Computeds \ H.stopped /\ ~C[n].failed =>
                /\ ~E[n].failed
                /\ n \in D \ G.dirty => n \in H.queue
                /\ n \in R \ R2 => n \notin H.dirty
  PROVE  Minds(o, r, H, W, E, R2)
<1> SUFFICES ASSUME o \notin H.queue \cup H.stopped, NEW p \in r PROVE Heeds(o, p, H, W, E, R2)
  BY DEF Minds
<1> DEFINE n == p[1]
<1>1. o \in Observers /\ o \notin Computeds /\ o \notin D
  BY NamesAssumption DEF Viewers, Observers
<1>2. G.stopped \subseteq H.stopped /\ H.deps[o] = G.deps[o]  BY <1>1 DEF Erodes
<1>3. Heeds(o, p, G, V, C, R)  BY <1>2 DEF Minds
<1>4. n \in H.deps[o] /\ p[2] = Holds(W, E, n)  BY <1>2, <1>3 DEF Heeds
<1>5. ASSUME n \in Computeds \ H.stopped PROVE ~E[n].failed /\ (n \in H.dirty => n \in H.queue \cup R2)
  <2>1. ~C[n].failed /\ (n \in G.dirty => n \in G.queue \cup R)
    BY <1>2, <1>3, <1>5 DEF Heeds
  <2>2. /\ ~E[n].failed /\ (n \in D \ G.dirty => n \in H.queue)
        /\ n \in R \ R2 => n \notin H.dirty
    BY <1>4, <1>5, <2>1
  <2>3. n \in H.dirty \ G.dirty => n \in D  BY <1>1, <1>4, <1>5 DEF Erodes
  <2> QED BY <2>1, <2>2, <2>3
<1> QED BY <1>4, <1>5 DEF Heeds

(* What is sure is known.                                                    *)
LEMMA SureMinds ==
  ASSUME NEW G, NEW V, NEW C, NEW o, NEW r, Sure(r, o, G, V, C), NEW R
  PROVE  Minds(o, r, G, V, C, R)
<1>1. ASSUME NEW p \in r PROVE Heeds(o, p, G, V, C, R)
  <2>1. p[1] \in G.deps[o] /\ p[1] \in Kept(G, C) /\ p[2] = Holds(V, C, p[1])  BY DEF Sure
  <2>2. p[1] \in Computeds => p[1] \notin Cells  BY NamesAssumption DEF Observers
  <2> QED BY <2>1, <2>2 DEF Heeds, Kept
<1> QED BY <1>1 DEF Minds

LEMMA SureIsBackedAlone ==
  ASSUME NEW G \in Graphs, StoppedLetGo(G), NEW V, NEW C, NEW U, CleanOK(G, V, C, U),
         NEW o \in Observers, NEW r, Sure(r, o, G, V, C), NEW S, S \cap Nodes = {}
  PROVE  Backed(o, r, S, G, V, C)
<1>1. Backed(o, r, {}, G, V, C)  BY SureIsBacked
<1>2. PICK T : Apart(T, {}, G) /\ Within(r, T)  BY <1>1 DEF Backed
<1>3. Apart(T, S, G)  BY <1>2 DEF Apart
<1> QED BY <1>2, <1>3 DEF Backed

LEMMA ViewersAre ==
  \A o \in Viewers : o \in Observers /\ o \notin Nodes /\ o \notin Computeds /\ o \notin Cells
BY NamesAssumption DEF Viewers, Observers, Nodes

(* The last run stands alone on its own frame.                               *)
LEMMA FromTop ==
  ASSUME NEW F \in Seq(Frames), F # <<>>
  PROVE  FromOn(F, Len(F)) = {F[Len(F)].who}
<1>1. Len(F) \in Nat /\ Len(F) \in Len(F) .. Len(F) /\ \A j \in Len(F) .. Len(F) : j = Len(F)
  OBVIOUS
<1> QED BY <1>1 DEF FromOn

LEMMA FromAlike ==
  ASSUME NEW F \in Seq(Frames), NEW H \in Seq(Frames), Len(H) = Len(F),
         \A i \in 1 .. Len(F) : H[i].who = F[i].who
  PROVE  \A i \in 1 .. Len(F) : FromOn(H, i) = FromOn(F, i)
<1> SUFFICES ASSUME NEW i \in 1 .. Len(F) PROVE FromOn(H, i) = FromOn(F, i)  OBVIOUS
<1>1. \A j \in i .. Len(F) : H[j].who = F[j].who  OBVIOUS
<1> QED BY <1>1 DEF FromOn

(* Reads.                                                                    *)

(* A read answers with what is kept, or fails.                               *)
LEMMA ReadAnswers ==
  ASSUME IInv, Busy, ReadCell \/ ReadFresh \/ ReadRecursive
  PROVE  /\ \A i \in 1 .. Len(stack) :
              stack'[i].consumer = stack[i].consumer /\ stack'[i].phase = stack[i].phase
         /\ \A i \in 1 .. Len(stack) - 1 : stack'[i].seen = stack[i].seen
         /\ \/ stack'[Len(stack)].seen = top.seen
            \/ /\ top.phase = "read" /\ Instruction.of \in Kept(graph, cache)
               /\ stack'[Len(stack)].seen =
                    top.seen \cup {<<Instruction.of, Holds(val, cache, Instruction.of)>>}
<1> DEFINE n == Instruction.of
           k == Len(stack)
           R(i) == stack'[i].consumer = stack[i].consumer /\ stack'[i].phase = stack[i].phase
           O(i) == stack'[i].seen = stack[i].seen
           A(f) == \/ f.seen = top.seen
                   \/ /\ top.phase = "read" /\ n \in Kept(graph, cache)
                      /\ f.seen = top.seen \cup {<<n, Holds(val, cache, n)>>}
<1>1. /\ stack \in Seq(Frames) /\ stack # <<>> /\ Instruction.op = "read"
      /\ n \in Nodes /\ n # Nobody
  BY InstructionIs, NamesAssumption DEF IInv, StackOK, Busy, ReadCell, ReadFresh, ReadRecursive
<1>2. k \in Nat /\ k \in 1 .. k /\ top = stack[k] /\ \A i \in 1 .. k : i \in 1 .. k - 1 \/ i = k
  BY <1>1, InstructionIs DEF top
<1>3. ASSUME n \in Kept(graph, cache), NEW v \in Answers, v = Holds(val, cache, n), Continue(n, v)
      PROVE  (\A i \in 1 .. k : R(i)) /\ (\A i \in 1 .. k - 1 : O(i)) /\ A(stack'[k])
  <2>1. /\ \A i \in 1 .. k - 1 : stack'[i] = stack[i]
        /\ LET f == stack'[k] IN
              /\ f.consumer = top.consumer /\ f.phase = top.phase
              /\ f.seen = IF n # Nobody /\ top.phase = "read"
                            THEN top.seen \cup {<<n, v>>} ELSE top.seen
    BY <1>1, <1>3, ContinueIs
  <2> HIDE DEF k, n
  <2> QED BY <1>1, <1>2, <1>3, <2>1
<1>4. ASSUME NEW F, F \in Seq(Frames), F # <<>>, Len(F) = k, stack' = Throws(F),
             \A i \in 1 .. k : /\ F[i].seen = stack[i].seen /\ F[i].consumer = stack[i].consumer
                               /\ F[i].phase = stack[i].phase
      PROVE  (\A i \in 1 .. k : R(i)) /\ (\A i \in 1 .. k - 1 : O(i)) /\ A(stack'[k])
  <2>1. /\ \A i \in 1 .. k - 1 : stack'[i] = F[i]
        /\ stack'[k] = [F[k] EXCEPT !.thrown = TRUE] /\ F[k] \in Frames
    BY <1>2, <1>4, ThrownIs
  <2>2. /\ stack'[k].consumer = F[k].consumer /\ stack'[k].phase = F[k].phase
        /\ stack'[k].seen = F[k].seen
    BY <2>1 DEF Frames
  <2> HIDE DEF k, n
  <2>4. \A i \in 1 .. k - 1 : O(i)
    <3>1. \A i \in 1 .. k - 1 : i \in 1 .. k  BY <1>2
    <3> QED BY <1>4, <2>1, <3>1
  <2>5. A(stack'[k])  BY <1>2, <1>4, <2>2
  <2>6. ASSUME NEW i \in 1 .. k PROVE R(i)
    <3>1. F[i].consumer = stack[i].consumer /\ F[i].phase = stack[i].phase  BY <1>4
    <3>2. i \in 1 .. k - 1 => stack'[i] = F[i]  BY <2>1
    <3>3. i = k => stack'[i].consumer = F[i].consumer /\ stack'[i].phase = F[i].phase
      BY <2>2
    <3> QED BY <1>2, <3>1, <3>2, <3>3
  <2> QED BY <2>4, <2>5, <2>6
<1>5. (\A i \in 1 .. k : R(i)) /\ (\A i \in 1 .. k - 1 : O(i)) /\ A(stack'[k])
  <2>1. CASE ReadCell
    <3>1. n \in Cells /\ Continue(n, val[n]) /\ val[n] = Holds(val, cache, n) /\ val[n] \in Answers
      BY <1>1, <2>1 DEF ReadCell, Holds, IInv, RestOK, Answers
    <3> QED BY <1>3, <3>1 DEF Kept
  <2>2. CASE ReadFresh
    <3>1. n \in Computeds /\ Fresh(n) /\ n \notin Cells
      BY <2>2, NamesAssumption DEF ReadFresh, Observers
    <3>2. CASE cache[n].failed  BY <1>1, <1>4, <2>2, <3>1, <3>2 DEF ReadFresh
    <3>3. CASE ~cache[n].failed
      <4>1. /\ Continue(n, cache[n].value) /\ cache[n].value = Holds(val, cache, n)
            /\ cache[n].value \in Answers
        BY <1>1, <2>2, <3>1, <3>3 DEF ReadFresh, Holds, IInv, RestOK
      <4>2. n \in Kept(graph, cache)  BY <3>1, <3>3 DEF Kept, Fresh
      <4> QED BY <1>3, <4>1, <4>2
    <3> QED BY <3>2, <3>3
  <2>3. CASE ReadRecursive
    <3>1. stack' = Throws(Remembered(n))  BY <2>3 DEF ReadRecursive, Remembered
    <3>2. /\ Remembered(n) \in Seq(Frames) /\ Remembered(n) # <<>> /\ Len(Remembered(n)) = k
          /\ \A i \in 1 .. k :
              /\ Remembered(n)[i].seen = stack[i].seen
              /\ Remembered(n)[i].consumer = stack[i].consumer
              /\ Remembered(n)[i].phase = stack[i].phase
      BY <1>1, RememberedIs
    <3> HIDE DEF k, n, R, O, A
    <3> QED BY <1>4, <3>1, <3>2
  <2> QED BY <2>1, <2>2, <2>3
<1> QED BY <1>5

(* A view is as good as it was if whoever runs on top reads on, or a run     *)
(* begins above.                                                             *)
LEMMA ViewOn ==
  ASSUME NEW F \in Seq(Frames), NEW I \in Seq(Frames), NEW G \in Graphs, NEW H \in Graphs,
         NEW V, NEW C, NEW i \in 1 .. Len(F), F[i].who \in Viewers, ViewOK(F, i, G, V, C),
         Running(F) \subseteq Running(I),
         I[i].who = F[i].who, I[i].phase = F[i].phase, I[i].seen = F[i].seen,
         i < Len(F) => I[i + 1].who = F[i + 1].who,
         i = Len(F) /\ i < Len(I) /\ F[i].phase = "read" /\ I[i + 1].who \in Computeds =>
           I[i + 1].who \in H.deps[F[i].who],
         FromOn(I, i) \cap Nodes \subseteq FromOn(F, i) \cup (G.dirty \ G.stopped),
         H.dirty = G.dirty, H.stopped = G.stopped, H.queue = G.queue,
         G.deps[F[i].who] \subseteq H.deps[F[i].who],
         \A x \in Computeds \ (FromOn(F, i) \cup (G.dirty \ G.stopped)) : H.deps[x] = G.deps[x]
  PROVE  ViewOK(I, i, H, V, C)
<1>1. CASE F[i].phase = "read"
  <2>1. Backed(F[i].who, F[i].seen, FromOn(F, i), G, V, C)
        /\ (i < Len(F) /\ F[i + 1].who \in Computeds => F[i + 1].who \in G.deps[F[i].who])
    BY <1>1 DEF ViewOK
  <2>2. F[i].who \in Observers  BY ViewersAre
  <2>3. Backed(F[i].who, F[i].seen, FromOn(I, i), H, V, C)  BY <2>1, <2>2, BackedSame
  <2>4. i < Len(I) /\ I[i + 1].who \in Computeds => I[i + 1].who \in H.deps[F[i].who]
    <3>1. CASE i < Len(F)  BY <2>1, <3>1
    <3>2. CASE i = Len(F)  BY <1>1, <3>2
    <3> QED BY <3>1, <3>2
  <2> QED BY <1>1, <2>3, <2>4 DEF ViewOK
<1>2. CASE F[i].phase # "read"
  <2>1. Minds(F[i].who, F[i].seen, G, V, C, Running(F))  BY <1>2 DEF ViewOK
  <2>2. Minds(F[i].who, F[i].seen, H, V, C, Running(I))  BY <2>1, MindsOn
  <2> QED BY <1>2, <2>2 DEF ViewOK
<1> QED BY <1>1, <1>2

LEMMA ReadsKnow ==
  ASSUME KnowsInv, FreshInv', Busy, ReadCell \/ ReadFresh \/ ReadRecursive
  PROVE  KnowsInv'
<1> DEFINE n == Instruction.of
           k == Len(stack)
           F == stack
           I == stack'
           G == graph
           H == graph'
<1>1. /\ IInv /\ F \in Seq(Frames) /\ F # <<>> /\ G \in Graphs /\ H \in Graphs
      /\ I \in Seq(Frames) /\ StoppedLetGo(H) /\ CleanOK(H, val', cache', used')
      /\ Distinct(F)
  BY DEF KnowsInv, FreshInv, IInv, StackOK, GraphOK, Busy
<1>2. n \in Nodes /\ H = Track(G, n) /\ UNCHANGED <<val, cache, used, flush>>
  BY DEF ReadCell, ReadFresh, ReadRecursive, Nodes
<1>3. Alike(F, I) /\ Running(I) = Running(F)  BY <1>1, GoesOn, AlikeStack DEF IInv
<1>4. /\ k \in Nat /\ k # 0 /\ k = Len(F) /\ k = Len(I) /\ top = F[k]
      /\ \A i \in 1 .. k : /\ I[i].who = F[i].who /\ I[i].consumer = F[i].consumer
                            /\ I[i].phase = F[i].phase
      /\ \A i \in 1 .. k - 1 : I[i].seen = F[i].seen
      /\ \/ I[k].seen = F[k].seen
         \/ /\ F[k].phase = "read" /\ n \in Kept(G, cache)
            /\ I[k].seen = F[k].seen \cup {<<n, Holds(val, cache, n)>>}
  BY <1>1, <1>3, ReadAnswers, InstructionIs DEF Alike, top
<1>5. /\ H.stopped = G.stopped /\ H.dirty = G.dirty /\ H.queue = G.queue /\ H.pending = G.pending
      /\ \/ Active \in {Nobody, n} \cup G.stopped /\ H = G
         \/ H.deps = [G.deps EXCEPT ![Active] = @ \cup {n}]
  <2>1. H.pending = G.pending  BY <1>1, <1>2 DEF Track, Graphs
  <2>2. /\ Track(G, n).stopped = G.stopped /\ Track(G, n).dirty = G.dirty
        /\ Track(G, n).queue = G.queue
        /\ \/ Active \in {Nobody, n} \cup G.stopped /\ Track(G, n) = G
           \/ Track(G, n).deps = [G.deps EXCEPT ![Active] = @ \cup {n}]
    BY <1>1, <1>2, TrackIs
  <2> QED BY <1>1, <1>2, <2>1, <2>2
<1>6. G.deps \in [Observers -> SUBSET Nodes] /\ H.deps \in [Observers -> SUBSET Nodes]
  BY <1>1 DEF Graphs
<1>7. Active = Nobody \/ (Active = F[k].who /\ F[k].phase = "read")
  BY <1>1, <1>4, ActiveIs
<1>f. DOMAIN F = 1 .. k  BY <1>1
<1>g. DOMAIN I = 1 .. k  BY <1>1, <1>4
<1>8. \A i \in 1 .. k : FromOn(I, i) = FromOn(F, i) /\ F[k].who \in FromOn(F, i)
  <2>1. \A i \in 1 .. k : FromOn(I, i) = FromOn(F, i)
    BY <1>1, <1>4, <1>f, <1>g, FromAlike
  <2>2. \A i \in 1 .. k : k \in i .. Len(F)  BY <1>4
  <2> QED BY <2>1, <2>2 DEF FromOn
<1> HIDE DEF n, k, F, I, G, H
<1>9. \A o \in Observers : G.deps[o] \subseteq H.deps[o]  BY <1>5, <1>6
<1>a. \A x \in Observers : x # F[k].who => H.deps[x] = G.deps[x]
  BY <1>5, <1>6, <1>7, NamesAssumption
<1>b. ShapeOK(I)
  <2>1. ShapeOK(F)  BY DEF KnowsInv, F
  <2> SUFFICES ASSUME NEW i \in 1 .. k
               PROVE  /\ I[i].who \in Watches => i = 1
                      /\ I[i].phase = "body" => I[i].who \in Watches
                      /\ I[i].consumer # Nobody =>
                           i > 1 /\ I[i].consumer = I[i - 1].who /\ I[i - 1].phase = "read"
    BY <1>4 DEF ShapeOK
  <2>2. i > 1 => i - 1 \in 1 .. k  BY <1>4
  <2> QED BY <1>4, <1>f, <1>g, <2>1, <2>2 DEF ShapeOK
<1>c. ASSUME NEW i \in 1 .. k, I[i].who \in Viewers \ H.stopped
      PROVE  ViewOK(I, i, H, val, cache)
  <2> DEFINE o == F[i].who
  <2>1. o \in Viewers \ G.stopped /\ ViewOK(F, i, G, val, cache) /\ I[i].who = o
    BY <1>4, <1>f, <1>g, <1>5, <1>c DEF KnowsInv, ViewsOK, F, G
  <2>2. o \in Observers /\ o \notin Nodes /\ o # Nobody /\ o \notin Computeds
    BY <2>1, ViewersAre, NamesAssumption
  <2>3. ~(i = Len(F) /\ i < Len(I))  BY <1>4, <1>f, <1>g
  <2>4. i < Len(F) => I[i + 1].who = F[i + 1].who  BY <1>4, <1>f, <1>g
  <2>5. \A x \in Computeds \ (FromOn(F, i) \cup (G.dirty \ G.stopped)) : H.deps[x] = G.deps[x]
    BY <1>8, <1>a DEF Observers
  <2>6. FromOn(I, i) \cap Nodes \subseteq FromOn(F, i) \cup (G.dirty \ G.stopped)  BY <1>8
  <2>7. ASSUME I[i].seen = F[i].seen PROVE ViewOK(I, i, H, val, cache)
    <3>1. i \in 1 .. Len(F) /\ F[i].who \in Viewers /\ Running(F) \subseteq Running(I)
          /\ I[i].phase = F[i].phase /\ G.deps[F[i].who] \subseteq H.deps[F[i].who]
      BY <1>3, <1>4, <1>f, <1>g, <1>9, <2>1, <2>2 DEF F, I
    <3>2. F \in Seq(Frames) /\ I \in Seq(Frames) /\ G \in Graphs /\ H \in Graphs
          /\ H.dirty = G.dirty /\ H.stopped = G.stopped /\ H.queue = G.queue
      BY <1>1, <1>5
    <3> HIDE DEF o
    <3>3. I[i].who = F[i].who  BY <2>1 DEF o
    <3> QED BY <2>1, <2>3, <2>4, <2>5, <2>6, <2>7, <3>1, <3>2, <3>3, ViewOn
  <2>8. ASSUME I[i].seen # F[i].seen PROVE ViewOK(I, i, H, val, cache)
    <3>1. /\ i = k /\ F[k].phase = "read" /\ n \in Kept(G, cache)
          /\ I[k].seen = F[k].seen \cup {<<n, Holds(val, cache, n)>>}
      BY <1>4, <1>f, <1>g, <2>8
    <3>2. Backed(o, F[i].seen, FromOn(F, i), G, val, cache)  BY <2>1, <3>1 DEF ViewOK
    <3>3. FromOn(I, i) = {o}  BY <1>1, <1>4, <1>f, <1>g, <1>8, <3>1, FromTop DEF o
    <3>4. n \in H.deps[o] /\ n \in Kept(H, cache)
      <4>1. Active = o
        BY <1>1, <1>4, <1>f, <1>g, <2>1, <2>2, <3>1 DEF Active, Busy, F, top
      <4>2. H.deps[o] = G.deps[o] \cup {n} \/ (Active \in {n} \cup G.stopped \cup {Nobody})
        BY <1>5, <1>6, <2>2, <4>1
      <4>3. n \in H.deps[o]  BY <1>2, <2>1, <2>2, <4>1, <4>2 DEF n
      <4> QED BY <1>5, <3>1, <4>3 DEF Kept
    <3>5. Sure(I[i].seen, o, H, val, cache)
      <4>1. \A p \in F[i].seen : p[1] \in G.deps[o] \cap Kept(G, cache) /\ p[2] = Holds(val, cache, p[1])
        BY <3>2 DEF Backed, Sure
      <4>2. Kept(H, cache) = Kept(G, cache)  BY <1>5 DEF Kept
      <4>3. \A p \in I[i].seen : p \in F[i].seen \/ (p[1] = n /\ p[2] = Holds(val, cache, n))
        BY <3>1
      <4> QED BY <1>9, <2>2, <3>4, <4>1, <4>2, <4>3 DEF Sure
    <3>6. Backed(o, I[i].seen, FromOn(I, i), H, val, cache)
      <4>1. CleanOK(H, val, cache, used)  BY <1>1, <1>2 DEF H
      <4>2. FromOn(I, i) \cap Nodes = {}  BY <2>2, <3>3
      <4> HIDE DEF o
      <4> QED BY <1>1, <2>2, <3>5, <4>1, <4>2, SureIsBackedAlone
    <3> QED BY <1>4, <1>f, <1>g, <2>1, <2>3, <3>1, <3>6 DEF ViewOK
  <2> QED BY <2>7, <2>8
<1>d. SeenOK(I, H, val, cache, used)
  <2> SUFFICES ASSUME NEW o \in Viewers \ Running(I)
               PROVE  Minds(o, used[o], H, val, cache, Running(I))
    BY DEF SeenOK
  <2>1. Minds(o, used[o], G, val, cache, Running(F)) /\ o \in Observers
    BY <1>3, ViewersAre DEF KnowsInv, SeenOK, F, G, I
  <2> QED BY <1>3, <1>5, <1>9, <2>1, MindsOn DEF F, I
<1>e. ViewsOK(I, H, val, cache) /\ QueueOK(flush.phase, H)
  <2>1. QueueOK(flush.phase, H)  BY <1>5 DEF KnowsInv, QueueOK, G
  <2> QED BY <1>4, <1>f, <1>g, <1>c, <2>1 DEF ViewsOK
<1> QED BY <1>2, <1>b, <1>d, <1>e DEF KnowsInv, I, H

(* Runs that start.                                                          *)

LEMMA BackedByNothing ==
  ASSUME NEW o, NEW S, NEW G, NEW V, NEW C
  PROVE  Backed(o, {}, S, G, V, C)
<1>1. Apart({}, S, G) /\ Within({}, {})  BY DEF Apart, Within
<1> QED BY <1>1 DEF Backed, Sure

(* A run begins on top of the others, or alone.                              *)
LEMMA RunsKnow ==
  ASSUME KnowsInv, FreshInv', NEW o \in Observers, o \notin Running(stack),
         NEW by \in {"run", "access", "mount"}, stack' = Append(stack, Run(o, by)),
         Busy => Awaits(page, top, Run(o, by)), o \in Watches => ~Busy,
         graph'.dirty = graph.dirty, graph'.stopped = graph.stopped,
         Busy => graph'.queue = graph.queue,
         graph.queue \subseteq graph'.queue \cup {o},
         \A x \in Observers \ {o} : graph.deps[x] \subseteq graph'.deps[x],
         \A x \in Computeds \ {o} : graph'.deps[x] = graph.deps[x] \/ (Busy /\ x = top.who),
         o \in Computeds => o \in graph.dirty \ graph.stopped,
         o \in Computeds /\ Busy /\ top.phase = "read" /\ top.who \in Viewers \ graph.stopped =>
           o \in graph'.deps[top.who],
         QueueOK(flush'.phase, graph'), UNCHANGED <<val, cache, used>>
  PROVE  KnowsInv'
<1> DEFINE k == Len(stack)
           F == stack
           I == stack'
           G == graph
           H == graph'
           f == Run(o, by)
<1>1. /\ IInv /\ F \in Seq(Frames) /\ G \in Graphs /\ H \in Graphs /\ Distinct(F)
      /\ Waits(page, F) /\ I \in Seq(Frames)
  BY DEF KnowsInv, FreshInv, IInv, StackOK, GraphOK
<1>2. /\ f \in Frames /\ f.who = o /\ f.consumer = Active /\ f.phase = "read" /\ f.seen = {}
  BY <1>1, RunIs
<1>3. /\ k \in Nat /\ k = Len(F) /\ Len(I) = k + 1 /\ I[k + 1] = f
      /\ \A i \in 1 .. k : I[i] = F[i]
      /\ Running(I) = Running(F) \cup {o}
  <2>1. F # <<>> => Awaits(page, F[Len(F)], f)  BY DEF Busy, top
  <2>2. f.who \notin Running(F)  BY <1>2
  <2> HIDE DEF f, F
  <2> QED BY <1>1, <1>2, <2>1, <2>2, Pushed DEF f, F
<1>4. Active = Nobody \/ (Busy /\ Active = top.who /\ top.phase = "read")
  BY <1>1, ActiveIs
<1>5. Busy => k \in 1 .. k /\ top = F[k] /\ top.who \in Running(F)
  BY <1>1, <1>3, TopRuns, InstructionIs DEF top
<1>f. DOMAIN F = 1 .. k /\ DOMAIN I = 1 .. k + 1  BY <1>1, <1>3
<1>6. \A i \in 1 .. k : FromOn(I, i) = FromOn(F, i) \cup {o} /\ (Busy => top.who \in FromOn(F, i))
  <2> SUFFICES ASSUME NEW i \in 1 .. k
               PROVE  FromOn(I, i) = FromOn(F, i) \cup {o} /\ (Busy => top.who \in FromOn(F, i))
    OBVIOUS
  <2>1. \A j : j \in i .. k + 1 <=> j \in i .. k \/ j = k + 1  BY <1>3
  <2>2. \A j \in i .. k : I[j].who = F[j].who  BY <1>3
  <2>3. Busy => k \in i .. k /\ top = F[k]  BY <1>3, <1>5
  <2>4. I[k + 1].who = o  BY <1>2, <1>3
  <2> HIDE DEF F, I, k
  <2>5. FromOn(F, i) = {F[j].who : j \in i .. k} /\ FromOn(I, i) = {I[j].who : j \in i .. k + 1}
    BY <1>3 DEF FromOn
  <2>6. FromOn(I, i) \subseteq FromOn(F, i) \cup {o}  BY <2>1, <2>2, <2>4, <2>5
  <2>7. o \in FromOn(I, i) /\ FromOn(F, i) \subseteq FromOn(I, i)
    <3>1. k + 1 \in i .. k + 1  BY <1>3
    <3> QED BY <2>1, <2>2, <2>4, <2>5, <3>1
  <2>8. Busy => top.who \in FromOn(F, i)  BY <2>3, <2>5
  <2> QED BY <2>6, <2>7, <2>8
<1> HIDE DEF k, F, I, G, H, f
<1>7. ShapeOK(I)
  <2>1. ShapeOK(F)  BY DEF KnowsInv, F
  <2> SUFFICES ASSUME NEW i \in 1 .. k + 1
               PROVE  /\ I[i].who \in Watches => i = 1
                      /\ I[i].phase = "body" => I[i].who \in Watches
                      /\ I[i].consumer # Nobody =>
                           i > 1 /\ I[i].consumer = I[i - 1].who /\ I[i - 1].phase = "read"
    BY <1>3 DEF ShapeOK
  <2>2. CASE i \in 1 .. k
    <3>1. i > 1 => i - 1 \in 1 .. k  BY <1>3, <2>2
    <3>2. I[i] = F[i] /\ (i > 1 => I[i - 1] = F[i - 1])  BY <1>3, <2>2, <3>1
    <3>3. /\ F[i].who \in Watches => i = 1
          /\ F[i].phase = "body" => F[i].who \in Watches
          /\ F[i].consumer # Nobody =>
               i > 1 /\ F[i].consumer = F[i - 1].who /\ F[i - 1].phase = "read"
      BY <1>3, <2>1, <2>2 DEF ShapeOK
    <3> QED BY <3>2, <3>3
  <2>3. CASE i = k + 1
    <3>1. I[i].phase = "read" /\ I[i].consumer = Active /\ I[i].who = o
      BY <1>2, <1>3, <2>3
    <3>2. o \in Watches => k = 0  BY <1>1, <1>3 DEF Busy, F
    <3>3. Active # Nobody => i > 1 /\ Active = I[i - 1].who /\ I[i - 1].phase = "read"
      <4> SUFFICES ASSUME Active # Nobody
                   PROVE  i > 1 /\ Active = I[i - 1].who /\ I[i - 1].phase = "read"
        OBVIOUS
      <4>1. Busy /\ Active = top.who /\ top.phase = "read" /\ k \in 1 .. k /\ top = F[k]
        BY <1>4, <1>5
      <4>2. i > 1 /\ i - 1 = k  BY <1>3, <2>3, <4>1
      <4> QED BY <1>3, <4>1, <4>2
    <3> QED BY <2>3, <3>1, <3>2, <3>3
  <2> QED BY <1>3, <2>2, <2>3
<1>8. ASSUME NEW i \in 1 .. k + 1, I[i].who \in Viewers \ H.stopped
      PROVE  ViewOK(I, i, H, val, cache)
  <2>1. CASE i \in 1 .. k
    <3>1. Busy /\ H.queue = G.queue  BY <1>1, <1>3, <2>1 DEF Busy, F, G, H
    <3>2. I[i] = F[i] /\ (i < k => I[i + 1] = F[i + 1])
      <4>1. i < k => i + 1 \in 1 .. k  BY <1>3, <2>1
      <4> QED BY <1>3, <2>1, <4>1
    <3>3. F[i].who \in Viewers /\ ViewOK(F, i, G, val, cache) /\ i \in 1 .. Len(F)
      BY <1>3, <1>8, <2>1, <3>2 DEF KnowsInv, ViewsOK, F, G, H
    <3>4. F[i].who \in Running(F) /\ F[i].who # o /\ F[i].who \in Observers
      BY <1>f, <2>1, <3>3, ViewersAre DEF Running, F
    <3>5. G.deps[F[i].who] \subseteq H.deps[F[i].who]  BY <3>4 DEF G, H
    <3>6. i = k /\ F[i].phase = "read" /\ I[i + 1].who \in Computeds => I[i + 1].who \in H.deps[F[i].who]
      <4>1. i = k => F[i] = top /\ I[i + 1].who = o  BY <1>2, <1>3, <1>5, <3>1
      <4>2. F[i].who \notin G.stopped  BY <1>8, <3>2 DEF G, H
      <4> QED BY <3>1, <3>3, <4>1, <4>2 DEF G, H
    <3>7. FromOn(I, i) \cap Nodes \subseteq FromOn(F, i) \cup (G.dirty \ G.stopped)
      <4>1. o \in Nodes => o \in Computeds  BY NamesAssumption DEF Nodes
      <4> QED BY <1>6, <2>1, <4>1 DEF G
    <3>8. \A x \in Computeds \ (FromOn(F, i) \cup (G.dirty \ G.stopped)) : H.deps[x] = G.deps[x]
      BY <1>6, <2>1, <3>1 DEF G, H
    <3>9. H.dirty = G.dirty /\ H.stopped = G.stopped /\ Running(F) \subseteq Running(I)
      BY <1>3 DEF G, H
    <3>a. /\ i < Len(F) => I[i + 1].who = F[i + 1].who
          /\ i = Len(F) /\ i < Len(I) /\ F[i].phase = "read" /\ I[i + 1].who \in Computeds =>
               I[i + 1].who \in H.deps[F[i].who]
      BY <1>3, <3>2, <3>6
    <3>b. I[i].who = F[i].who /\ I[i].phase = F[i].phase /\ I[i].seen = F[i].seen  BY <3>2
    <3> QED BY <1>1, <3>1, <3>3, <3>5, <3>7, <3>8, <3>9, <3>a, <3>b, ViewOn
  <2>2. CASE i = k + 1
    <3>1. I[i].phase = "read" /\ I[i].seen = {} /\ ~(i < Len(I))  BY <1>2, <1>3, <2>2
    <3> QED BY <3>1, BackedByNothing DEF ViewOK
  <2> QED BY <1>3, <2>1, <2>2
<1>9. SeenOK(I, H, val, cache, used)
  <2> SUFFICES ASSUME NEW w \in Viewers \ Running(I)
               PROVE  Minds(w, used[w], H, val, cache, Running(I))
    BY DEF SeenOK
  <2>1. Minds(w, used[w], G, val, cache, Running(F)) /\ w \in Observers /\ w # o
    BY <1>3, ViewersAre DEF KnowsInv, SeenOK, F, G, I
  <2>2. G.deps[w] \subseteq H.deps[w] /\ H.dirty = G.dirty /\ H.stopped = G.stopped
        /\ G.queue \subseteq H.queue \cup Running(I) /\ (w \in G.queue => w \in H.queue)
    BY <1>3, <2>1 DEF G, H
  <2> QED BY <1>3, <2>1, <2>2, MindsOn
<1>a. ViewsOK(I, H, val, cache)  BY <1>3, <1>8 DEF ViewsOK
<1> QED BY <1>7, <1>9, <1>a DEF KnowsInv, I, H

LEMMA ReadStartsKnow ==
  ASSUME KnowsInv, FreshInv', Busy, ReadDirty
  PROVE  KnowsInv'
<1> DEFINE c == Instruction.of
<1>1. IInv /\ Derives(c) /\ UNCHANGED <<val, cache, used, flush>>
  BY ReadDirtyIs DEF KnowsInv, FreshInv, ReadDirty
<1>2. Awaits(page, top, Run(c, "access"))
  BY <1>1, InstructionIs, RunIs DEF Derives, Awaits
<1> HIDE DEF c
<1>3. \A x \in Observers \ {c} : graph.deps[x] \subseteq graph'.deps[x]
  BY <1>1 DEF Derives
<1>4. \A x \in Computeds \ {c} : graph'.deps[x] = graph.deps[x] \/ (Busy /\ x = top.who)
  BY <1>1 DEF Derives, Observers
<1>5. QueueOK(flush'.phase, graph')  BY <1>1 DEF Derives, KnowsInv, QueueOK
<1> QED BY <1>1, <1>2, <1>3, <1>4, <1>5, RunsKnow DEF Derives

(* The frames stay, and what they read.                                      *)
LEMMA SameFrames ==
  ASSUME KnowsInv, FreshInv', Alike(stack, stack'),
         \A i \in 1 .. Len(stack) :
           /\ stack'[i].consumer = stack[i].consumer /\ stack'[i].phase = stack[i].phase
           /\ stack'[i].seen = stack[i].seen,
         UNCHANGED <<used, flush>>, QueueOK(flush.phase, graph'),
         graph.stopped \subseteq graph'.stopped,
         \A o \in Viewers \ graph'.stopped : graph'.deps[o] = graph.deps[o],
         \A o \in Viewers : \A r : Minds(o, r, graph, val, cache, Running(stack)) =>
                                 Minds(o, r, graph', val', cache', Running(stack)),
         \A i \in 1 .. Len(stack) : stack[i].phase = "read" /\ stack[i].who \in Viewers \ graph'.stopped =>
           Backed(stack[i].who, stack[i].seen, FromOn(stack, i), graph', val', cache')
  PROVE  KnowsInv'
<1> DEFINE F == stack
           I == stack'
           k == Len(F)
<1>0. StackOK(page, F)  BY DEF KnowsInv, FreshInv, IInv
<1>1. /\ F \in Seq(Frames) /\ I \in Seq(Frames) /\ Len(I) = k /\ k \in Nat /\ k = Len(F)
      /\ Running(I) = Running(F)
      /\ \A i \in 1 .. k : /\ I[i].who = F[i].who /\ I[i].consumer = F[i].consumer
                           /\ I[i].phase = F[i].phase /\ I[i].seen = F[i].seen
  <2>1. F \in Seq(Frames) /\ I \in Seq(Frames) /\ Len(I) = k /\ k \in Nat
    BY <1>0 DEF StackOK, Alike
  <2>2. Running(I) = Running(F)  BY <1>0, AlikeStack
  <2>3. \A i \in 1 .. k : I[i].who = F[i].who  BY DEF Alike
  <2> QED BY <2>1, <2>2, <2>3
<1>2. ShapeOK(F) /\ ViewsOK(F, graph, val, cache) /\ SeenOK(F, graph, val, cache, used)
  BY DEF KnowsInv
<1>3. \A i \in 1 .. k : FromOn(I, i) = FromOn(F, i)  BY <1>1, FromAlike
<1> HIDE DEF F, I, k
<1>4. ShapeOK(I)
  <2> SUFFICES ASSUME NEW i \in 1 .. k
               PROVE  /\ I[i].who \in Watches => i = 1
                      /\ I[i].phase = "body" => I[i].who \in Watches
                      /\ I[i].consumer # Nobody =>
                           i > 1 /\ I[i].consumer = I[i - 1].who /\ I[i - 1].phase = "read"
    BY <1>1 DEF ShapeOK
  <2>1. i > 1 => i - 1 \in 1 .. k  BY <1>1
  <2> QED BY <1>1, <1>2, <2>1 DEF ShapeOK
<1>5. ASSUME NEW i \in 1 .. k, I[i].who \in Viewers \ graph'.stopped
      PROVE  ViewOK(I, i, graph', val', cache')
  <2>1. /\ I[i].who = F[i].who /\ I[i].phase = F[i].phase /\ I[i].seen = F[i].seen
        /\ F[i].who \in Viewers \ graph'.stopped
    BY <1>1, <1>5
  <2>2. F[i].who \in Viewers \ graph.stopped  BY <1>5, <2>1
  <2>3. ViewOK(F, i, graph, val, cache)  BY <1>1, <1>2, <2>2 DEF ViewsOK
  <2>4. CASE F[i].phase = "read"
    <3>1. Backed(I[i].who, I[i].seen, FromOn(I, i), graph', val', cache')
      BY <1>1, <1>3, <2>1, <2>4 DEF F, k
    <3>2. i < k => I[i + 1].who = F[i + 1].who  BY <1>1
    <3>3. i < Len(F) /\ F[i + 1].who \in Computeds => F[i + 1].who \in graph.deps[F[i].who]
      BY <2>3, <2>4 DEF ViewOK
    <3> QED BY <1>1, <2>1, <2>4, <3>1, <3>2, <3>3 DEF ViewOK
  <2>5. CASE F[i].phase # "read"
    <3>1. Minds(F[i].who, F[i].seen, graph, val, cache, Running(F))
      BY <2>3, <2>5 DEF ViewOK
    <3>2. Minds(F[i].who, F[i].seen, graph', val', cache', Running(F))
      BY <2>1, <3>1 DEF F
    <3> QED BY <1>1, <2>1, <2>5, <3>2 DEF ViewOK
  <2> QED BY <2>4, <2>5
<1>6. ViewsOK(I, graph', val', cache')  BY <1>1, <1>5 DEF ViewsOK
<1>7. SeenOK(I, graph', val', cache', used)  BY <1>1, <1>2 DEF SeenOK, F
<1> QED BY <1>4, <1>6, <1>7 DEF KnowsInv, I

(* Stops, writes and the mounting of positions.                              *)

LEMMA StopKnows ==
  ASSUME KnowsInv, FreshInv', Alike(stack, stack'),
         \A i \in 1 .. Len(stack) :
           /\ stack'[i].consumer = stack[i].consumer /\ stack'[i].phase = stack[i].phase
           /\ stack'[i].seen = stack[i].seen,
         NEW S \in SUBSET Observers, graph' = StopAll(graph, S),
         UNCHANGED <<val, cache, used, flush>>
  PROVE  KnowsInv'
<1> DEFINE G == graph
           H == graph'
           R == Running(stack)
<1>1. /\ IInv /\ G \in Graphs /\ H \in Graphs /\ StoppedLetGo(G)
      /\ BothSides(G, Unconfirmed(stack)) /\ UnreadLetGo(G, R)
      /\ ViewsOK(stack, G, val, cache) /\ QueueOK(flush.phase, G)
  BY DEF KnowsInv, FreshInv, IInv, GraphOK
<1>2. /\ H.queue = G.queue /\ H.pending = G.pending /\ G.stopped \subseteq H.stopped
      /\ Erodes(G, H, {})
  BY <1>1, StopAllKeeps
<1>3. \A o \in Viewers \ H.stopped : H.deps[o] = G.deps[o]  BY <1>2, ViewersAre DEF Erodes
<1> HIDE DEF G, H, R
<1>5. ASSUME NEW o \in Viewers, NEW r, Minds(o, r, G, val, cache, R)
      PROVE  Minds(o, r, H, val', cache', R)
  BY <1>1, <1>2, <1>5, MindsStay
<1>6. ASSUME NEW i \in 1 .. Len(stack), stack[i].phase = "read", stack[i].who \in Viewers \ H.stopped
      PROVE  Backed(stack[i].who, stack[i].seen, FromOn(stack, i), H, val', cache')
  <2>1. stack[i].who \in Viewers \ G.stopped /\ stack[i].who \in Observers
    BY <1>2, <1>6, ViewersAre
  <2>2. Backed(stack[i].who, stack[i].seen, FromOn(stack, i), G, val, cache)
    BY <1>1, <1>6, <2>1 DEF ViewsOK, ViewOK
  <2>3. H.deps[stack[i].who] = G.deps[stack[i].who]  BY <1>3, <1>6, <2>1
  <2> QED BY <1>1, <1>2, <2>1, <2>2, <2>3, BackedStays
<1>7. QueueOK(flush.phase, H)  BY <1>1, <1>2 DEF QueueOK
<1> QED BY <1>2, <1>3, <1>5, <1>6, <1>7, SameFrames DEF G, H, R

LEMMA ContinueSees ==
  ASSUME IInv, Busy, Instruction.op \notin {"return", "throw"}, NEW v \in Answers, Continue(Nobody, v)
  PROVE  /\ Alike(stack, stack')
         /\ \A i \in 1 .. Len(stack) :
              /\ stack'[i].consumer = stack[i].consumer /\ stack'[i].phase = stack[i].phase
              /\ stack'[i].seen = stack[i].seen
<1> DEFINE k == Len(stack)
<1>1. Alike(stack, stack') /\ k \in Nat /\ top = stack[k]
  BY ContinueAlike, InstructionIs DEF top
<1>2. /\ \A i \in 1 .. k - 1 : stack'[i] = stack[i]
      /\ stack'[k].consumer = top.consumer /\ stack'[k].phase = top.phase /\ stack'[k].seen = top.seen
  BY ContinueIs
<1>3. \A i \in 1 .. k : i \in 1 .. k - 1 \/ i = k  BY <1>1
<1> HIDE DEF k
<1> QED BY <1>1, <1>2, <1>3 DEF k

LEMMA DestroyKnows ==
  ASSUME KnowsInv, FreshInv', Busy, Destroy
  PROVE  KnowsInv'
<1>1. IInv /\ Nobody \in Answers  BY DEF KnowsInv, FreshInv, Answers
<1>2. {Instruction.of} \cap mounted \in SUBSET Observers
  BY <1>1 DEF IInv, RestOK, Observers
<1> QED BY <1>1, <1>2, ContinueSees, StopKnows DEF Destroy

LEMMA CreateKnows ==
  ASSUME KnowsInv, FreshInv', Busy, Create
  PROVE  KnowsInv'
<1> DEFINE o == Instruction.of
<1>1. /\ IInv /\ Nobody \in Answers /\ o \in Doms /\ Instruction.op = "mount" /\ ~top.thrown
      /\ NextOf(page, top).op = "mount" /\ o \in Observers /\ o \in Viewers
      /\ o \notin Computeds /\ o \notin Watches
      /\ UNCHANGED <<val, cache, used, flush, graph>> /\ QueueOK(flush.phase, graph)
  BY InstructionIs, NamesAssumption DEF KnowsInv, FreshInv, Answers, Create, Observers, Viewers
<1>2. CASE o \in mounted
  <2>1. Continue(Nobody, Nobody)  BY <1>2 DEF Create
  <2>2. /\ Alike(stack, stack')
        /\ \A i \in 1 .. Len(stack) :
             /\ stack'[i].consumer = stack[i].consumer /\ stack'[i].phase = stack[i].phase
             /\ stack'[i].seen = stack[i].seen
    BY <1>1, <2>1, ContinueSees
  <2>3. \A i \in 1 .. Len(stack) : stack[i].phase = "read" /\ stack[i].who \in Viewers \ graph.stopped =>
          Backed(stack[i].who, stack[i].seen, FromOn(stack, i), graph, val, cache)
    BY DEF KnowsInv, ViewsOK, ViewOK
  <2> QED BY <1>1, <2>2, <2>3, SameFrames
<1>3. CASE o \notin mounted
  <2>1. stack' = Append(stack, Run(o, "mount"))  BY <1>3 DEF Create
  <2>2. o \notin Running(stack)  BY <1>1, <1>3 DEF IInv, GraphOK, Alive
  <2>3. Awaits(page, top, Run(o, "mount"))  BY <1>1, RunIs DEF Awaits
  <2> HIDE DEF o
  <2> QED BY <1>1, <2>1, <2>2, <2>3, RunsKnow
<1> QED BY <1>2, <1>3

LEMMA CleanUpQueues ==
  ASSUME NEW G \in Graphs, NEW S \in SUBSET Observers
  PROVE  /\ CleanUp(G, S) \in Graphs /\ CleanUp(G, S).queue = G.queue
         /\ CleanUp(G, S).pending = G.pending /\ CleanUp(G, S).stopped = G.stopped
<1>1. PICK P : CleanUp(G, S) = Cut(G, P)  BY CleanUpIs
<1> QED BY <1>1, CutFields

(* Whoever is told is queued, or stops.                                      *)
LEMMA TellQueues ==
  ASSUME NEW G \in Graphs, NEW O \in SUBSET Observers, NEW R
  PROVE  LET H == Tell(G, O, R) IN
         /\ G.queue \cup {c \in Dirtied(G, O, R) : G.subs[c] # {}} \subseteq H.queue
         /\ O \ Computeds \subseteq H.queue \cup H.stopped
         /\ G.stopped \subseteq H.stopped
         /\ H.pending \/ (H.queue = G.queue /\ H.pending = G.pending)
<1> DEFINE D == Dirtied(G, O, R)
           U == {c \in D : G.subs[c] = {}}
           M == {c \in D : G.subs[c] # {}}
<1>0. PICK K \in Graphs, V \in SUBSET Observers : Tells(G, O, R, K, V)  BY TellIs
<1>1. /\ Tell(G, O, R) = StopAll(CleanUp(K, U), V)
      /\ V \subseteq R
      /\ K.subs = G.subs /\ K.deps = G.deps /\ K.stopped = G.stopped
      /\ K.dirty = G.dirty \cup D
      /\ \A o \in K.queue : \/ o \in G.queue \cup O \cup Computeds
                            \/ \E n \in Nodes : o \in G.subs[n]
      /\ G.queue \cup M \subseteq K.queue
      /\ O \ Computeds \subseteq K.queue \cup V \cup G.stopped
      /\ K.pending \/ (K.queue = G.queue /\ K.pending = G.pending)
  BY <1>0 DEF Tells
<1>2. U \in SUBSET Observers
  <2>1. D \subseteq Computeds  BY DirtiedIs
  <2> QED BY <2>1 DEF Observers
<1> DEFINE H == CleanUp(K, U)
           J == [H EXCEPT !.stopped = @ \cup V]
<1>3. /\ H \in Graphs /\ H.queue = K.queue /\ H.pending = K.pending /\ H.stopped = K.stopped
  BY <1>1, <1>2, CleanUpQueues
<1> HIDE DEF H, U, M, D
<1>4. /\ J \in Graphs /\ J.queue = K.queue /\ J.pending = K.pending /\ J.stopped = K.stopped \cup V
  BY <1>3 DEF Graphs
<1>5. Tell(G, O, R) = CleanUp(J, V)  BY <1>1 DEF StopAll, H
<1> HIDE DEF J
<1> DEFINE I == Tell(G, O, R)
<1>6. I.queue = K.queue /\ I.pending = K.pending /\ I.stopped = K.stopped \cup V
  BY <1>4, <1>5, CleanUpQueues
<1> HIDE DEF I
<1>7. /\ G.queue \cup M \subseteq I.queue /\ O \ Computeds \subseteq I.queue \cup I.stopped
      /\ G.stopped \subseteq I.stopped
      /\ I.pending \/ (I.queue = G.queue /\ I.pending = G.pending)
  BY <1>1, <1>6
<1> QED BY <1>7 DEF M, D, I

LEMMA AssignKnows ==
  ASSUME KnowsInv, FreshInv', Alike(stack, stack'),
         \A i \in 1 .. Len(stack) :
           /\ stack'[i].consumer = stack[i].consumer /\ stack'[i].phase = stack[i].phase
           /\ stack'[i].seen = stack[i].seen,
         \A i \in 1 .. Len(stack) : stack[i].phase # "read",
         NEW s \in Cells, NEW v \in Values, Assign(s, v), UNCHANGED <<cache, used, flush>>
  PROVE  KnowsInv'
<1> DEFINE G == graph
           H == graph'
           O == G.subs[s]
           R == Running(stack)
           D == Dirtied(G, O, R)
<1>1. /\ IInv /\ G \in Graphs /\ H \in Graphs /\ StoppedLetGo(G)
      /\ BothSides(G, Unconfirmed(stack)) /\ UnreadLetGo(G, R) /\ OnStack = R
      /\ QueueOK(flush.phase, G) /\ val \in [Cells -> Values]
  BY DEF KnowsInv, FreshInv, IInv, GraphOK, RestOK, OnStack, Running
<1>2. O \in SUBSET Observers  BY <1>1 DEF Graphs, Nodes
<1>3. CASE v = val[s]
  <2>1. graph' = graph /\ val' = val  BY <1>1, <1>3 DEF Assign
  <2> QED BY <1>1, <2>1, SameFrames
<1>4. CASE v # val[s]
  <2>1. H = Tell(G, O, R) /\ \A n \in Nodes \ {s} : Holds(val', cache, n) = Holds(val, cache, n)
    <3>1. H = Tell(G, O, R) /\ val' = [val EXCEPT ![s] = v]  BY <1>1, <1>4 DEF Assign
    <3> QED BY <1>1, <3>1 DEF Holds
  <2>2. D \subseteq Computeds  BY DirtiedIs
  <2>3. Erodes(G, H, D)  BY <1>1, <1>2, <2>1, TellKeeps
  <2>4. /\ G.queue \cup {c \in D : G.subs[c] # {}} \subseteq H.queue
        /\ O \ Computeds \subseteq H.queue \cup H.stopped
        /\ G.stopped \subseteq H.stopped
        /\ H.pending \/ (H.queue = G.queue /\ H.pending = G.pending)
    BY <1>1, <1>2, <2>1, TellQueues
  <2>5. \A o \in Observers, n \in Nodes : n \in G.deps[o] => o \in G.subs[n]
    BY <1>1 DEF BothSides
  <2>6. G.deps \in [Observers -> SUBSET Nodes]  BY <1>1 DEF Graphs
  <2> HIDE DEF D, O, R, H, G
  <2>7. \A o \in Viewers \ H.stopped : H.deps[o] = G.deps[o]
    BY <2>2, <2>3, ViewersAre DEF Erodes
  <2>8. ASSUME NEW o \in Viewers, NEW r, Minds(o, r, G, val, cache, R)
        PROVE  Minds(o, r, H, val', cache, R)
    <3>1. ASSUME o \notin H.queue \cup H.stopped, NEW n \in H.deps[o]
          PROVE  /\ Holds(val', cache, n) = Holds(val, cache, n)
                 /\ n \in D \ G.dirty => n \in H.queue
      <4>1. n \in G.deps[o] /\ o \in Observers /\ n \in Nodes /\ o \notin Computeds
        BY <2>6, <2>7, <3>1, ViewersAre
      <4>2. o \in G.subs[n]  BY <2>5, <4>1
      <4>3. n # s  BY <2>4, <3>1, <4>1, <4>2 DEF O
      <4> QED BY <2>1, <2>4, <4>1, <4>2, <4>3
    <3>2. o \notin H.queue \cup H.stopped => \A n \in H.deps[o] :
           /\ Holds(val', cache, n) = Holds(val, cache, n)
           /\ n \in Computeds \ H.stopped /\ ~cache[n].failed =>
                /\ ~cache[n].failed
                /\ n \in D \ G.dirty => n \in H.queue
                /\ n \in R \ R => n \notin H.dirty
      BY <3>1
    <3> QED BY <1>1, <2>2, <2>3, <2>4, <2>8, <3>2, MindsStay
  <2>9. QueueOK(flush.phase, H)  BY <1>1, <2>4 DEF QueueOK
  <2>10. \A o \in Viewers : \A r : Minds(o, r, G, val, cache, R) => Minds(o, r, H, val', cache', R)
    BY <2>8
  <2>11. \A i \in 1 .. Len(stack) : stack[i].phase = "read" /\ stack[i].who \in Viewers \ H.stopped =>
          Backed(stack[i].who, stack[i].seen, FromOn(stack, i), H, val', cache')
    OBVIOUS
  <2>12. UNCHANGED <<used, flush>> /\ G.stopped \subseteq H.stopped  BY <2>4
  <2> QED BY <2>7, <2>9, <2>10, <2>11, <2>12, SameFrames DEF G, H, R
<1> QED BY <1>3, <1>4

(* Of what is evaluated nothing writes; so the writer is a body, alone.      *)
LEMMA WriteKnows ==
  ASSUME KnowsInv, FreshInv', ReadsOnly(page), Busy, Write
  PROVE  KnowsInv'
<1> DEFINE k == Len(stack)
<1>1. /\ IInv /\ ShapeOK(stack) /\ top \in Frames /\ k \in Nat /\ k # 0 /\ top = stack[k]
      /\ Instruction.op = "write" /\ Instruction = NextOf(page, top)
      /\ Instruction.of \in Cells /\ Instruction.to \in Values /\ Instruction.to \in Answers
  BY InstructionIs DEF KnowsInv, FreshInv, Write, Answers, top
<1>2. top.who \in Observers /\ top.trace \in Traces /\ top.phase \in {"read", "body"}
  BY <1>1 DEF Frames
<1>3. top.phase = "body"  BY <1>1, <1>2 DEF ReadsOnly, NextOf
<1>4. k = 1
  <2>1. k \in 1 .. Len(stack)  BY <1>1
  <2>2. stack[k].who \in Watches  BY <1>1, <1>3, <2>1 DEF ShapeOK
  <2> QED BY <1>1, <2>1, <2>2 DEF ShapeOK
<1>5. \A i \in 1 .. k : stack[i].phase # "read"  BY <1>1, <1>3, <1>4
<1>6. Continue(Nobody, Instruction.to) /\ UNCHANGED <<cache, used, flush>>
      /\ Assign(Instruction.of, Instruction.to)
  BY DEF Write
<1>7. /\ Alike(stack, stack')
      /\ \A i \in 1 .. Len(stack) :
           /\ stack'[i].consumer = stack[i].consumer /\ stack'[i].phase = stack[i].phase
           /\ stack'[i].seen = stack[i].seen
  BY <1>1, <1>6, ContinueSees
<1> QED BY <1>1, <1>5, <1>6, <1>7, AssignKnows

(* Watches go on with their bodies; runs of watches and positions end.       *)

LEMMA EnterBodyKnows ==
  ASSUME KnowsInv, FreshInv', Busy, EnterBody
  PROVE  KnowsInv'
<1> DEFINE k == Len(stack)
           o == top.who
           g == [top EXCEPT !.phase = "body", !.trace = <<Result>>, !.next = Result]
           I == stack'
           R == Running(stack)
<1>1. /\ IInv /\ ShapeOK(stack) /\ top \in Frames /\ k \in Nat /\ k # 0 /\ top = stack[k]
      /\ o \in Watches /\ top.phase = "read" /\ I = Append(below, g)
      /\ UNCHANGED <<graph, val, cache, used, flush>>
      /\ ViewsOK(stack, graph, val, cache) /\ SeenOK(stack, graph, val, cache, used)
      /\ QueueOK(flush.phase, graph)
  BY InstructionIs DEF KnowsInv, FreshInv, EnterBody, top
<1>2. k = 1 /\ top.consumer = Nobody
  <2>1. k \in 1 .. Len(stack)  BY <1>1
  <2>2. k = 1 /\ (top.consumer # Nobody => k > 1)  BY <1>1, <2>1 DEF ShapeOK
  <2> QED BY <2>2
<1>3. g \in Frames /\ g.who = o /\ g.seen = top.seen /\ g.phase = "body" /\ g.consumer = Nobody
  <2>1. Result \in Answers /\ <<Result>> \in Traces
    BY <1>1, InstructionIs, CodeAssumption DEF EnterBody, Result
  <2> QED BY <1>1, <1>2, <2>1 DEF Frames
<1>4. Len(I) = 1 /\ I[1] = g /\ Running(I) = R
  <2>1. Running(I) = R  BY <1>1, GoesOn, AlikeStack DEF IInv
  <2>2. stack \in Seq(Frames) /\ stack # <<>>  BY <1>1 DEF IInv, StackOK, Busy
  <2>3. below \in Seq(Frames) /\ Len(below) = 0  BY <1>1, <1>2, <2>2, BelowIs
  <2> HIDE DEF g
  <2> QED BY <1>1, <1>3, <2>1, <2>3
<1> HIDE DEF g, I, R
<1>5. ShapeOK(I)  BY <1>1, <1>3, <1>4 DEF ShapeOK
<1>6. ViewsOK(I, graph, val, cache)
  <2> SUFFICES ASSUME o \notin graph.stopped PROVE ViewOK(I, 1, graph, val, cache)
    BY <1>3, <1>4 DEF ViewsOK
  <2>1. ViewOK(stack, 1, graph, val, cache)  BY <1>1, <1>2 DEF ViewsOK, Viewers
  <2>2. Sure(top.seen, o, graph, val, cache)  BY <1>1, <1>2, <2>1 DEF ViewOK, Backed
  <2>3. Minds(g.who, g.seen, graph, val, cache, Running(I))  BY <1>3, <2>2, SureMinds
  <2> QED BY <1>3, <1>4, <2>3 DEF ViewOK
<1>7. SeenOK(I, graph, val, cache, used)  BY <1>1, <1>4 DEF SeenOK, R
<1> QED BY <1>1, <1>5, <1>6, <1>7 DEF KnowsInv, I

LEMMA EndLeaves ==
  ASSUME IInv, Busy, EndObserver
  PROVE  /\ stack' \in Seq(Frames) /\ Len(stack') = Len(stack) - 1 /\ Len(stack) \in Nat
         /\ Len(stack) # 0 /\ top = stack[Len(stack)]
         /\ \A i \in 1 .. Len(stack) - 1 :
              /\ stack'[i].who = stack[i].who /\ stack'[i].consumer = stack[i].consumer
              /\ stack'[i].phase = stack[i].phase /\ stack'[i].seen = stack[i].seen
              /\ stack'[i].recursed = stack[i].recursed
<1> DEFINE k == Len(stack)
           F == below
           m == k - 1
           I == stack'
<1>1. k \in Nat /\ k # 0 /\ m \in Nat /\ top = stack[k]  BY InstructionIs DEF top
<1>2. /\ F \in Seq(Frames) /\ Len(F) = m /\ \A i \in 1 .. m : F[i] = stack[i]
      /\ F # <<>> => Awaits(page, F[Len(F)], top)
  BY <1>1, BelowIs
<1>3. I \in Seq(Frames) /\ Len(I) = m  BY <1>2, EndsAbove DEF Alike
<1>4. page \in Pages /\ Nobody \in Answers  BY DEF IInv, RestOK, Answers
<1>5. CASE F = <<>>
  <2>1. m = 0  BY <1>2, <1>5
  <2> HIDE DEF I, F, m
  <2>2. \A i : i \notin 1 .. m  BY <2>1
  <2> QED BY <1>1, <1>3, <2>2 DEF I, m
<1>6. CASE F # <<>>
  <2> DEFINE f == F[m]
             a == Answered(f, Nobody, Nobody)
  <2>1. m # 0 /\ m \in 1 .. m /\ f \in Frames /\ Awaits(page, f, top)
    <3>1. m # 0  BY <1>2, <1>6
    <3> QED BY <1>1, <1>2, <1>6, <3>1
  <2>2. NextOf(page, f).op \notin {"return", "throw"}  BY <2>1 DEF Awaits
  <2>3. I = Throws(F) \/ I = [F EXCEPT ![m] = a]
    BY <1>2, <1>6 DEF EndObserver, ReturnFailed, Return
  <2>4. /\ a \in Frames /\ a.who = f.who /\ a.consumer = f.consumer /\ a.phase = f.phase
        /\ a.seen = f.seen /\ a.recursed = f.recursed
    <3> HIDE DEF f
    <3>1. f \in Frames /\ Nobody \in Answers /\ Nobody \in Nodes \cup {Nobody} /\ page \in Pages
      BY <1>4, <2>1
    <3> QED BY <2>2, <3>1, AnsweredIs
  <2> HIDE DEF a
  <2>5. /\ \A i \in 1 .. m - 1 : I[i] = F[i]
        /\ I[m] = [f EXCEPT !.thrown = TRUE] \/ I[m] = a
    <3>1. I = Throws(F) => I[m] = [f EXCEPT !.thrown = TRUE] /\ \A i \in 1 .. m - 1 : I[i] = F[i]
      BY <1>2, <1>6, ThrownIs
    <3>2. I = [F EXCEPT ![m] = a] => I[m] = a /\ \A i \in 1 .. m - 1 : I[i] = F[i]
      BY <1>2, <1>6, <2>4, TopSet
    <3> QED BY <2>3, <3>1, <3>2
  <2> HIDE DEF I, F, f
  <2>6. /\ I[m].who = f.who /\ I[m].consumer = f.consumer /\ I[m].phase = f.phase
        /\ I[m].seen = f.seen /\ I[m].recursed = f.recursed
    BY <2>1, <2>4, <2>5 DEF Frames
  <2>7. f = stack[m] /\ \A i \in 1 .. m - 1 : I[i] = stack[i]
    <3>1. \A i \in 1 .. m - 1 : i \in 1 .. m  BY <1>1
    <3> QED BY <1>2, <2>1, <2>5, <3>1 DEF f
  <2>8. \A i \in 1 .. m : i \in 1 .. m - 1 \/ i = m  BY <1>1
  <2>9. \A i \in 1 .. m :
              /\ I[i].who = stack[i].who /\ I[i].consumer = stack[i].consumer
              /\ I[i].phase = stack[i].phase /\ I[i].seen = stack[i].seen
              /\ I[i].recursed = stack[i].recursed
    BY <2>6, <2>7, <2>8
  <2> QED BY <1>1, <1>3, <2>9 DEF I
<1> QED BY <1>5, <1>6

(* A frame is gone, and what ran below it is shaped as it was.               *)
LEMMA ShapeLeft ==
  ASSUME NEW F, ShapeOK(F), Len(F) \in Nat, NEW I, Len(I) = Len(F) - 1, Len(F) # 0,
         \A i \in 1 .. Len(F) - 1 :
           I[i].who = F[i].who /\ I[i].consumer = F[i].consumer /\ I[i].phase = F[i].phase
  PROVE  ShapeOK(I)
<1> DEFINE m == Len(F) - 1
<1> SUFFICES ASSUME NEW i \in 1 .. m
             PROVE  /\ I[i].who \in Watches => i = 1
                    /\ I[i].phase = "body" => I[i].who \in Watches
                    /\ I[i].consumer # Nobody =>
                         i > 1 /\ I[i].consumer = I[i - 1].who /\ I[i - 1].phase = "read"
  BY DEF ShapeOK
<1>1. i \in 1 .. Len(F) /\ (i > 1 => i - 1 \in 1 .. m)  OBVIOUS
<1>2. /\ F[i].who \in Watches => i = 1
      /\ F[i].phase = "body" => F[i].who \in Watches
      /\ F[i].consumer # Nobody =>
           i > 1 /\ F[i].consumer = F[i - 1].who /\ F[i - 1].phase = "read"
  BY <1>1 DEF ShapeOK
<1> QED BY <1>1, <1>2

LEMMA EndObserverKnows ==
  ASSUME KnowsInv, FreshInv', Busy, EndObserver
  PROVE  KnowsInv'
<1> DEFINE k == Len(stack)
           o == top.who
           F == stack
           I == stack'
           G == graph
           H == graph'
           R == Running(F)
           S == Running(I)
<1>1. /\ IInv /\ F \in Seq(Frames) /\ F # <<>> /\ ShapeOK(F) /\ ViewsOK(F, G, val, cache)
      /\ SeenOK(F, G, val, cache, used) /\ QueueOK(flush.phase, G) /\ G \in Graphs
      /\ o \in Viewers /\ o \in Observers /\ used \in [Observers -> SUBSET (Nodes \X Answers)]
      /\ UNCHANGED <<val, cache, flush>> /\ used' = [used EXCEPT ![o] = top.seen]
      /\ H = ForgetOld(G)
  BY DEF KnowsInv, FreshInv, IInv, RestOK, StackOK, GraphOK, Busy, EndObserver, Viewers, Observers
<1>2. /\ I \in Seq(Frames) /\ Len(I) = k - 1 /\ k \in Nat /\ k # 0 /\ top = F[k] /\ k = Len(F)
      /\ \A i \in 1 .. k - 1 :
           /\ I[i].who = F[i].who /\ I[i].consumer = F[i].consumer
           /\ I[i].phase = F[i].phase /\ I[i].seen = F[i].seen
  BY <1>1, EndLeaves
<1>3. /\ H \in Graphs /\ H.stopped = G.stopped /\ H.queue = G.queue /\ Erodes(G, H, {})
      /\ H.pending = G.pending
  <2>1. H.pending = G.pending  BY <1>1, CutFields DEF ForgetOld
  <2> QED BY <1>1, <2>1, ForgetIs
<1>4. S = R \ {o}
  <2>1. Alike(below, I) /\ StackOK(page, below) /\ Running(below) = R \ {o}
    BY <1>1, BelowIs, EndsAbove
  <2> QED BY <2>1, AlikeStack
<1>5. \A w \in Viewers \ G.stopped : H.deps[w] = G.deps[w]  BY <1>3, ViewersAre DEF Erodes
<1> HIDE DEF F, I, G, H, R, S, k
<1>7. ASSUME NEW w \in Viewers, NEW r, Minds(w, r, G, val, cache, R)
      PROVE  Minds(w, r, H, val, cache, S)
  <2>1. \A n \in Computeds : n \notin R \ S  BY <1>1, <1>4, ViewersAre
  <2>2. w \notin H.queue \cup H.stopped => \A n \in H.deps[w] :
           /\ Holds(val, cache, n) = Holds(val, cache, n)
           /\ n \in Computeds \ H.stopped /\ ~cache[n].failed =>
                /\ ~cache[n].failed
                /\ n \in {} \ G.dirty => n \in H.queue
                /\ n \in R \ S => n \notin H.dirty
    BY <2>1
  <2> QED BY <1>1, <1>3, <1>7, <2>2, MindsStay
<1>8. ShapeOK(I)  BY <1>1, <1>2, ShapeLeft
<1>9. ASSUME NEW i \in 1 .. k - 1, I[i].who \in Viewers \ H.stopped
      PROVE  ViewOK(I, i, H, val, cache)
  <2>1. /\ i \in 1 .. k /\ I[i].who = F[i].who /\ I[i].phase = F[i].phase /\ I[i].seen = F[i].seen
        /\ F[i].who \in Viewers \ G.stopped
    BY <1>2, <1>3, <1>9
  <2>2. ViewOK(F, i, G, val, cache) /\ F[i].who \in Observers /\ H.deps[F[i].who] = G.deps[F[i].who]
    BY <1>1, <1>2, <1>5, <2>1, ViewersAre DEF ViewsOK
  <2>3. CASE F[i].phase = "read"
    <3>1. FromOn(I, i) \subseteq FromOn(F, i)
      <4>1. \A j \in i .. Len(I) : j \in i .. Len(F) /\ j \in 1 .. k - 1  BY <1>2, <1>9
      <4> QED BY <1>2, <4>1 DEF FromOn
    <3>2. /\ Backed(F[i].who, F[i].seen, FromOn(F, i), G, val, cache)
          /\ i < Len(F) /\ F[i + 1].who \in Computeds => F[i + 1].who \in G.deps[F[i].who]
      BY <2>2, <2>3 DEF ViewOK
    <3>3. Backed(F[i].who, F[i].seen, FromOn(I, i), H, val, cache)
      BY <1>1, <1>3, <2>2, <3>1, <3>2, BackedStays
    <3>4. i < Len(I) /\ I[i + 1].who \in Computeds => I[i + 1].who \in H.deps[F[i].who]
      <4>1. i < Len(I) => i + 1 \in 1 .. k - 1 /\ i < Len(F)  BY <1>2, <1>9
      <4> QED BY <1>2, <2>2, <3>2, <4>1
    <3> QED BY <2>1, <2>3, <3>3, <3>4 DEF ViewOK
  <2>4. CASE F[i].phase # "read"
    <3>1. Minds(F[i].who, F[i].seen, G, val, cache, R)  BY <2>2, <2>4 DEF ViewOK, R
    <3>2. Minds(F[i].who, F[i].seen, H, val, cache, S)  BY <1>7, <2>1, <3>1
    <3> QED BY <2>1, <2>4, <3>2 DEF ViewOK, S
  <2> QED BY <2>3, <2>4
<1>10. SeenOK(I, H, val, cache, used')
  <2> SUFFICES ASSUME NEW w \in Viewers \ S PROVE Minds(w, used'[w], H, val, cache, S)
    BY DEF SeenOK, S
  <2>1. CASE w # o
    <3>1. Minds(w, used[w], G, val, cache, R) /\ used'[w] = used[w]
      BY <1>1, <1>4, <2>1, ViewersAre DEF SeenOK, R
    <3> QED BY <1>7, <3>1
  <2>2. CASE w = o
    <3>1. used'[w] = top.seen  BY <1>1, <2>2
    <3>2. Minds(w, top.seen, G, val, cache, R)
      <4>1. CASE w \in G.stopped  BY <4>1 DEF Minds
      <4>2. CASE w \notin G.stopped
        <5>1. k \in 1 .. Len(F) /\ F[k].who \in Viewers \ G.stopped
          BY <1>1, <1>2, <2>2, <4>2
        <5>2. ViewOK(F, k, G, val, cache)  BY <1>1, <5>1 DEF ViewsOK
        <5>3. CASE F[k].phase = "read"
          <6>1. Sure(F[k].seen, F[k].who, G, val, cache)  BY <5>2, <5>3 DEF ViewOK, Backed
          <6> QED BY <1>2, <2>2, <6>1, SureMinds
        <5>4. CASE F[k].phase # "read"  BY <1>2, <2>2, <5>2, <5>4 DEF ViewOK, R
        <5> QED BY <5>3, <5>4
      <4> QED BY <4>1, <4>2
    <3> QED BY <1>7, <3>1, <3>2
  <2> QED BY <2>1, <2>2
<1>11. ViewsOK(I, H, val, cache)  BY <1>2, <1>9 DEF ViewsOK
<1>12. QueueOK(flush.phase, H)  BY <1>1, <1>3 DEF QueueOK
<1> QED BY <1>1, <1>8, <1>10, <1>11, <1>12 DEF KnowsInv, I, H

(* The flush and the outside.                                                *)

LEMMA StillKnow ==
  ASSUME KnowsInv, FreshInv', ~Busy, stack' = <<>>,
         graph'.dirty = graph.dirty, graph'.stopped = graph.stopped, graph'.deps = graph.deps,
         \A x \in graph.queue \ graph'.queue :
           x \in graph.stopped \/ (x \in Computeds /\ (x \notin graph.dirty \/ graph.subs[x] = {})),
         QueueOK(flush'.phase, graph'), UNCHANGED <<val, cache, used>>
  PROVE  KnowsInv'
<1> DEFINE G == graph
           H == graph'
<1>1. /\ IInv /\ stack = <<>> /\ Running(stack) = {} /\ BothSides(G, Unconfirmed(stack))
      /\ SeenOK(stack, G, val, cache, used) /\ G \in Graphs
  BY EmptyStack DEF KnowsInv, FreshInv, IInv, GraphOK
<1>2. \A o \in Observers, n \in Nodes : n \in G.deps[o] => o \in G.subs[n]
  BY <1>1 DEF BothSides
<1>3. stack' = stack  BY <1>1
<1> HIDE DEF G, H
<1>4. ASSUME NEW o \in Viewers, NEW r, Minds(o, r, G, val, cache, {})
      PROVE  Minds(o, r, H, val, cache, {})
  <2>1. o \in Observers /\ o \notin Computeds  BY ViewersAre
  <2>2. CASE o \in G.queue \cup G.stopped  BY <2>1, <2>2 DEF Minds, G, H
  <2>3. CASE o \notin G.queue \cup G.stopped
    <3>1. ASSUME NEW p \in r PROVE Heeds(o, p, H, val, cache, {})
      <4>1. Heeds(o, p, G, val, cache, {})  BY <1>4, <2>3 DEF Minds
      <4>2. ASSUME p[1] \in Computeds \ H.stopped, p[1] \in H.dirty PROVE p[1] \in H.queue
        <5>1. p[1] \in G.queue /\ p[1] \in G.deps[o] /\ p[1] \in G.dirty \ G.stopped
          BY <4>1, <4>2 DEF Heeds, G, H
        <5>2. o \in G.subs[p[1]]  BY <1>2, <2>1, <4>2, <5>1 DEF Nodes
        <5> QED BY <5>1, <5>2 DEF G, H
      <4> QED BY <4>1, <4>2 DEF Heeds, G, H
    <3> QED BY <3>1 DEF Minds
  <2> QED BY <2>2, <2>3
<1>5. SeenOK(stack, H, val, cache, used)  BY <1>1, <1>4 DEF SeenOK
<1>6. ShapeOK(<<>>) /\ ViewsOK(<<>>, H, val, cache)  BY DEF ShapeOK, ViewsOK
<1> QED BY <1>1, <1>3, <1>5, <1>6 DEF KnowsInv, H

LEMMA QueuedKnows ==
  ASSUME KnowsInv, FreshInv', ~Busy, NEW o \in graph.queue, StepQueued(o),
         flush'.phase # "rest", UNCHANGED <<val, cache, used>>
  PROVE  KnowsInv'
<1> DEFINE G == [graph EXCEPT !.queue = @ \ {o}]
<1>1. /\ IInv /\ graph \in Graphs /\ o \in Observers /\ stack = <<>> /\ Running(stack) = {}
      /\ \A f : Append(stack, f) = <<f>>
  BY EmptyStack DEF KnowsInv, FreshInv, IInv, GraphOK, Graphs
<1>2. /\ G.subs = graph.subs /\ G.deps = graph.deps /\ G.queue = graph.queue \ {o}
      /\ G.dirty = graph.dirty /\ G.stopped = graph.stopped /\ G \in Graphs
  BY <1>1 DEF Graphs
<1>3. graph' = (IF Owes(o) THEN Anew(G, o) ELSE G) /\ stack' = IF Owes(o) THEN <<Run(o, "run")>> ELSE <<>>
  BY DEF StepQueued
<1>4. QueueOK(flush'.phase, graph')  BY DEF QueueOK
<1> HIDE DEF G
<1>5. CASE Owes(o)
  <2>1. /\ graph'.dirty = graph.dirty /\ graph'.stopped = graph.stopped
        /\ graph'.queue = graph.queue \ {o} /\ graph'.deps = [graph.deps EXCEPT ![o] = {}]
    BY <1>2, <1>3, <1>5 DEF Anew, Graphs
  <2>2. graph.deps \in [Observers -> SUBSET Nodes]  BY <1>1 DEF Graphs
  <2>3. \A x \in Observers \ {o} : graph'.deps[x] = graph.deps[x]  BY <2>1, <2>2
  <2>4. \A x \in Computeds \ {o} : graph'.deps[x] = graph.deps[x]  BY <2>3 DEF Observers
  <2>5. o \in Computeds => o \in graph.dirty \ graph.stopped  BY <1>5 DEF Owes
  <2>6. stack' = Append(stack, Run(o, "run")) /\ o \notin Running(stack)
    BY <1>1, <1>3, <1>5
  <2> QED BY <1>1, <1>4, <2>1, <2>3, <2>4, <2>5, <2>6, RunsKnow
<1>6. CASE ~Owes(o)
  <2>1. \A x \in graph.queue \ graph'.queue :
          x \in graph.stopped \/ (x \in Computeds /\ (x \notin graph.dirty \/ graph.subs[x] = {}))
    BY <1>2, <1>3, <1>6 DEF Owes
  <2> QED BY <1>2, <1>3, <1>4, <1>6, <2>1, StillKnow
<1> QED BY <1>5, <1>6

LEMMA FlushKnows ==
  ASSUME KnowsInv, FreshInv', StartFlush \/ Flush
  PROVE  KnowsInv'
<1>1. /\ ~Busy /\ UNCHANGED <<val, cache, used>>
  BY DEF StartFlush, Idle, Flush, StepComputed, BeginWatches, StepWatch, EndPass, StepDom, EndDoms
<1>2. IInv /\ graph \in Graphs /\ stack = <<>>
      /\ flush \in [phase : {"rest", "derive", "watch", "dom"}, pass : SUBSET Watches, ran : BOOLEAN]
  BY <1>1, EmptyStack DEF KnowsInv, FreshInv, IInv, GraphOK, RestOK
<1>3. ASSUME UNCHANGED <<graph, stack>>, flush'.phase = "rest" => graph.queue = {}
      PROVE  KnowsInv'
  <2>1. QueueOK(flush'.phase, graph')  BY <1>3 DEF QueueOK
  <2> QED BY <1>1, <1>2, <1>3, <2>1, StillKnow
<1>4. CASE StartFlush
  <2>1. UNCHANGED stack /\ graph' = [graph EXCEPT !.pending = FALSE]
    BY <1>4 DEF StartFlush
  <2>2. /\ graph'.dirty = graph.dirty /\ graph'.stopped = graph.stopped /\ graph'.deps = graph.deps
        /\ graph'.queue = graph.queue
    BY <1>2, <2>1 DEF Graphs
  <2>3. flush'.phase = "rest" => graph.queue = {}  BY <1>2, <1>4 DEF StartFlush, Enter
  <2>4. QueueOK(flush'.phase, graph')  BY <2>2, <2>3 DEF QueueOK
  <2> QED BY <1>1, <1>2, <2>1, <2>2, <2>4, StillKnow
<1>5. CASE BeginWatches \/ EndPass \/ EndDoms
  <2>1. UNCHANGED <<graph, stack>>  BY <1>5 DEF BeginWatches, EndPass, EndDoms
  <2>2. flush'.phase = "rest" => graph.queue = {}
    <3>1. CASE BeginWatches  BY <3>1 DEF BeginWatches
    <3>2. CASE EndPass  BY <1>2, <3>2 DEF EndPass, Enter
    <3>3. CASE EndDoms  BY <1>2, <3>3 DEF EndDoms, Enter
    <3> QED BY <1>5, <3>1, <3>2, <3>3
  <2> QED BY <1>3, <2>1, <2>2
<1>6. ASSUME NEW o \in Computeds \cup Doms, StepComputed(o) \/ StepDom(o)
      PROVE  KnowsInv'
  <2>1. o \in graph.queue /\ StepQueued(o) /\ flush' = flush /\ flush.phase # "rest"
    BY <1>6 DEF StepComputed, StepDom, Queued
  <2> QED BY <1>1, <2>1, QueuedKnows
<1>7. CASE StepWatch
  <2> DEFINE w == First(flush.pass)
  <2>1. flush'.phase = "watch"  BY <1>2, <1>7 DEF StepWatch
  <2>2. CASE w \in graph.stopped \/ w \notin graph.queue
    BY <1>3, <1>7, <2>1, <2>2 DEF StepWatch
  <2>3. CASE w \in graph.queue /\ w \notin graph.stopped
    <3>1. StepQueued(w)  BY <1>7, <2>3 DEF StepWatch
    <3> HIDE DEF w
    <3> QED BY <1>1, <2>1, <2>3, <3>1, QueuedKnows
  <2> QED BY <2>2, <2>3
<1> QED BY <1>4, <1>5, <1>6, <1>7 DEF Flush

LEMMA OutsideKnows ==
  ASSUME KnowsInv, FreshInv', Outside
  PROVE  KnowsInv'
<1>1. /\ IInv /\ ~Busy /\ graph \in Graphs /\ stack = <<>> /\ Running(stack) = {}
      /\ \A f : Append(stack, f) = <<f>>
  BY EmptyStack DEF KnowsInv, FreshInv, IInv, GraphOK, Outside, Turn, Peek, Mount, Stop, Idle
<1>2. Alike(stack, stack) /\ \A i : i \notin 1 .. Len(stack)  BY <1>1 DEF Alike
<1>3. QueueOK(flush.phase, graph)  BY DEF KnowsInv
<1>4. ASSUME NEW s \in Cells, NEW v \in Values, Turn(s, v)
      PROVE  KnowsInv'
  <2>1. Assign(s, v) /\ UNCHANGED <<cache, stack, used, flush>>  BY <1>4 DEF Turn
  <2>2. Alike(stack, stack')  BY <1>2, <2>1
  <2> QED BY <1>2, <2>1, <2>2, AssignKnows
<1>5. ASSUME NEW c \in Computeds, Peek(c)
      PROVE  KnowsInv'
  <2>1. /\ c \in graph.dirty \ graph.stopped /\ graph' = Anew(graph, c)
        /\ stack' = Append(stack, Run(c, "access")) /\ c \notin Running(stack)
        /\ UNCHANGED <<val, cache, used, flush>> /\ c \in Observers
    BY <1>1, <1>5 DEF Peek, Fresh, Observers
  <2>2. /\ graph'.dirty = graph.dirty /\ graph'.stopped = graph.stopped
        /\ graph'.queue = graph.queue /\ graph'.pending = graph.pending
        /\ graph'.deps = [graph.deps EXCEPT ![c] = {}]
        /\ graph.deps \in [Observers -> SUBSET Nodes]
    BY <1>1, <2>1 DEF Anew, Graphs
  <2>3. \A x \in Observers \ {c} : graph'.deps[x] = graph.deps[x]  BY <2>1, <2>2
  <2>4. \A x \in Computeds \ {c} : graph'.deps[x] = graph.deps[x]  BY <2>3 DEF Observers
  <2>5. QueueOK(flush'.phase, graph')  BY <1>3, <2>1, <2>2 DEF QueueOK
  <2> QED BY <1>1, <2>1, <2>2, <2>3, <2>4, <2>5, RunsKnow
<1>6. ASSUME NEW o \in Watches \cup Doms, Mount(o)
      PROVE  KnowsInv'
  <2>1. stack' = Append(stack, Run(o, "mount")) /\ UNCHANGED <<graph, val, cache, used, flush>>
    BY <1>1, <1>6 DEF Mount
  <2>2. o \notin Computeds /\ o \in Observers /\ o \notin Running(stack)
    BY <1>1, NamesAssumption DEF Observers
  <2>3. QueueOK(flush'.phase, graph')  BY <1>3, <2>1
  <2> QED BY <1>1, <2>1, <2>2, <2>3, RunsKnow
<1>7. ASSUME NEW o \in Watches \cup Doms, Stop(o)
      PROVE  KnowsInv'
  <2>1. graph' = StopAll(graph, {o}) /\ UNCHANGED <<val, cache, stack, used, flush>>
        /\ {o} \in SUBSET Observers
    BY <1>7 DEF Stop, Observers
  <2>2. Alike(stack, stack')  BY <1>2, <2>1
  <2> QED BY <1>2, <2>1, <2>2, StopKnows
<1> QED BY <1>4, <1>5, <1>6, <1>7 DEF Outside

LEMMA StartsKnowing == Init => KnowsInv
<1> SUFFICES ASSUME Init PROVE KnowsInv  OBVIOUS
<1>1. FreshInv  BY StartsFresh
<1>2. ShapeOK(stack) /\ ViewsOK(stack, graph, val, cache) /\ Running(stack) = {}
  BY DEF Init, ShapeOK, ViewsOK, Running
<1>3. SeenOK(stack, graph, val, cache, used)  BY ViewersAre DEF Init, SeenOK, Minds
<1>4. QueueOK(flush.phase, graph)  BY DEF Init, QueueOK
<1> QED BY <1>1, <1>2, <1>3, <1>4 DEF KnowsInv

(* The end of a computed.                                                    *)

LEMMA LeftQueues ==
  ASSUME IInv, Busy, top.who \in Computeds
  PROVE  LeftWith.queue = graph.queue /\ LeftWith.pending = graph.pending
<1> DEFINE w == top.who
           N == Cleaned
           K == CleanUp(N, {w})
           X == ForgetOld(graph)
<1>1. N \in Graphs /\ N.queue = graph.queue /\ {w} \in SUBSET Observers /\ graph \in Graphs
  BY CleanedIs DEF Observers, IInv, GraphOK
<1>2. N.pending = graph.pending
  <2>1. X \in Graphs /\ X.pending = graph.pending  BY <1>1, CutFields DEF ForgetOld
  <2>2. N = [X EXCEPT !.dirty = @ \ {w}]  BY DEF Cleaned
  <2> HIDE DEF X
  <2> QED BY <2>1, <2>2 DEF Graphs
<1>3. K \in Graphs /\ K.queue = N.queue /\ K.pending = N.pending  BY <1>1, CleanUpQueues
<1>4. LeftWith = N \/ LeftWith = [K EXCEPT !.dirty = @ \cup {w}]  BY DEF LeftWith, Detach
<1> HIDE DEF K, N
<1>5. LeftWith.queue = N.queue /\ LeftWith.pending = N.pending  BY <1>3, <1>4 DEF Graphs
<1> QED BY <1>1, <1>2, <1>5

(* The end of a computed queues the viewers it tells and the computeds it    *)
(* marks for somebody; what it does not tell is answered as before.          *)
LEMMA EndQueues ==
  ASSUME IInv, Busy, EndComputed
  PROVE  \E D \in SUBSET Computeds :
    /\ Erodes(LeftWith, graph', D)
    /\ D \cap (LeftWith.dirty \cup LeftWith.stopped) = {}
    /\ \A T : (\A c \in (Computeds \cap T) \ (LeftWith.dirty \cup LeftWith.stopped) :
                 /\ c \notin LeftWith.subs[top.who]
                 /\ \A d \in Computeds \ T : c \notin LeftWith.subs[d])
              => D \cap T = {}
    /\ graph.queue \subseteq graph'.queue
    /\ \A d \in D : LeftWith.subs[d] # {} => d \in graph'.queue
    /\ graph'.pending \/ (graph'.queue = graph.queue /\ graph'.pending = graph.pending)
    /\ \A o \in LeftWith.subs[top.who] \ (Computeds \cup {top.consumer}) :
         \/ o \in graph'.queue \cup graph'.stopped
         \/ /\ cache'[top.who].value = cache[top.who].value
            /\ cache'[top.who].failed = cache[top.who].failed
<1> DEFINE L == LeftWith
           w == top.who
           O == Dependents(L, w)
           R == OnStack
           H == graph'
           D == Dirtied(L, O, R)
<1>1. /\ w \in Computeds /\ O \in SUBSET Observers
      /\ \E changed \in Changed(w) : H = IF changed THEN Tell(L, O, R) ELSE L
      /\ L.queue = graph.queue /\ L.pending = graph.pending
  BY EndComputedIs, LeftQueues
<1>2. /\ L \in Graphs /\ BothSides(L, Unconfirmed(below)) /\ UnreadLetGo(L, Running(below))
      /\ StoppedLetGo(L)
  BY <1>1, LeftWithIs DEF GraphOK
<1>3. CASE H = Tell(L, O, R)
  <2>1. Erodes(L, H, D)  BY <1>1, <1>2, <1>3, TellKeeps
  <2>2. D \cap (L.dirty \cup L.stopped) = {} /\ D \in SUBSET Computeds  BY DirtiedIs
  <2>3. ASSUME NEW T, \A c \in (Computeds \cap T) \ (L.dirty \cup L.stopped) :
                        c \notin L.subs[w] /\ \A d \in Computeds \ T : c \notin L.subs[d]
        PROVE  D \cap T = {}
    <3>1. O \subseteq L.subs[w]  BY DEF Dependents
    <3> HIDE DEF O, L, R, w
    <3> QED BY <2>3, <3>1, DirtiedIs
  <2>4. /\ L.queue \cup {c \in D : L.subs[c] # {}} \subseteq H.queue
        /\ O \ Computeds \subseteq H.queue \cup H.stopped
        /\ H.pending \/ (H.queue = L.queue /\ H.pending = L.pending)
    BY <1>1, <1>2, <1>3, TellQueues
  <2>5. O = L.subs[w] \ {top.consumer}  BY DEF Dependents
  <2> HIDE DEF D, L, w, H, O
  <2>6. \A o \in L.subs[w] \ (Computeds \cup {top.consumer}) : o \in H.queue \cup H.stopped
    BY <2>4, <2>5
  <2> QED BY <1>1, <2>1, <2>2, <2>3, <2>4, <2>6 DEF L, w, H
<1>4. CASE H = L /\ FALSE \in Changed(w)
  <2>1. Erodes(L, L, {})  BY DEF Erodes
  <2>2. /\ cache[w].failed = Fails
        /\ cache' = [cache EXCEPT ![w] = [has |-> TRUE, failed |-> Fails,
              value |-> IF Fails THEN cache[w].value ELSE Result]]
        /\ w \in DOMAIN cache
        /\ ~Fails => Result = cache[w].value
    <3>1. cache[w].failed = Fails /\ (~Fails => Result = cache[w].value)
      BY <1>4 DEF Changed
    <3>2. w \in DOMAIN cache  BY <1>1 DEF IInv, RestOK
    <3> QED BY <3>1, <3>2 DEF EndComputed
  <2>3. cache'[w].value = cache[w].value /\ cache'[w].failed = cache[w].failed  BY <2>2
  <2> HIDE DEF L, w, H
  <2>4. {} \in SUBSET Computeds /\ {} \cap (L.dirty \cup L.stopped) = {} /\ \A T : {} \cap T = {}
    OBVIOUS
  <2> QED BY <1>1, <1>4, <2>1, <2>3, <2>4 DEF L, w, H
<1> QED
  <2>1. H = Tell(L, O, R) \/ (H = L /\ FALSE \in Changed(w))
    <3>1. Changed(w) \subseteq BOOLEAN  BY DEF Changed, Fails
    <3> QED BY <1>1, <3>1
  <2> QED BY <1>3, <1>4, <2>1

(* A computed that derived an answer for somebody is clean afterwards.       *)
LEMMA AnswerStands ==
  ASSUME FreshInv, Busy, EndComputed, ~Fails,
         NEW D, Erodes(LeftWith, graph', D),
         \A T : (\A c \in (Computeds \cap T) \ (LeftWith.dirty \cup LeftWith.stopped) :
                 /\ c \notin LeftWith.subs[top.who]
                 /\ \A d \in Computeds \ T : c \notin LeftWith.subs[d])
              => D \cap T = {},
         NEW o \in Observers, top.who \in graph'.deps[o], top.who \notin graph'.stopped
  PROVE  top.who \notin graph'.dirty
<1> DEFINE k == Len(stack)
           F == stack
           w == top.who
           G == graph
           N == Cleaned
           L == LeftWith
           H == graph'
           C == cache
<1>1. /\ IInv /\ w \in Computeds /\ w \in Nodes /\ DerivingOK(F, G) /\ FramesOK(F, G, val, C)
      /\ w \in Observers
  BY DEF FreshInv, EndComputed, Nodes, Observers
<1>2. /\ k \in Nat /\ k # 0 /\ k = Len(F) /\ top = F[k] /\ k \in 1 .. k
  <2>1. k \in Nat /\ k # 0 /\ top = F[k]  BY <1>1, InstructionIs DEF top
  <2> QED BY <2>1
<1>3. /\ BothSides(L, Unconfirmed(below)) /\ L.stopped = G.stopped
      /\ ~LetsGo(N, w) => L = N
      /\ \A n \in Nodes : L.subs[n] \subseteq N.subs[n]
  <2>1. /\ GraphOK(L, below, mounted) /\ Erodes(N, L, {w}) /\ L.stopped = G.stopped
        /\ ~LetsGo(N, w) => L = N
    BY <1>1, LeftWithIs
  <2>2. \A n \in Nodes : L.subs[n] \subseteq N.subs[n]  BY <2>1 DEF Erodes
  <2> QED BY <2>1, <2>2 DEF GraphOK
<1>4. w \notin N.dirty /\ \A n \in Nodes : N.subs[n] \subseteq G.subs[n]
  BY <1>1, CleanedIs, ForgetIs DEF Erodes
<1>5. LetsGo(N, w) <=> (Fails /\ F[k].recursed) \/ N.subs[w] = {}  BY DEF LetsGo, top
<1>6. F[k].thrown => Fails  BY DEF Fails, Instruction, top
<1>7. ASSUME NEW T, \A c \in Computeds \cap T :
           /\ G.deps[c] \subseteq T /\ w \notin G.deps[c]
           /\ c # w /\ c \in G.dirty => c \in G.stopped
      PROVE  D \cap T = {}
  BY <1>1, <1>7, EndSpares
<1> HIDE DEF k, F, w, G, N, L, H, C
<1>8. w \in H.deps[o] /\ w \in L.deps[o] /\ w \notin G.stopped /\ w \notin H.stopped
  BY <1>3 DEF Erodes, w, H, L
<1>9. N.subs[w] # {} /\ G.subs[w] # {}
  <2>1. o \in L.subs[w]  BY <1>1, <1>3, <1>8 DEF BothSides
  <2> QED BY <1>1, <1>3, <1>4, <2>1
<1>10. L = N  BY <1>3, <1>5, <1>9
<1>11. FrameOK(F, k, G, val, C)
  <2>1. ~F[k].recursed  BY <1>1, <1>2, <1>6 DEF DerivingOK, w
  <2>2. ~Doomed(F[k], G) /\ F[k].who \in Computeds
    BY <1>1, <1>2, <1>8, <1>9, <2>1 DEF Doomed, w
  <2> QED BY <1>1, <1>2, <2>2 DEF FramesOK
<1>12. FromOn(F, k) = {w}  BY <1>1, <1>2, FromTop DEF IInv, StackOK, Busy, F, w
<1>13. /\ Backed(w, F[k].seen, {w}, G, val, C)
       /\ \A n \in G.deps[w] : \E p \in F[k].seen : p[1] = n
  BY <1>2, <1>6, <1>11, <1>12 DEF FrameOK, w
<1>14. PICK T : Apart(T, {w}, G) /\ Within(F[k].seen, T)  BY <1>13 DEF Backed
<1>15. D \cap (T \cup {w}) = {}
  <2>1. /\ w \notin T /\ \A c \in Computeds \cap T : G.deps[c] \subseteq T
        /\ \A c \in Computeds \cap T : c \in G.dirty => c \in G.stopped
    BY <1>14 DEF Apart
  <2>2. G.deps[w] \subseteq T  BY <1>13, <1>14 DEF Within
  <2>3. \A c \in Computeds \cap (T \cup {w}) :
          /\ G.deps[c] \subseteq T \cup {w} /\ w \notin G.deps[c]
          /\ c # w /\ c \in G.dirty => c \in G.stopped
    BY <2>1, <2>2
  <2> QED BY <1>7, <2>3
<1>16. w \notin L.dirty  BY <1>4, <1>10
<1>17. Erodes(L, H, D)  BY DEF L, H
<1> QED BY <1>1, <1>8, <1>15, <1>16, <1>17 DEF Erodes, w, H

LEMMA EndComputedKnows ==
  ASSUME KnowsInv, FreshInv', Busy, EndComputed
  PROVE  KnowsInv'
<1> DEFINE k == Len(stack)
           F == stack
           I == stack'
           w == top.who
           G == graph
           K == Undirtied
           L == LeftWith
           H == graph'
           C == cache
           E == cache'
           R == Running(F)
           S == Running(I)
<1>1. /\ FreshInv /\ IInv /\ w \in Computeds /\ w \in Observers /\ w \in Nodes
      /\ w \notin Cells /\ w \notin Viewers
      /\ G \in Graphs /\ H \in Graphs /\ StoppedLetGo(H) /\ CleanOK(H, val', E, used')
      /\ F \in Seq(Frames) /\ I \in Seq(Frames) /\ F # <<>> /\ Distinct(F)
      /\ ShapeOK(F) /\ ViewsOK(F, G, val, C) /\ SeenOK(F, G, val, C, used)
      /\ QueueOK(flush.phase, G)
  BY NamesAssumption, ViewersAre
  DEF KnowsInv, FreshInv, EndComputed, Observers, Nodes, IInv, GraphOK, StackOK, Busy
<1>2. PICK D \in SUBSET Computeds :
    /\ Erodes(L, H, D)
    /\ D \cap (L.dirty \cup L.stopped) = {}
    /\ \A T : (\A c \in (Computeds \cap T) \ (L.dirty \cup L.stopped) :
                 /\ c \notin L.subs[w]
                 /\ \A d \in Computeds \ T : c \notin L.subs[d])
              => D \cap T = {}
    /\ G.queue \subseteq H.queue
    /\ \A d \in D : L.subs[d] # {} => d \in H.queue
    /\ H.pending \/ (H.queue = G.queue /\ H.pending = G.pending)
    /\ \A o \in L.subs[w] \ (Computeds \cup {top.consumer}) :
         \/ o \in H.queue \cup H.stopped
         \/ E[w].value = C[w].value /\ E[w].failed = C[w].failed
  BY <1>1, EndQueues
<1>3. /\ K.dirty = G.dirty \ {w} /\ K.deps = G.deps /\ K.stopped = G.stopped
      /\ Erodes(K, H, {w} \cup D)
  BY <1>1, <1>2, EndErodes
<1>4. BothSides(L, Unconfirmed(below))  BY <1>1, LeftWithIs DEF GraphOK
<1>5. ASSUME NEW T, \A c \in Computeds \cap T :
           /\ G.deps[c] \subseteq T /\ w \notin G.deps[c]
           /\ c # w /\ c \in G.dirty => c \in G.stopped
      PROVE  D \cap T = {}
  BY <1>1, <1>2, <1>5, EndSpares
<1>6. ASSUME ~Fails, NEW o \in Observers, w \in H.deps[o], w \notin H.stopped
      PROVE  w \notin H.dirty
  BY <1>1, <1>2, <1>6, AnswerStands
<1>7. /\ k \in Nat /\ k # 0 /\ k = Len(F) /\ Len(I) = k - 1 /\ top = F[k] /\ w = F[k].who
      /\ \A i \in 1 .. k - 1 :
           /\ I[i].who = F[i].who /\ I[i].consumer = F[i].consumer
           /\ I[i].phase = F[i].phase
      /\ \A i \in 1 .. k - 2 : I[i] = F[i]
      /\ k > 1 => /\ Fails => I[k - 1].seen = F[k - 1].seen
                  /\ ~Fails /\ F[k - 1].phase = "read" =>
                       I[k - 1].seen = F[k - 1].seen \cup {<<w, Result>>}
                  /\ F[k - 1].phase # "read" => I[k - 1].seen = F[k - 1].seen
  BY <1>1, EndAnswers, InstructionIs DEF top
<1>8. /\ E[w].failed = Fails /\ (~Fails => E[w].value = Result)
      /\ \A n \in Computeds \ {w} : E[n] = C[n]
      /\ \A o \in Viewers : used'[o] = used[o]
      /\ val' = val /\ UNCHANGED flush
  <2>1. C \in [Computeds -> [has : BOOLEAN, failed : BOOLEAN, value : Answers]]
        /\ used \in [Observers -> SUBSET (Nodes \X Answers)]
    BY <1>1 DEF IInv, RestOK
  <2>2. /\ E = [C EXCEPT ![w] = [has |-> TRUE, failed |-> Fails,
              value |-> IF Fails THEN @.value ELSE Result]]
        /\ used' = [used EXCEPT ![w] = top.seen] /\ val' = val /\ UNCHANGED flush
    BY DEF EndComputed
  <2> HIDE DEF C, E
  <2> QED BY <1>1, <2>1, <2>2, ViewersAre DEF F, k, top
<1>9. \A n \in Nodes \ {w} : Holds(val, E, n) = Holds(val, C, n)
                             /\ (n \in Computeds => E[n].failed = C[n].failed)
  BY <1>8 DEF Holds, Nodes
<1>10. w \in G.dirty /\ DOMAIN F = 1 .. k
  <2>1. k \in 1 .. Len(F) /\ DerivingOK(F, G)  BY <1>1, <1>7 DEF FreshInv
  <2>2. w \in G.dirty  BY <1>1, <1>7, <2>1 DEF DerivingOK
  <2> QED BY <1>1, <1>7, <2>2
<1>11. S = R \ {w}
  <2>1. Alike(below, I) /\ StackOK(page, below) /\ Running(below) = R \ {w}
    BY <1>1, BelowIs, EndsAbove
  <2> QED BY <2>1, AlikeStack
<1>12. k > 1 => k - 1 \in 1 .. k  BY <1>7
<1>13. F[k].consumer # Nobody =>
         k > 1 /\ F[k].consumer = F[k - 1].who /\ F[k - 1].phase = "read"
  <2>1. k \in 1 .. Len(F)  BY <1>7
  <2> QED BY <1>1, <2>1 DEF ShapeOK
<1> HIDE DEF F, I, G, K, L, H, R, S, k, w, C, E
<1>14. G.stopped \subseteq H.stopped /\ \A o \in Viewers \ H.stopped : H.deps[o] = G.deps[o]
  BY <1>1, <1>2, <1>3, ViewersAre DEF Erodes
(* Who does not wait for the answer minds what it minded. *)
<1>15. ASSUME NEW o \in Viewers, o # F[k].consumer, NEW r, Minds(o, r, G, val, C, R)
       PROVE  Minds(o, r, H, val, E, S)
  <2>1. o \in Observers /\ o \notin Computeds  BY ViewersAre
  <2>2. ASSUME o \notin H.queue \cup H.stopped, NEW n \in H.deps[o]
        PROVE  /\ Holds(val, E, n) = Holds(val, C, n)
               /\ n \in Computeds \ H.stopped /\ ~C[n].failed =>
                    /\ ~E[n].failed
                    /\ n \in ({w} \cup D) \ G.dirty => n \in H.queue
                    /\ n \in R \ S => n \notin H.dirty
    <3>1. n \in L.deps[o] /\ n \in Nodes  BY <1>1, <1>2, <2>1, <2>2 DEF Erodes, Graphs
    <3>2. o \in L.subs[n]  BY <1>4, <2>1, <3>1 DEF BothSides
    <3>3. CASE n = w
      <4>1. E[w].value = C[w].value /\ E[w].failed = C[w].failed
        BY <1>2, <1>7, <1>15, <2>1, <2>2, <3>2, <3>3
      <4>2. ~C[w].failed /\ w \notin H.stopped => w \notin H.dirty
        BY <1>6, <1>8, <2>1, <2>2, <3>3, <4>1
      <4>3. Holds(val, E, w) = Holds(val, C, w)  BY <1>1, <4>1 DEF Holds
      <4> QED BY <1>10, <3>3, <4>1, <4>2, <4>3
    <3>4. CASE n # w
      <4>1. Holds(val, E, n) = Holds(val, C, n) /\ (n \in Computeds => E[n].failed = C[n].failed)
        BY <1>9, <3>1, <3>4
      <4>2. n \in D => n \in H.queue  BY <1>2, <3>2
      <4>3. n \notin R \ S  BY <1>11, <3>4
      <4> QED BY <3>4, <4>1, <4>2, <4>3
    <3> QED BY <3>3, <3>4
  <2>3. {w} \cup D \subseteq Computeds /\ K.dirty \subseteq G.dirty  BY <1>1, <1>2, <1>3
  <2>4. o \notin H.queue \cup H.stopped => \A n \in H.deps[o] :
               /\ Holds(val, E, n) = Holds(val, C, n)
               /\ n \in Computeds \ H.stopped /\ ~C[n].failed =>
                    /\ ~E[n].failed
                    /\ n \in ({w} \cup D) \ G.dirty => n \in H.queue
                    /\ n \in R \ S => n \notin H.dirty
    BY <2>2
  <2> QED BY <1>1, <1>2, <1>3, <1>15, <2>3, <2>4, MindsStay
<1>16. ASSUME NEW i \in 1 .. k - 1, I[i].who \in Viewers \ H.stopped, F[i].phase # "read"
       PROVE  ViewOK(I, i, H, val, E)
  <2>1. /\ i \in 1 .. k /\ I[i].who = F[i].who /\ I[i].phase = F[i].phase
        /\ F[i].who \in Viewers \ G.stopped
    BY <1>7, <1>14, <1>16
  <2>2. I[i].seen = F[i].seen
    <3>1. i \in 1 .. k - 2 \/ (i = k - 1 /\ k > 1)  BY <1>7
    <3> QED BY <1>7, <1>16, <3>1
  <2>3. Minds(F[i].who, F[i].seen, G, val, C, R)
    <3>1. ViewOK(F, i, G, val, C)  BY <1>1, <1>7, <2>1 DEF ViewsOK
    <3> QED BY <1>16, <3>1 DEF ViewOK, R
  <2>4. F[i].who # F[k].consumer
    <3> SUFFICES ASSUME F[i].who = F[k].consumer PROVE FALSE  OBVIOUS
    <3>1. F[k].consumer # Nobody  BY <2>1, NamesAssumption, ViewersAre
    <3>2. k > 1 /\ F[i].who = F[k - 1].who /\ F[k - 1].phase = "read"  BY <1>13, <3>1
    <3>3. i # k - 1 /\ k - 1 \in 1 .. k  BY <1>12, <1>16, <3>2
    <3> QED BY <1>1, <1>10, <2>1, <3>2, <3>3 DEF Distinct
  <2>5. Minds(F[i].who, F[i].seen, H, val, E, S)  BY <1>15, <2>1, <2>3, <2>4
  <2> QED BY <1>16, <2>1, <2>2, <2>5 DEF ViewOK, S
(* What the frames below have read they still know; the last of them learns  *)
(* the answer, which stands.                                                 *)
<1>17. ASSUME NEW i \in 1 .. k - 1, I[i].who \in Viewers \ H.stopped, F[i].phase = "read"
       PROVE  ViewOK(I, i, H, val, E)
  <2> DEFINE o == F[i].who
             T0 == FromOn(F, i)
  <2>1. /\ i \in 1 .. k /\ I[i].who = o /\ I[i].phase = "read" /\ i < Len(F) /\ k > 1
        /\ o \in Viewers \ G.stopped /\ o \notin H.stopped /\ o \in Observers /\ o \notin Nodes
    BY <1>7, <1>14, <1>17, ViewersAre
  <2>2. ViewOK(F, i, G, val, C)  BY <1>1, <1>7, <2>1 DEF ViewsOK
  <2>3. /\ Backed(o, F[i].seen, T0, G, val, C)
        /\ F[i + 1].who \in Computeds => F[i + 1].who \in G.deps[o]
    BY <1>17, <2>1, <2>2 DEF ViewOK
  <2>4. H.deps[o] = G.deps[o]  BY <1>14, <2>1
  <2>5. w \in T0 /\ FromOn(I, i) \subseteq T0
    <3>1. k \in i .. Len(F)  BY <1>7, <2>1
    <3>2. \A j \in i .. Len(I) : j \in i .. Len(F) /\ I[j].who = F[j].who
      <4>1. \A j \in i .. Len(I) : j \in i .. Len(F) /\ j \in 1 .. k - 1  BY <1>7
      <4> QED BY <1>7, <4>1
    <3>3. w = F[k].who  BY <1>7
    <3> QED BY <3>1, <3>2, <3>3 DEF FromOn
  <2>6. ASSUME NEW T, Apart(T, T0, G) PROVE T \cap ({w} \cup D) = {}
    <3>1. w \notin T /\ \A c \in Computeds \cap T : G.deps[c] \subseteq T
      BY <2>5, <2>6 DEF Apart
    <3>2. \A c \in Computeds \cap T : c \in G.dirty => c \in G.stopped  BY <2>6 DEF Apart
    <3> QED BY <1>5, <3>1, <3>2
  <2>7. \A n \in Nodes \ T0 : Holds(val, E, n) = Holds(val, C, n)
                              /\ (n \in Computeds => E[n].failed = C[n].failed)
    BY <1>9, <2>5
  <2>8. K.dirty \subseteq G.dirty  BY <1>3
  <2> HIDE DEF T0, o
  <2>9. Backed(o, F[i].seen, FromOn(I, i), H, val, E)
    BY <1>1, <1>3, <2>1, <2>3, <2>4, <2>5, <2>6, <2>7, <2>8, BackedStays
  <2>10. CASE i # k - 1
    <3>1. i \in 1 .. k - 2 /\ i + 1 \in 1 .. k - 1  BY <1>7, <2>10
    <3>2. I[i] = F[i] /\ I[i + 1].who = F[i + 1].who  BY <1>7, <3>1
    <3> QED BY <2>1, <2>3, <2>4, <2>9, <3>2 DEF ViewOK
  <2>11. CASE i = k - 1
    <3>1. i = Len(I) /\ ~(i < Len(I)) /\ i + 1 = k /\ F[i + 1].who = w  BY <1>7, <2>11
    <3>2. CASE Fails
      <4>1. I[i].seen = F[i].seen  BY <1>7, <2>1, <2>11, <3>2
      <4> QED BY <2>1, <2>9, <3>1, <4>1 DEF ViewOK
    <3>3. CASE ~Fails
      <4>1. I[i].seen = F[i].seen \cup {<<w, Result>>}  BY <1>7, <1>17, <2>1, <2>11, <3>3
      <4>2. w \in H.deps[o]  BY <1>1, <2>3, <2>4, <3>1
      <4>3. w \in H.stopped \/ w \notin H.dirty  BY <1>6, <2>1, <3>3, <4>2
      <4>4. Sure(I[i].seen, o, H, val, E)
        <5>1. \A p \in F[i].seen : p[1] \in H.deps[o] \cap Kept(H, E) /\ p[2] = Holds(val, E, p[1])
          BY <2>9 DEF Backed, Sure
        <5>2. /\ w \in Kept(H, E) /\ Result = Holds(val, E, w)
          BY <1>1, <1>8, <3>3, <4>3 DEF Kept, Holds
        <5>3. \A p \in I[i].seen : p \in F[i].seen \/ (p[1] = w /\ p[2] = Result)  BY <4>1
        <5> QED BY <4>2, <5>1, <5>2, <5>3 DEF Sure
      <4>5. FromOn(I, i) = {o} /\ {o} \cap Nodes = {}
        <5>1. \A j \in i .. Len(I) : j = i  BY <3>1
        <5>2. i \in i .. Len(I)  BY <3>1
        <5> QED BY <2>1, <5>1, <5>2 DEF FromOn
      <4>6. CleanOK(H, val, E, used')  BY <1>1, <1>8
      <4>7. Backed(o, I[i].seen, {o}, H, val, E)
        BY <1>1, <2>1, <4>4, <4>5, <4>6, SureIsBackedAlone
      <4> QED BY <2>1, <3>1, <4>5, <4>7 DEF ViewOK
    <3> QED BY <3>2, <3>3
  <2> QED BY <2>10, <2>11
<1>18. ViewsOK(I, H, val, E)  BY <1>7, <1>16, <1>17 DEF ViewsOK
<1>19. SeenOK(I, H, val, E, used')
  <2> SUFFICES ASSUME NEW o \in Viewers \ S PROVE Minds(o, used'[o], H, val, E, S)
    BY DEF SeenOK, S
  <2>1. o \notin R /\ used'[o] = used[o] /\ o # w  BY <1>1, <1>8, <1>11
  <2>2. Minds(o, used[o], G, val, C, R)  BY <1>1, <2>1 DEF SeenOK, R
  <2>3. o # F[k].consumer
    <3> SUFFICES ASSUME o = F[k].consumer PROVE FALSE  OBVIOUS
    <3>1. F[k].consumer # Nobody  BY NamesAssumption, ViewersAre
    <3>2. k - 1 \in 1 .. k /\ o = F[k - 1].who  BY <1>12, <1>13, <3>1
    <3> QED BY <1>10, <2>1, <3>2 DEF Running, R
  <2> QED BY <1>15, <2>1, <2>2, <2>3
<1>20. ShapeOK(I)  BY <1>1, <1>7, ShapeLeft
<1>21. QueueOK(flush.phase, H)  BY <1>1, <1>2 DEF QueueOK
<1> QED BY <1>8, <1>18, <1>19, <1>20, <1>21 DEF KnowsInv, I, H, E

(* All steps.                                                                *)

LEMMA StepKnows ==
  ASSUME KnowsInv, FreshInv', ReadsOnly(page), Step
  PROVE  KnowsInv'
<1>1. Busy  BY DEF Step
<1>2. CASE ReadCell \/ ReadFresh \/ ReadRecursive  BY <1>1, <1>2, ReadsKnow
<1>3. CASE ReadDirty  BY <1>1, <1>3, ReadStartsKnow
<1>4. CASE Write  BY <1>1, <1>4, WriteKnows
<1>5. CASE Create  BY <1>1, <1>5, CreateKnows
<1>6. CASE Destroy  BY <1>1, <1>6, DestroyKnows
<1>7. CASE EndComputed  BY <1>1, <1>7, EndComputedKnows
<1>8. CASE EnterBody  BY <1>1, <1>8, EnterBodyKnows
<1>9. CASE EndObserver  BY <1>1, <1>9, EndObserverKnows
<1> QED BY <1>2, <1>3, <1>4, <1>5, <1>6, <1>7, <1>8, <1>9 DEF Step

LEMMA PageStays == [Next]_vars => UNCHANGED page
BY DEF Next, Step, StartFlush, Flush, Outside, vars

LEMMA StaysKnown ==
  ASSUME PureDerivations, KnowsInv, ReadsOnly(page), [Next]_vars
  PROVE  KnowsInv'
<1>1. FreshInv'  BY StaysFresh DEF KnowsInv
<1>2. CASE Step  BY <1>1, <1>2, StepKnows
<1>3. CASE StartFlush \/ Flush  BY <1>1, <1>3, FlushKnows
<1>4. CASE Outside  BY <1>1, <1>4, OutsideKnows
<1>5. CASE UNCHANGED vars
  <2>1. UNCHANGED <<graph, stack, val, cache, used, flush>>  BY <1>5 DEF vars
  <2> QED BY <1>1, <2>1 DEF KnowsInv
<1> QED BY <1>2, <1>3, <1>4, <1>5 DEF Next

LEMMA KnownIsCurrent == KnowsInv => AtRestCurrent
<1> SUFFICES ASSUME KnowsInv, Idle, ~graph.pending
             PROVE  graph.queue = {} /\ \A o \in mounted \ graph.stopped : StillTrue(used[o])
  BY DEF AtRestCurrent
<1>1. /\ IInv /\ stack = <<>> /\ Running(stack) = {} /\ graph \in Graphs
      /\ mounted \subseteq Viewers
  BY EmptyStack DEF KnowsInv, FreshInv, IInv, GraphOK, RestOK, Idle, Viewers
<1>2. graph.queue = {}  BY DEF KnowsInv, QueueOK, Idle
<1>3. ASSUME NEW o \in mounted \ graph.stopped, NEW p \in used[o]
      PROVE  /\ p[2] = Current(p[1])
             /\ p[1] \in Computeds \ graph.stopped =>
                  p[1] \notin graph.dirty /\ ~cache[p[1]].failed
  <2>1. Heeds(o, p, graph, val, cache, {})
    BY <1>1, <1>2, <1>3 DEF KnowsInv, SeenOK, Minds
  <2> QED BY <1>2, <2>1 DEF Heeds, Holds, Current
<1> QED BY <1>2, <1>3 DEF StillTrue, Stands, FailsNow

(* Nobody is forgotten: on a page where what is derived, observed and shown  *)
(* only reads, whatever its shape, its conditions, its circles, failures and *)
(* self-invalidations, and however its parts are created and stopped while   *)
(* they run, every live watch and position has seen, once no flush is due,   *)
(* the present values of all that its last run read.                         *)
THEOREM AtRestAllIsCurrent ==
  PureDerivations => (Spec => [](ReadsOnly(page) => AtRestCurrent))
<1> SUFFICES ASSUME PureDerivations PROVE Spec => [](ReadsOnly(page) => AtRestCurrent)
  OBVIOUS
<1> DEFINE J == ReadsOnly(page) => KnowsInv
<1>1. Init => J  BY StartsKnowing
<1>2. J /\ [Next]_vars => J'
  <2> SUFFICES ASSUME J, [Next]_vars, ReadsOnly(page)' PROVE KnowsInv'  OBVIOUS
  <2>1. ReadsOnly(page)  BY PageStays DEF ReadsOnly
  <2> QED BY <2>1, StaysKnown
<1>3. J => (ReadsOnly(page) => AtRestCurrent)  BY KnownIsCurrent
<1> HIDE DEF J
<1> QED BY <1>1, <1>2, <1>3, PTL DEF Spec

-----------------------------------------------------------------------------
(* A flush settles before it writes the DOM, on a page whose observers only  *)
(* read and whose computeds do not read each other in a circle.              *)

(* Taking subscriptions away leaves what it detaches unobserved.             *)
LEMMA CutAwaits ==
  ASSUME NEW G \in Graphs, NEW P, NEW R, Awaited(G, R)
  PROVE  /\ Awaited(Cut(G, P), R)
         /\ \A n \in Nodes : Cut(G, P).subs[n] \subseteq G.subs[n]
<1> DEFINE H == Cut(G, P)
           X == Detached(G, P)
<1>1. /\ X \subseteq Computeds /\ H.stopped = G.stopped /\ H.queue = G.queue
      /\ H.dirty = G.dirty \cup X
      /\ \A n \in Nodes : H.subs[n] =
           {o \in G.subs[n] : <<o, n>> \notin P /\ ~(o \in X /\ n \in G.deps[o])}
  BY CutFields
<1>2. \A c \in X : \A o \in G.subs[c] : <<o, c>> \in P \/ (o \in X /\ c \in G.deps[o])
  BY <1>1, DetachedIff
<1>3. Computeds \subseteq Nodes  BY DEF Nodes
<1> HIDE DEF H, X
<1>4. \A n \in Nodes : H.subs[n] \subseteq G.subs[n]  BY <1>1
<1>5. \A c \in X : H.subs[c] = {}
  <2> SUFFICES ASSUME NEW c \in X, NEW o \in H.subs[c] PROVE FALSE  OBVIOUS
  <2>1. c \in Nodes  BY <1>1, <1>3
  <2>2. o \in G.subs[c] /\ <<o, c>> \notin P /\ ~(o \in X /\ c \in G.deps[o])
    BY <1>1, <2>1
  <2> QED BY <1>2, <2>2
<1>6. Awaited(H, R)
  <2> SUFFICES ASSUME NEW c \in (Computeds \cap H.dirty) \ H.stopped
               PROVE  c \in H.queue \cup R \/ H.subs[c] = {}
    BY DEF Awaited
  <2>1. c \in X \/ c \in (Computeds \cap G.dirty) \ G.stopped  BY <1>1
  <2>2. CASE c \notin X
    <3>1. c \in G.queue \cup R \/ G.subs[c] = {}  BY <2>1, <2>2 DEF Awaited
    <3> QED BY <1>1, <1>3, <1>4, <3>1
  <2> QED BY <1>5, <2>2
<1> QED BY <1>4, <1>6 DEF H

LEMMA CleanUpAwaits ==
  ASSUME NEW G \in Graphs, NEW S \in SUBSET Observers, NEW R, Awaited(G, R)
  PROVE  /\ Awaited(CleanUp(G, S), R)
         /\ \A n \in Nodes : CleanUp(G, S).subs[n] \subseteq G.subs[n]
<1>1. \E P : CleanUp(G, S) = Cut(G, P)  BY CleanUpIs
<1> QED BY <1>1, CutAwaits

LEMMA StopAllAwaits ==
  ASSUME NEW G \in Graphs, NEW S \in SUBSET Observers, NEW R, Awaited(G, R)
  PROVE  /\ Awaited(StopAll(G, S), R)
         /\ \A n \in Nodes : StopAll(G, S).subs[n] \subseteq G.subs[n]
         /\ StopAll(G, S).queue = G.queue /\ StopAll(G, S).stopped = G.stopped \cup S
<1> DEFINE K == [G EXCEPT !.stopped = @ \cup S]
<1>1. /\ K \in Graphs /\ K.subs = G.subs /\ K.dirty = G.dirty /\ K.queue = G.queue
      /\ K.stopped = G.stopped \cup S
  BY DEF Graphs
<1>2. StopAll(G, S) = CleanUp(K, S)  BY DEF StopAll
<1> HIDE DEF K
<1>3. Awaited(K, R)  BY <1>1 DEF Awaited
<1>4. CleanUp(K, S).queue = K.queue /\ CleanUp(K, S).stopped = K.stopped
  BY <1>1, CleanUpQueues
<1> QED BY <1>1, <1>2, <1>3, <1>4, CleanUpAwaits

(* Telling queues what it marks for somebody.                                *)
LEMMA TellAwaits ==
  ASSUME NEW G \in Graphs, NEW O \in SUBSET Observers, NEW R, NEW W, Awaited(G, W)
  PROVE  /\ Awaited(Tell(G, O, R), W)
         /\ \A n \in Nodes : Tell(G, O, R).subs[n] \subseteq G.subs[n]
<1> DEFINE D == Dirtied(G, O, R)
           U == {c \in D : G.subs[c] = {}}
<1>0. PICK K \in Graphs, V \in SUBSET Observers : Tells(G, O, R, K, V)  BY TellIs
<1>1. /\ Tell(G, O, R) = StopAll(CleanUp(K, U), V)
      /\ V \subseteq R
      /\ K.subs = G.subs /\ K.deps = G.deps /\ K.stopped = G.stopped
      /\ K.dirty = G.dirty \cup D
      /\ \A o \in K.queue : \/ o \in G.queue \cup O \cup Computeds
                            \/ \E n \in Nodes : o \in G.subs[n]
      /\ G.queue \cup {c \in D : G.subs[c] # {}} \subseteq K.queue
      /\ O \ Computeds \subseteq K.queue \cup V \cup G.stopped
      /\ K.pending \/ (K.queue = G.queue /\ K.pending = G.pending)
  BY <1>0 DEF Tells
<1>2. D \subseteq Computeds  BY DirtiedIs
<1>3. U \in SUBSET Observers  BY <1>2 DEF Observers
<1> HIDE DEF D
<1>4. Awaited(K, W)
  <2> SUFFICES ASSUME NEW c \in (Computeds \cap K.dirty) \ K.stopped, c \notin K.queue \cup W
               PROVE  K.subs[c] = {}
    BY DEF Awaited
  <2>1. c \in D => G.subs[c] = {}  BY <1>1
  <2>2. c \notin D => c \in (Computeds \cap G.dirty) \ G.stopped /\ c \notin G.queue \cup W
    BY <1>1
  <2> QED BY <1>1, <2>1, <2>2 DEF Awaited
<1> HIDE DEF U
<1> DEFINE H == CleanUp(K, U)
<1>5. /\ H \in Graphs /\ Awaited(H, W) /\ \A n \in Nodes : H.subs[n] \subseteq K.subs[n]
  BY <1>3, <1>4, CleanUpAwaits, CleanUpQueues
<1> HIDE DEF H
<1>6. /\ Awaited(StopAll(H, V), W) /\ \A n \in Nodes : StopAll(H, V).subs[n] \subseteq H.subs[n]
  BY <1>5, StopAllAwaits
<1>7. Tell(G, O, R) = StopAll(H, V)  BY <1>1 DEF H
<1> QED BY <1>1, <1>5, <1>6, <1>7

(* When there is nobody to tell, nobody is queued and nobody stops.          *)
LEMMA TellNobody ==
  ASSUME NEW G \in Graphs, NEW R
  PROVE  Tell(G, {}, R).queue = G.queue /\ Tell(G, {}, R).stopped = G.stopped
<1> DEFINE O == {}
           D == Dirtied(G, O, R)
           Notices(o) == (IF o \in O THEN 1 ELSE 0)
                    + Cardinality({d \in D : o \in Computeds /\ o \in G.subs[d]})
           Told == {o \in Observers : Notices(o) > 0} \ G.stopped
           Over == {o \in Told \cap R : G.selfInv[o] + Notices(o) > MaxSelf}
           Scheduled == {c \in D : G.subs[c] # {}} \cup (Told \ (Computeds \cup Over))
           selfInv == [o \in Observers |->
            IF o \notin Told THEN G.selfInv[o]
            ELSE IF o \notin R THEN 0
            ELSE IF o \in Over THEN MaxSelf + 1 ELSE G.selfInv[o] + Notices(o)]
           K == [G EXCEPT !.dirty = @ \cup D, !.selfInv = selfInv,
                          !.queue = @ \cup Scheduled,
                          !.pending = @ \/ (Scheduled # {})]
<1>1. Tell(G, O, R) = StopAll(CleanUp(K, {c \in D : G.subs[c] = {}}), Over)  BY DEF Tell
<1>2. D = {}
  <2>1. D \subseteq Computeds  BY DirtiedIs
  <2>2. D \cap Computeds = {}  BY DirtiedIs
  <2> QED BY <2>1, <2>2
<1> HIDE DEF D
<1>3. \A o : Notices(o) = 0
  <2> SUFFICES ASSUME NEW o PROVE Notices(o) = 0  OBVIOUS
  <2>1. {d \in D : o \in Computeds /\ o \in G.subs[d]} = {}  BY <1>2
  <2>2. Notices(o) = 0 + Cardinality({})  BY <2>1
  <2> QED BY <2>2, FS_EmptySet
<1> HIDE DEF Notices
<1>4. Told = {}  BY <1>3
<1> HIDE DEF Told
<1>5. Over = {} /\ Scheduled = {}  BY <1>2, <1>4
<1>6. selfInv = G.selfInv  BY <1>4 DEF Graphs
<1> HIDE DEF Over, Scheduled, selfInv
<1>7. K \in Graphs /\ K.queue = G.queue /\ K.stopped = G.stopped
  BY <1>2, <1>5, <1>6 DEF Graphs
<1> HIDE DEF K
<1> DEFINE U == {c \in D : G.subs[c] = {}}
           H == CleanUp(K, U)
<1>8. U \in SUBSET Observers /\ Over \in SUBSET Observers  BY <1>2, <1>5
<1> HIDE DEF U
<1>9. H \in Graphs /\ H.queue = K.queue /\ H.stopped = K.stopped
  BY <1>7, <1>8, CleanUpQueues
<1> HIDE DEF H
<1>10. Awaited(H, Computeds)  BY DEF Awaited
<1>11. StopAll(H, Over).queue = H.queue /\ StopAll(H, Over).stopped = H.stopped \cup Over
  BY <1>8, <1>9, <1>10, StopAllAwaits
<1>12. Tell(G, O, R) = StopAll(H, Over)  BY <1>1 DEF H, U
<1> QED BY <1>5, <1>7, <1>9, <1>11, <1>12 DEF O

LEMMA RankFalls ==
  ASSUME NEW p, NoCircle(p)
  PROVE  RankOf(p) \in [Computeds -> 1..Cardinality(Computeds)] /\ Falls(p, RankOf(p))
BY DEF NoCircle, RankOf, Falls

LEMMA RanksAre ==
  ASSUME NEW p, NoCircle(p)
  PROVE  \A c \in Computeds : RankOf(p)[c] \in Nat
<1>1. Cardinality(Computeds) \in Nat  BY NamesAssumption, FS_CardinalityType
<1> QED BY <1>1, RankFalls

(* No computed is read while it runs: what is read ranks below all of them.  *)
LEMMA NotReread ==
  ASSUME KnowsInv, Settling, NoCircle(page), Busy,
         Instruction.op = "read", Instruction.of \in Computeds
  PROVE  /\ Instruction.of \notin Running(stack)
         /\ \A i \in 1 .. Len(stack) : stack[i].who \in Computeds =>
              RankOf(page)[Instruction.of] < RankOf(page)[stack[i].who]
<1> DEFINE c == Instruction.of
           r == RankOf(page)
           k == Len(stack)
<1>1. IInv /\ stack \in Seq(Frames) /\ k \in Nat /\ k # 0 /\ top = stack[k] /\ top \in Frames
  BY InstructionIs DEF KnowsInv, FreshInv, IInv, StackOK, top
<1>2. Instruction = NextOf(page, top)  BY <1>1, InstructionIs
<1>3. \A x \in Computeds : r[x] \in Nat  BY RanksAre
<1>4. DerivingOK(stack, graph) /\ Ordered(stack, r)  BY DEF KnowsInv, FreshInv, Settling
<1>5. k \in 1 .. k /\ \A i \in 1 .. k : i < k \/ i = k  BY <1>1
<1>6. \A i \in 1 .. k : stack[i].who \in Computeds => r[c] < r[stack[i].who]
  <2> SUFFICES ASSUME NEW i \in 1 .. k, stack[i].who \in Computeds
               PROVE  r[c] < r[stack[i].who]
    OBVIOUS
  <2>1. \A j \in i .. k : stack[j].who \in Computeds  BY <1>4 DEF DerivingOK
  <2>2. k \in i .. k  BY <1>1
  <2>3. top.who \in Computeds /\ top.phase = "read" /\ top.trace \in Traces
    BY <1>1, <1>4, <1>5, <2>1, <2>2 DEF DerivingOK, Frames
  <2>4. r[c] < r[top.who]
    <3>1. Falls(page, r)  BY RankFalls
    <3>2. /\ Code(page, top.who, "read", top.trace).op = "read"
          /\ Code(page, top.who, "read", top.trace).of = c
      BY <1>2, <2>3 DEF NextOf
    <3> QED BY <2>3, <3>1, <3>2 DEF Falls
  <2>5. i < k => r[top.who] < r[stack[i].who]  BY <1>1, <1>4, <1>5, <2>3 DEF Ordered
  <2>6. r[c] \in Nat /\ r[top.who] \in Nat /\ r[stack[i].who] \in Nat  BY <1>3, <2>3
  <2> HIDE DEF c, r
  <2> QED BY <1>1, <1>5, <2>4, <2>5, <2>6
<1>7. c \notin Running(stack)
  <2> SUFFICES ASSUME NEW i \in DOMAIN stack, stack[i].who = c PROVE FALSE  BY DEF Running
  <2>1. i \in 1 .. k  BY <1>1
  <2>2. r[c] < r[c] /\ r[c] \in Nat  BY <1>3, <1>6, <2>1
  <2> HIDE DEF r, c
  <2> QED BY <2>2
<1> QED BY <1>6, <1>7

(* A step that starts no run leaves a flush settling.                        *)
LEMMA StaysSettling ==
  ASSUME IInv, Settling, Busy, Beneath(stack', stack), Awaited(graph', Running(stack')),
         Quiet(stack, graph, drawn) =>
           /\ graph'.queue \subseteq graph.queue /\ graph.stopped \subseteq graph'.stopped
           /\ \A c \in Computeds \cap Running(stack) : graph'.subs[c] \subseteq graph.subs[c],
         UNCHANGED <<page, flush, drawn>>
  PROVE  Settling'
<1> DEFINE F == stack
           H == stack'
           r == RankOf(page)
<1>1. F \in Seq(Frames) /\ H \in Seq(Frames) /\ Len(F) \in Nat /\ Len(H) \in Nat /\ Len(H) <= Len(F)
  BY DEF IInv, StackOK, Beneath
<1>2. \A i \in 1 .. Len(H) : /\ i \in 1 .. Len(F) /\ H[i].who = F[i].who
                             /\ H[i].consumer = F[i].consumer /\ H[i].recursed = F[i].recursed
  BY <1>1 DEF Beneath
<1> HIDE DEF F, H, r
<1>3. Ordered(H, r)
  <2>1. Ordered(F, r)  BY DEF Settling, F, r
  <2> QED BY <1>2, <2>1 DEF Ordered
<1>4. NoneRecursed(H)
  <2>1. NoneRecursed(F)  BY DEF Settling, F
  <2> QED BY <1>2, <2>1 DEF NoneRecursed
<1>5. PassOK(H, graph', flush)
  <2>1. F # <<>>  BY DEF Busy, F
  <2> QED BY <2>1 DEF Settling, PassOK, F
<1>6. Quiet(F, graph, drawn) => Quiet(H, graph', drawn)
  <2> SUFFICES ASSUME Quiet(F, graph, drawn) PROVE Quiet(H, graph', drawn)  OBVIOUS
  <2>1. /\ graph'.queue \subseteq graph.queue /\ graph.stopped \subseteq graph'.stopped
        /\ \A c \in Computeds \cap Running(F) : graph'.subs[c] \subseteq graph.subs[c]
    BY DEF F
  <2>2. \A i \in 1 .. Len(H) : H[i].who \in Running(F)  BY <1>1, <1>2 DEF Running
  <2>3. \A i \in 1 .. Len(H) :
          /\ H[i].who \notin Watches
          /\ H[i].who \in Computeds => graph'.subs[H[i].who] \subseteq {H[i].consumer}
    BY <1>2, <2>1, <2>2 DEF Quiet
  <2> QED BY <2>1, <2>3 DEF Quiet
<1> QED BY <1>3, <1>4, <1>5, <1>6 DEF Settling, F, H, r

(* A run that starts reads nothing yet, and is the last in the order.        *)
LEMMA StartsSettling ==
  ASSUME IInv, Settling, NEW o \in Observers, NEW by \in {"run", "access", "mount"},
         stack' = Append(stack, Run(o, by)),
         o \in Computeds => \A i \in 1 .. Len(stack) : stack[i].who \in Computeds =>
           RankOf(page)[o] < RankOf(page)[stack[i].who],
         Awaited(graph', Running(stack) \cup {o}),
         flush'.phase = "watch" => flush'.ran \/ (Busy /\ flush' = flush),
         Drawing(flush'.phase, drawn') =>
           /\ Quiet(stack, graph', drawn') /\ o \notin Watches
           /\ o \in Computeds => graph'.subs[o] \subseteq {Active},
         UNCHANGED page
  PROVE  Settling'
<1> DEFINE F == stack
           H == stack'
           f == Run(o, by)
           r == RankOf(page)
<1>1. F \in Seq(Frames) /\ Len(F) \in Nat /\ DOMAIN F = 1 .. Len(F)  BY DEF IInv, StackOK
<1>2. /\ f \in Frames /\ f.who = o /\ f.consumer = Active /\ ~f.recursed  BY RunIs
<1> HIDE DEF f
<1>3. /\ H \in Seq(Frames) /\ Len(H) = Len(F) + 1 /\ H[Len(F) + 1] = f
      /\ \A i \in 1 .. Len(F) : H[i] = F[i]
  BY <1>1, <1>2 DEF f
<1>4. DOMAIN H = 1 .. Len(H) /\ \A i \in 1 .. Len(H) : i \in 1 .. Len(F) \/ i = Len(F) + 1
  BY <1>1, <1>3
<1> HIDE DEF H, F
<1>5. Running(H) = Running(F) \cup {o}
  <2>1. \A i \in 1 .. Len(F) : i \in 1 .. Len(H)  BY <1>1, <1>3
  <2>2. Len(F) + 1 \in 1 .. Len(H)  BY <1>1, <1>3
  <2> QED BY <1>1, <1>2, <1>3, <1>4, <2>1, <2>2 DEF Running
<1>6. Ordered(H, r)
  <2> SUFFICES ASSUME NEW i \in 1 .. Len(H), NEW j \in 1 .. Len(H), i < j,
                      H[i].who \in Computeds, H[j].who \in Computeds
               PROVE  r[H[j].who] < r[H[i].who]
    BY DEF Ordered
  <2>1. i \in 1 .. Len(F)  BY <1>1, <1>3
  <2>2. CASE j \in 1 .. Len(F)
    <3>1. Ordered(F, r)  BY DEF Settling, F
    <3> QED BY <1>3, <2>1, <2>2, <3>1 DEF Ordered
  <2>3. CASE j = Len(F) + 1  BY <1>2, <1>3, <2>1, <2>3 DEF F
  <2> QED BY <1>4, <2>2, <2>3
<1>7. NoneRecursed(H)
  <2>1. NoneRecursed(F)  BY DEF Settling, F
  <2> QED BY <1>2, <1>3, <1>4, <2>1 DEF NoneRecursed
<1>8. PassOK(H, graph', flush')
  <2>1. Busy => F # <<>>  BY DEF Busy, F
  <2>2. Busy /\ flush' = flush => ~(flush'.phase = "watch" /\ ~flush'.ran)
    BY <2>1 DEF Settling, PassOK, F
  <2> QED BY <2>2 DEF PassOK
<1>9. Drawing(flush'.phase, drawn') => Quiet(H, graph', drawn')
  <2> SUFFICES ASSUME Drawing(flush'.phase, drawn') PROVE Quiet(H, graph', drawn')
    OBVIOUS
  <2>1. /\ Quiet(F, graph', drawn') /\ o \notin Watches
        /\ o \in Computeds => graph'.subs[o] \subseteq {Active}
    BY DEF F
  <2>2. \A i \in 1 .. Len(H) :
          /\ H[i].who \notin Watches
          /\ H[i].who \in Computeds => graph'.subs[H[i].who] \subseteq {H[i].consumer}
    BY <1>2, <1>3, <1>4, <2>1 DEF Quiet
  <2> QED BY <2>1, <2>2 DEF Quiet
<1> QED BY <1>5, <1>6, <1>7, <1>8, <1>9 DEF Settling, F, H, r

(* More runs may be waited for.                                              *)
LEMMA AwaitedMore ==
  ASSUME NEW G, NEW R, NEW S, R \subseteq S, Awaited(G, R)
  PROVE  Awaited(G, S)
BY DEF Awaited

LEMMA AlikeBeneath ==
  ASSUME NEW F \in Seq(Frames), NEW H, Alike(F, H), Len(F) # 0,
         \A i \in 1 .. Len(F) - 1 :
           H[i].consumer = F[i].consumer /\ H[i].recursed = F[i].recursed,
         H[Len(F)].consumer = F[Len(F)].consumer, H[Len(F)].recursed = F[Len(F)].recursed
  PROVE  Beneath(H, F) /\ Running(H) = Running(F)
<1>1. Len(F) \in Nat /\ Len(H) = Len(F) /\ H \in Seq(Frames)  BY DEF Alike
<1>2. \A i \in 1 .. Len(F) : i \in 1 .. Len(F) - 1 \/ i = Len(F)  BY <1>1
<1>3. \A i \in 1 .. Len(F) : H[i].consumer = F[i].consumer /\ H[i].recursed = F[i].recursed
  BY <1>2
<1>4. Running(H) = Running(F)  BY AlikeKeeps
<1> QED BY <1>1, <1>3, <1>4 DEF Alike, Beneath

LEMMA ContinueBeneath ==
  ASSUME IInv, Busy, Instruction.op \notin {"return", "throw"},
         NEW v \in Answers, NEW n \in Nodes \cup {Nobody}, Continue(n, v)
  PROVE  Beneath(stack', stack) /\ Running(stack') = Running(stack)
<1>1. stack \in Seq(Frames) /\ Len(stack) # 0 /\ Alike(stack, stack')
  BY InstructionIs, ContinueAlike DEF IInv, StackOK
<1>2. \A i \in 1 .. Len(stack) - 1 :
        stack'[i].consumer = stack[i].consumer /\ stack'[i].recursed = stack[i].recursed
  BY ContinueIs
<1>3. /\ stack'[Len(stack)].consumer = stack[Len(stack)].consumer
      /\ stack'[Len(stack)].recursed = stack[Len(stack)].recursed
  BY ContinueIs DEF top
<1> QED BY <1>1, <1>2, <1>3, AlikeBeneath

LEMMA ReadsSettle ==
  ASSUME KnowsInv, Settling, NoCircle(page), Busy, ReadCell \/ ReadFresh \/ ReadRecursive,
         UNCHANGED page
  PROVE  Settling'
<1> DEFINE n == Instruction.of
<1>1. /\ IInv /\ graph \in Graphs /\ n \in Nodes /\ Instruction.op = "read"
      /\ graph' = Track(graph, n) /\ UNCHANGED <<flush, drawn>>
  BY DEF KnowsInv, FreshInv, IInv, GraphOK, ReadCell, ReadFresh, ReadRecursive, Nodes
<1>2. n \in Computeds => n \notin Running(stack)  BY <1>1, NotReread
<1>3. ~ReadRecursive  BY <1>2 DEF ReadRecursive, OnStack, Running
<1>4. n \in Computeds => n \notin graph.dirty \ graph.stopped
  BY <1>3, NamesAssumption DEF ReadCell, ReadFresh, Fresh, Observers
<1>5. Beneath(stack', stack) /\ Running(stack') = Running(stack)
  <2>1. stack \in Seq(Frames) /\ stack # <<>> /\ Len(stack) # 0
    BY <1>1, InstructionIs DEF IInv, StackOK, Busy
  <2>2. CASE ReadCell
    <3>1. val[n] \in Answers /\ Continue(n, val[n])
      BY <1>1, <2>2 DEF ReadCell, IInv, RestOK, Answers
    <3> HIDE DEF n
    <3> QED BY <1>1, <3>1, ContinueBeneath
  <2>3. CASE ReadFresh
    <3>1. cache[n].value \in Answers  BY <1>1, <2>3 DEF ReadFresh, IInv, RestOK
    <3>2. CASE Continue(n, cache[n].value)
      <4> HIDE DEF n
      <4> QED BY <1>1, <3>1, <3>2, ContinueBeneath
    <3>3. CASE stack' = Throws(stack)
      <4>1. /\ Alike(stack, stack')
            /\ stack'[Len(stack)] = [stack[Len(stack)] EXCEPT !.thrown = TRUE]
            /\ \A i \in 1 .. Len(stack) - 1 : stack'[i] = stack[i]
        BY <2>1, <3>3, ThrownIs
      <4>2. stack[Len(stack)] \in Frames  BY <1>1, InstructionIs DEF top
      <4>3. /\ stack'[Len(stack)].consumer = stack[Len(stack)].consumer
            /\ stack'[Len(stack)].recursed = stack[Len(stack)].recursed
        BY <4>1, <4>2 DEF Frames
      <4> QED BY <2>1, <4>1, <4>3, AlikeBeneath
    <3> QED BY <2>3, <3>2, <3>3 DEF ReadFresh
  <2> QED BY <1>3, <2>2, <2>3
<1>6. /\ graph'.stopped = graph.stopped /\ graph'.dirty = graph.dirty
      /\ graph'.queue = graph.queue
      /\ \A x \in Nodes \ {n} : graph'.subs[x] = graph.subs[x]
  <2>1. graph.subs \in [Nodes -> SUBSET Observers]  BY <1>1 DEF Graphs
  <2> HIDE DEF n
  <2>2. /\ Track(graph, n).stopped = graph.stopped /\ Track(graph, n).dirty = graph.dirty
        /\ Track(graph, n).queue = graph.queue
        /\ \/ Track(graph, n) = graph
           \/ Track(graph, n).subs = [graph.subs EXCEPT ![n] = @ \cup {Active}]
    BY <1>1, TrackIs
  <2> QED BY <1>1, <2>1, <2>2
<1> HIDE DEF n
<1>7. \A c \in Computeds : c \in Nodes  BY DEF Nodes
<1>8. Awaited(graph', Running(stack))
  <2>1. Awaited(graph, Running(stack))  BY DEF Settling
  <2> QED BY <1>4, <1>6, <1>7, <2>1 DEF Awaited
<1>9. \A c \in Computeds \cap Running(stack) : graph'.subs[c] \subseteq graph.subs[c]
  BY <1>2, <1>6, <1>7
<1> QED BY <1>1, <1>5, <1>6, <1>8, <1>9, StaysSettling

LEMMA ReadStartsSettling ==
  ASSUME KnowsInv, Settling, NoCircle(page), Busy, ReadDirty, UNCHANGED page
  PROVE  Settling'
<1> DEFINE c == Instruction.of
<1>1. IInv /\ Derives(c) /\ UNCHANGED <<flush, drawn>>
  BY ReadDirtyIs DEF KnowsInv, FreshInv, ReadDirty
<1>2. \A i \in 1 .. Len(stack) : stack[i].who \in Computeds =>
        RankOf(page)[c] < RankOf(page)[stack[i].who]
  BY <1>1, NotReread DEF Derives
<1> HIDE DEF c
<1>3. \A x \in Computeds : x \in Nodes  BY DEF Nodes
<1>4. Awaited(graph, Running(stack))  BY DEF Settling
<1>5. Awaited(graph', Running(stack) \cup {c})  BY <1>1, <1>3, <1>4 DEF Derives, Awaited
<1>6. Quiet(stack, graph, drawn) => Quiet(stack, graph', drawn) /\ graph'.subs[c] \subseteq {Active}
  <2> SUFFICES ASSUME Quiet(stack, graph, drawn)
               PROVE  Quiet(stack, graph', drawn) /\ graph'.subs[c] \subseteq {Active}
    OBVIOUS
  <2>1. graph.subs[c] = {}  BY <1>1, <1>4 DEF Derives, Awaited, Quiet
  <2>2. \A i \in 1 .. Len(stack) : stack[i].who \in Running(stack)
    BY <1>1 DEF Running, IInv, StackOK
  <2>3. \A i \in 1 .. Len(stack) : stack[i].who \in Computeds =>
          graph'.subs[stack[i].who] = graph.subs[stack[i].who]
    BY <1>1, <1>3, <2>2 DEF Derives
  <2>4. Quiet(stack, graph', drawn)  BY <1>1, <2>3 DEF Derives, Quiet
  <2> QED BY <1>1, <2>1, <2>4 DEF Derives
<1>7. Drawing(flush'.phase, drawn') => Quiet(stack, graph, drawn)  BY <1>1 DEF Settling
<1> QED BY <1>1, <1>2, <1>5, <1>6, <1>7, StartsSettling DEF Derives

(* In a quiet flush whoever runs only reads.                                 *)
LEMMA QuietReads ==
  ASSUME KnowsInv, ReadsOnly(page), Busy, NEW G, NEW d, Quiet(stack, G, d)
  PROVE  top.who \notin Watches /\ top.phase = "read" /\ Instruction.op # "write"
<1>1. IInv /\ top \in Frames /\ Len(stack) \in 1 .. Len(stack) /\ ShapeOK(stack)
  BY InstructionIs DEF KnowsInv, FreshInv
<1>2. top.who \notin Watches  BY <1>1 DEF Quiet, top
<1>3. top.phase = "read"  BY <1>1, <1>2 DEF ShapeOK, Frames, top
<1>4. top.who \in Observers /\ top.trace \in Traces  BY <1>1 DEF Frames
<1>5. Instruction.op # "write"  BY <1>1, <1>3, <1>4, InstructionIs DEF ReadsOnly, NextOf
<1> QED BY <1>2, <1>3, <1>5

LEMMA WriteSettles ==
  ASSUME KnowsInv, Settling, ReadsOnly(page), Busy, Write, UNCHANGED page
  PROVE  Settling'
<1> DEFINE s == Instruction.of
<1>1. /\ IInv /\ graph \in Graphs /\ s \in Cells /\ Instruction.op = "write"
      /\ Instruction.to \in Answers /\ Nobody \in Nodes \cup {Nobody}
      /\ Continue(Nobody, Instruction.to) /\ UNCHANGED <<flush, drawn>>
  BY InstructionIs DEF KnowsInv, FreshInv, IInv, GraphOK, Write, Answers
<1>2. Beneath(stack', stack) /\ Running(stack') = Running(stack)  BY <1>1, ContinueBeneath
<1>3. ~Quiet(stack, graph, drawn)  BY <1>1, QuietReads
<1>4. Awaited(graph', Running(stack))
  <2>1. Awaited(graph, Running(stack))  BY DEF Settling
  <2>2. graph.subs[s] \in SUBSET Observers  BY <1>1 DEF Graphs, Nodes
  <2>3. graph' = graph \/ graph' = Tell(graph, graph.subs[s], OnStack)
    BY DEF Write, Assign
  <2> QED BY <1>1, <2>1, <2>2, <2>3, TellAwaits
<1> QED BY <1>1, <1>2, <1>3, <1>4, StaysSettling

LEMMA DestroySettles ==
  ASSUME KnowsInv, Settling, Busy, Destroy, UNCHANGED page
  PROVE  Settling'
<1> DEFINE S == {Instruction.of} \cap mounted
<1>1. /\ IInv /\ graph \in Graphs /\ Instruction.op = "stop" /\ Nobody \in Answers
      /\ Nobody \in Nodes \cup {Nobody} /\ S \in SUBSET Observers
      /\ graph' = StopAll(graph, S) /\ Continue(Nobody, Nobody) /\ UNCHANGED <<flush, drawn>>
  BY InstructionIs DEF KnowsInv, FreshInv, IInv, GraphOK, Destroy, Answers, Observers
<1> HIDE DEF S
<1>2. Beneath(stack', stack) /\ Running(stack') = Running(stack)  BY <1>1, ContinueBeneath
<1>3. /\ Awaited(graph', Running(stack)) /\ \A n \in Nodes : graph'.subs[n] \subseteq graph.subs[n]
      /\ graph'.queue = graph.queue /\ graph'.stopped = graph.stopped \cup S
  BY <1>1, StopAllAwaits DEF Settling
<1>4. \A c \in Computeds : c \in Nodes  BY DEF Nodes
<1> QED BY <1>1, <1>2, <1>3, <1>4, StaysSettling

LEMMA CreateSettles ==
  ASSUME KnowsInv, Settling, Busy, Create, UNCHANGED page
  PROVE  Settling'
<1> DEFINE o == Instruction.of
<1>1. /\ IInv /\ Instruction.op = "mount" /\ Nobody \in Answers /\ Nobody \in Nodes \cup {Nobody}
      /\ o \in Observers /\ o \notin Computeds /\ o \notin Watches
      /\ UNCHANGED <<flush, drawn, graph>> /\ Awaited(graph, Running(stack))
  BY InstructionIs, NamesAssumption
  DEF KnowsInv, FreshInv, Create, Answers, Observers, Settling
<1>2. CASE Continue(Nobody, Nobody)
  <2>1. Beneath(stack', stack) /\ Running(stack') = Running(stack)
    BY <1>1, <1>2, ContinueBeneath
  <2> QED BY <1>1, <2>1, StaysSettling
<1>3. CASE stack' = Append(stack, Run(o, "mount"))
  <2> HIDE DEF o
  <2>1. Awaited(graph', Running(stack) \cup {o})  BY <1>1, AwaitedMore
  <2>2. Drawing(flush'.phase, drawn') => Quiet(stack, graph', drawn')
    BY <1>1 DEF Settling
  <2> QED BY <1>1, <1>3, <2>1, <2>2, StartsSettling
<1> QED BY <1>2, <1>3 DEF Create

LEMMA EnterBodySettles ==
  ASSUME KnowsInv, ReadsOnly(page), Settling, Busy, EnterBody, UNCHANGED page
  PROVE  Settling'
<1> DEFINE g == [top EXCEPT !.phase = "body", !.trace = <<Instruction.to>>, !.next = Instruction.to]
           H == Append(below, g)
<1>1. /\ IInv /\ stack \in Seq(Frames) /\ stack # <<>> /\ Len(stack) # 0
      /\ top \in Frames /\ top.who \in Watches /\ Instruction.to \in Answers
      /\ UNCHANGED <<graph, flush, drawn>> /\ stack' = H
  BY InstructionIs DEF KnowsInv, FreshInv, IInv, StackOK, EnterBody, Result, Busy
<1>2. g \in Frames /\ g.who = top.who /\ g.consumer = top.consumer /\ g.recursed = top.recursed
  <2>1. <<Instruction.to>> \in Traces  BY <1>1, CodeAssumption
  <2> QED BY <1>1, <2>1 DEF Frames
<1>3. Alike(stack, stack')  BY <1>1, GoesOn
<1> HIDE DEF g
<1>4. H[Len(stack)] = g /\ \A i \in 1 .. Len(stack) - 1 : H[i] = stack[i]
  BY <1>1, <1>2, BelowIs, TopAppended
<1> HIDE DEF H
<1>5. Beneath(stack', stack) /\ Running(stack') = Running(stack)
  BY <1>1, <1>2, <1>3, <1>4, AlikeBeneath DEF top
<1>6. ~Quiet(stack, graph, drawn)  BY <1>1, QuietReads
<1> QED BY <1>1, <1>5, <1>6, StaysSettling DEF Settling

LEMMA RunningBelow ==
  ASSUME IInv, Busy, EndComputed \/ EndObserver
  PROVE  Running(stack') = Running(stack) \ {top.who}
<1>1. Alike(below, stack') /\ Running(below) = Running(stack) \ {top.who} /\ below \in Seq(Frames)
  BY EndsAbove, BelowIs
<1> QED BY <1>1, AlikeKeeps

LEMMA EndObserverSettles ==
  ASSUME KnowsInv, Settling, Busy, EndObserver, UNCHANGED page
  PROVE  Settling'
<1>1. /\ IInv /\ graph \in Graphs /\ top.who \notin Computeds /\ graph' = ForgetOld(graph)
      /\ UNCHANGED <<flush, drawn>> /\ Awaited(graph, Running(stack))
  BY NamesAssumption DEF KnowsInv, FreshInv, IInv, GraphOK, EndObserver, Settling
<1>2. /\ Awaited(graph', Running(stack)) /\ \A n \in Nodes : graph'.subs[n] \subseteq graph.subs[n]
      /\ graph'.queue = graph.queue /\ graph'.stopped = graph.stopped
  BY <1>1, CutAwaits, CutFields DEF ForgetOld
<1>3. Beneath(stack', stack)
  <2>1. /\ stack' \in Seq(Frames) /\ Len(stack') = Len(stack) - 1 /\ Len(stack) \in Nat
        /\ Len(stack) # 0
        /\ \A i \in 1 .. Len(stack) - 1 :
              /\ stack'[i].who = stack[i].who /\ stack'[i].consumer = stack[i].consumer
              /\ stack'[i].recursed = stack[i].recursed
    BY <1>1, EndLeaves
  <2>2. Len(stack') \in 0 .. Len(stack)  BY <2>1
  <2> QED BY <2>1, <2>2 DEF Beneath
<1>4. Awaited(graph', Running(stack'))
  <2>1. Running(stack') = Running(stack) \ {top.who}  BY <1>1, RunningBelow
  <2> QED BY <1>1, <1>2, <2>1 DEF Awaited
<1>5. \A c \in Computeds : c \in Nodes  BY DEF Nodes
<1> QED BY <1>1, <1>2, <1>3, <1>4, <1>5, StaysSettling

(* A computed that ends is clean, or nobody observes it; in a quiet flush it *)
(* tells nobody but its reader.                                              *)
LEMMA EndComputedSettles ==
  ASSUME KnowsInv, Settling, Busy, EndComputed, UNCHANGED page
  PROVE  Settling'
<1> DEFINE c == top.who
           R == Running(stack)
           W == R \ {c}
<1>1. /\ IInv /\ graph \in Graphs /\ c \in Computeds /\ c \in Nodes /\ c \in Observers
      /\ UNCHANGED <<flush, drawn>> /\ Awaited(graph, R)
      /\ Len(stack) \in Nat /\ Len(stack) # 0 /\ stack \in Seq(Frames)
  BY InstructionIs
  DEF KnowsInv, FreshInv, IInv, GraphOK, StackOK, EndComputed, Settling, Nodes, Observers
<1>2. ~top.recursed  BY <1>1 DEF Settling, NoneRecursed, top
<1>3. /\ Awaited(ForgetOld(graph), R)
      /\ \A n \in Nodes : ForgetOld(graph).subs[n] \subseteq graph.subs[n]
  BY <1>1, CutAwaits DEF ForgetOld
<1>4. /\ Cleaned \in Graphs /\ Cleaned.dirty = ForgetOld(graph).dirty \ {c}
      /\ Cleaned.subs = ForgetOld(graph).subs /\ Cleaned.stopped = graph.stopped
      /\ Cleaned.queue = graph.queue
  BY <1>1, CleanedIs
<1>5. ForgetOld(graph).stopped = graph.stopped /\ ForgetOld(graph).queue = graph.queue
  BY <1>1, ForgetIs
<1>6. Awaited(Cleaned, W)  BY <1>3, <1>4, <1>5 DEF Awaited
<1>7. /\ LeftWith \in Graphs /\ LeftWith.stopped = graph.stopped /\ LeftWith.queue = graph.queue
  BY <1>1, LeftWithIs, LeftQueues DEF GraphOK
<1>8. /\ Awaited(LeftWith, W)
      /\ \A n \in Nodes : LeftWith.subs[n] \subseteq Cleaned.subs[n]
  <2>1. CASE LetsGo(Cleaned, c)
    <3> DEFINE K == CleanUp(Cleaned, {c})
    <3>1. Cleaned.subs[c] = {}  BY <1>2, <2>1 DEF LetsGo
    <3>2. {c} \in SUBSET Observers  BY <1>1
    <3>3. /\ K \in Graphs /\ Awaited(K, W) /\ \A n \in Nodes : K.subs[n] \subseteq Cleaned.subs[n]
      BY <1>4, <1>6, <3>2, CleanUpAwaits, CleanUpQueues
    <3>4. LeftWith = [K EXCEPT !.dirty = @ \cup {c}]  BY <2>1 DEF LeftWith, Detach
    <3> HIDE DEF K, c
    <3>5. /\ LeftWith.dirty = K.dirty \cup {c} /\ LeftWith.subs = K.subs
          /\ LeftWith.stopped = K.stopped /\ LeftWith.queue = K.queue
      BY <3>3, <3>4 DEF Graphs
    <3>6. K.subs[c] = {}  BY <1>1, <3>1, <3>3
    <3>7. Awaited(LeftWith, W)  BY <3>3, <3>5, <3>6 DEF Awaited
    <3> QED BY <3>3, <3>5, <3>7
  <2>2. CASE ~LetsGo(Cleaned, c)
    <3>1. LeftWith = Cleaned  BY <2>2 DEF LeftWith
    <3> QED BY <1>6, <3>1
  <2> QED BY <2>1, <2>2
<1>9. \A n \in Nodes : LeftWith.subs[n] \subseteq graph.subs[n]  BY <1>3, <1>4, <1>8
<1> DEFINE O == Dependents(LeftWith, c)
<1>10. /\ O \in SUBSET Observers /\ OnStack = R
       /\ graph' = Tell(LeftWith, O, R) \/ graph' = LeftWith
  <2>1. /\ \E changed \in Changed(top.who) :
              graph' = IF changed THEN Tell(LeftWith, O, OnStack) ELSE LeftWith
        /\ O \in SUBSET Observers /\ OnStack = Running(stack)
    BY <1>1, EndComputedIs
  <2> QED BY <2>1
<1>11. O = LeftWith.subs[c] \ {top.consumer}  BY DEF Dependents
<1> HIDE DEF c, R, O
<1>12. Awaited(graph', W) /\ \A n \in Nodes : graph'.subs[n] \subseteq graph.subs[n]
  <2>1. Awaited(Tell(LeftWith, O, R), W) /\ \A n \in Nodes : Tell(LeftWith, O, R).subs[n] \subseteq LeftWith.subs[n]
    BY <1>7, <1>8, <1>10, TellAwaits
  <2> QED BY <1>8, <1>9, <1>10, <2>1
<1>13. Quiet(stack, graph, drawn) =>
         graph'.queue \subseteq graph.queue /\ graph.stopped \subseteq graph'.stopped
  <2> SUFFICES ASSUME Quiet(stack, graph, drawn)
               PROVE  graph'.queue = graph.queue /\ graph'.stopped = graph.stopped
    OBVIOUS
  <2>1. graph.subs[c] \subseteq {top.consumer}
    <3>1. Len(stack) \in 1 .. Len(stack)  BY <1>1
    <3> QED BY <1>1, <3>1 DEF Quiet, top, c
  <2>2. O = {}  BY <1>1, <1>9, <1>11, <2>1
  <2>3. Tell(LeftWith, {}, R).queue = LeftWith.queue /\ Tell(LeftWith, {}, R).stopped = LeftWith.stopped
    BY <1>7, TellNobody
  <2> QED BY <1>7, <1>10, <2>2, <2>3
<1>14. Beneath(stack', stack)
  <2>1. /\ stack' \in Seq(Frames) /\ Len(stack') = Len(stack) - 1
        /\ \A i \in 1 .. Len(stack) - 1 :
              /\ stack'[i].who = stack[i].who /\ stack'[i].consumer = stack[i].consumer
              /\ stack'[i].recursed = stack[i].recursed
    BY <1>1, EndAnswers
  <2>2. Len(stack') \in 0 .. Len(stack)  BY <1>1, <2>1
  <2> QED BY <1>1, <2>1, <2>2 DEF Beneath
<1>15. Running(stack') = W  BY <1>1, RunningBelow DEF c, R
<1>16. \A x \in Computeds : x \in Nodes  BY DEF Nodes
<1> QED BY <1>1, <1>12, <1>13, <1>14, <1>15, <1>16, StaysSettling

LEMMA StepSettles ==
  ASSUME KnowsInv, Settling, ReadsOnly(page), NoCircle(page), Step
  PROVE  Settling'
<1>1. Busy /\ UNCHANGED page  BY DEF Step
<1>2. CASE ReadCell \/ ReadFresh \/ ReadRecursive  BY <1>1, <1>2, ReadsSettle
<1>3. CASE ReadDirty  BY <1>1, <1>3, ReadStartsSettling
<1>4. CASE Write  BY <1>1, <1>4, WriteSettles
<1>5. CASE Create  BY <1>1, <1>5, CreateSettles
<1>6. CASE Destroy  BY <1>1, <1>6, DestroySettles
<1>7. CASE EndComputed  BY <1>1, <1>7, EndComputedSettles
<1>8. CASE EnterBody  BY <1>1, <1>8, EnterBodySettles
<1>9. CASE EndObserver  BY <1>1, <1>9, EndObserverSettles
<1> QED BY <1>2, <1>3, <1>4, <1>5, <1>6, <1>7, <1>8, <1>9 DEF Step

(* Among the watches of a pass one is written first.                         *)
LEMMA LeastIs ==
  ASSUME NEW T \in SUBSET Nat, T # {}
  PROVE  \E m \in T : \A n \in T : m <= n
<1> DEFINE L == OpToRel(<, Nat)
<1>1. IsWellFoundedOn(L, Nat)  BY NatLessThanWellFounded, Zenon
<1>2. \A m \in Nat, n \in Nat : n < m => <<n, m>> \in L  BY Zenon DEF OpToRel
<1> HIDE DEF L
<1>3. PICK m \in T : \A n \in T : ~(<<n, m>> \in L)  BY <1>1, WFMin
<1>4. \A n \in T : ~(n < m)  BY <1>2, <1>3
<1> QED BY <1>3, <1>4

LEMMA FirstIs ==
  ASSUME NEW S \in SUBSET Watches, S # {}
  PROVE  First(S) \in S /\ \A v \in S : Sequence[First(S)] <= Sequence[v]
<1> DEFINE T == {Sequence[w] : w \in S}
<1>1. T \in SUBSET Nat /\ T # {}  BY SequenceAssumption
<1>2. PICK m \in T : \A n \in T : m <= n
  <2> HIDE DEF T
  <2> QED BY <1>1, LeastIs
<1>3. \E w \in S : \A v \in S : Sequence[w] <= Sequence[v]  BY <1>2
<1> QED BY <1>3 DEF First

(* Steps of the flush and the program outside that run nothing.              *)
LEMMA RestsSettling ==
  ASSUME IInv, stack' = <<>>, Awaited(graph', {}), PassOK(<<>>, graph', flush'),
         Drawing(flush'.phase, drawn') => Quiet(<<>>, graph', drawn'), UNCHANGED page
  PROVE  Settling'
<1> DEFINE F == stack'
<1>1. Len(F) = 0 /\ DOMAIN F = {} /\ \A i : i \notin 1 .. Len(F)  OBVIOUS
<1>2. F = <<>>  OBVIOUS
<1> HIDE DEF F
<1>3. Running(F) = {}  BY <1>1 DEF Running
<1>4. Ordered(F, RankOf(page)) /\ NoneRecursed(F)  BY <1>1 DEF Ordered, NoneRecursed
<1> QED BY <1>2, <1>3, <1>4 DEF Settling, F

(* Whatever is taken from the queue runs, or need not be awaited.            *)
LEMMA QueuedSettles ==
  ASSUME KnowsInv, Settling, ~Busy, NEW o \in graph.queue, StepQueued(o),
         flush'.phase = "watch" => flush'.ran,
         Drawing(flush'.phase, drawn') =>
           /\ Quiet(<<>>, [graph EXCEPT !.queue = @ \ {o}], drawn')
           /\ o \notin Computeds /\ (o \in Watches => o \in graph.stopped),
         UNCHANGED page
  PROVE  Settling'
<1> DEFINE G == [graph EXCEPT !.queue = @ \ {o}]
<1>1. /\ IInv /\ graph \in Graphs /\ stack = <<>> /\ Running(stack) = {} /\ o \in Observers
      /\ Awaited(graph, {})
  BY EmptyStack DEF KnowsInv, FreshInv, IInv, GraphOK, Graphs, Settling
<1>2. /\ G.subs = graph.subs /\ G.dirty = graph.dirty /\ G.stopped = graph.stopped
      /\ G.queue = graph.queue \ {o} /\ G \in Graphs
  BY <1>1 DEF Graphs
<1>3. Quiet(<<>>, [graph EXCEPT !.queue = @ \ {o}], drawn') <=> Quiet(<<>>, G, drawn')
  OBVIOUS
<1>4. /\ graph' = IF Owes(o) THEN Anew(G, o) ELSE G
      /\ stack' = IF Owes(o) THEN <<Run(o, "run")>> ELSE <<>>
  BY DEF StepQueued
<1> HIDE DEF G
<1>5. Anew(G, o).subs = G.subs /\ Anew(G, o).dirty = G.dirty /\ Anew(G, o).stopped = G.stopped
      /\ Anew(G, o).queue = G.queue
  BY <1>2 DEF Anew, Graphs
<1>6. CASE Owes(o)
  <2>1. stack' = Append(stack, Run(o, "run"))  BY <1>1, <1>4, <1>6
  <2>2. Awaited(graph', Running(stack) \cup {o})
    BY <1>1, <1>2, <1>4, <1>5, <1>6 DEF Awaited
  <2>3. o \notin graph.stopped  BY <1>6 DEF Owes
  <2>4. Drawing(flush'.phase, drawn') =>
          Quiet(stack, graph', drawn') /\ o \notin Watches /\ o \notin Computeds
    <3>1. \A i : i \notin 1 .. Len(<<>>)  OBVIOUS
    <3> QED BY <1>1, <1>3, <1>4, <1>5, <1>6, <2>3, <3>1 DEF Quiet
  <2>5. \A i \in 1 .. Len(stack) : FALSE  BY <1>1
  <2> QED BY <1>1, <2>1, <2>2, <2>4, <2>5, StartsSettling
<1>7. CASE ~Owes(o)
  <2>1. stack' = <<>> /\ graph' = G  BY <1>4, <1>7
  <2>2. o \in Computeds \ graph.stopped => o \notin graph.dirty \/ graph.subs[o] = {}
    BY <1>7 DEF Owes
  <2>3. Awaited(G, {})  BY <1>1, <1>2, <2>2 DEF Awaited
  <2>4. PassOK(<<>>, G, flush')  BY DEF PassOK
  <2> QED BY <1>1, <1>3, <2>1, <2>3, <2>4, RestsSettling
<1> QED BY <1>6, <1>7

LEMMA FlushSettles ==
  ASSUME KnowsInv, Settling, StartFlush \/ Flush
  PROVE  Settling'
<1>1. /\ IInv /\ graph \in Graphs /\ UNCHANGED page /\ ~Busy
      /\ flush \in [phase : {"rest", "derive", "watch", "dom"}, pass : SUBSET Watches, ran : BOOLEAN]
  BY DEF KnowsInv, FreshInv, IInv, GraphOK, RestOK, StartFlush, Flush, Idle, StepComputed,
         BeginWatches, StepWatch, EndPass, StepDom, EndDoms
<1>2. stack = <<>> /\ Running(stack) = {} /\ Awaited(graph, {})
  BY <1>1, EmptyStack DEF Settling
<1>3. PassOK(<<>>, graph, flush) /\ (Drawing(flush.phase, drawn) => Quiet(<<>>, graph, drawn))
  BY <1>2 DEF Settling
<1>4. CASE StartFlush
  <2>1. /\ stack' = <<>> /\ drawn' = {} /\ flush.phase = "rest"
        /\ flush'.phase \in {"rest", "derive"}
    BY <1>1, <1>2, <1>4 DEF StartFlush, Idle, Enter
  <2>2. graph' = [graph EXCEPT !.pending = FALSE]  BY <1>4 DEF StartFlush
  <2>3. /\ graph'.subs = graph.subs /\ graph'.dirty = graph.dirty
        /\ graph'.stopped = graph.stopped /\ graph'.queue = graph.queue
    BY <1>1, <2>2 DEF Graphs
  <2>4. Awaited(graph', {}) /\ PassOK(<<>>, graph', flush')
    BY <1>2, <2>1, <2>3 DEF Awaited, PassOK
  <2>5. ~Drawing(flush'.phase, drawn')  BY <2>1 DEF Drawing
  <2> QED BY <1>1, <2>1, <2>4, <2>5, RestsSettling
<1>5. ASSUME NEW c \in Computeds, StepComputed(c) PROVE Settling'
  <2>1. c \in graph.queue /\ StepQueued(c) /\ flush.phase = "derive" /\ UNCHANGED <<flush, drawn>>
    BY <1>5 DEF StepComputed, Queued
  <2>2. ~Drawing(flush'.phase, drawn')  BY <1>3, <1>5, <2>1 DEF Quiet
  <2> QED BY <1>1, <2>1, <2>2, QueuedSettles
<1>6. CASE BeginWatches
  <2>1. /\ flush.phase = "derive" /\ graph.queue \cap Computeds = {}
        /\ flush'.phase = "watch" /\ flush'.pass = graph.queue \cap Watches
        /\ UNCHANGED <<graph, stack, drawn>>
    BY <1>6 DEF BeginWatches, Queued
  <2>2. PassOK(<<>>, graph', flush')  BY <2>1 DEF PassOK
  <2>3. Drawing(flush'.phase, drawn') => Quiet(<<>>, graph', drawn')
    BY <1>3, <2>1 DEF Drawing
  <2> QED BY <1>1, <1>2, <2>1, <2>2, <2>3, RestsSettling
<1>7. CASE StepWatch
  <2> DEFINE w == First(flush.pass)
  <2>1. flush.phase = "watch" /\ drawn' = drawn  BY <1>7 DEF StepWatch
  <2>2. CASE w \in graph.stopped \/ w \notin graph.queue
    <3>1. flush' = [flush EXCEPT !.pass = @ \ {w}] /\ UNCHANGED <<graph, stack>>
      BY <1>7, <2>2 DEF StepWatch
    <3>2. flush'.phase = "watch" /\ flush'.ran = flush.ran /\ flush'.pass = flush.pass \ {w}
      BY <1>1, <2>1, <3>1
    <3> HIDE DEF w
    <3>3. PassOK(<<>>, graph', flush')  BY <1>3, <2>1, <2>2, <3>1, <3>2 DEF PassOK
    <3>4. Drawing(flush'.phase, drawn') => Quiet(<<>>, graph', drawn')
      BY <1>3, <2>1, <3>1, <3>2
    <3> QED BY <1>1, <1>2, <3>1, <3>3, <3>4, RestsSettling
  <2>3. CASE w \notin graph.stopped /\ w \in graph.queue
    <3>1. /\ flush' = [flush EXCEPT !.pass = @ \ {w}, !.ran = TRUE] /\ StepQueued(w)
          /\ flush.pass # {}
      BY <1>7, <2>3 DEF StepWatch
    <3>2. flush'.phase = "watch" /\ flush'.ran  BY <1>1, <2>1, <3>1
    <3>3. w \in Watches
      <4>1. flush.pass \in SUBSET Watches  BY <1>1
      <4> QED BY <3>1, <4>1, FirstIs
    <3> HIDE DEF w
    <3>4. ~Drawing(flush'.phase, drawn')
      BY <1>3, <2>1, <2>3, <3>2, <3>3 DEF Quiet, Drawing
    <3> QED BY <1>1, <2>3, <3>1, <3>2, <3>4, QueuedSettles
  <2> QED BY <2>2, <2>3
<1>8. CASE EndPass
  <2>1. /\ flush.phase = "watch" /\ flush.pass = {} /\ UNCHANGED <<graph, stack, drawn>>
        /\ flush'.phase = (IF ~flush.ran THEN "dom" ELSE "derive")
    BY <1>1, <1>8 DEF EndPass, Enter, Settled
  <2>2. PassOK(<<>>, graph', flush')  BY <2>1 DEF PassOK
  <2>3. Drawing(flush'.phase, drawn') => Quiet(<<>>, graph', drawn')
    <3>1. CASE drawn # {}  BY <1>3, <2>1, <3>1 DEF Drawing
    <3>2. CASE drawn = {} /\ ~flush.ran
      <4>1. graph.queue \cap Computeds = {} /\ (graph.queue \cap Watches) \ graph.stopped = {}
        BY <1>3, <2>1, <3>2 DEF PassOK
      <4>2. \A i : i \notin 1 .. Len(<<>>)  OBVIOUS
      <4> QED BY <2>1, <3>2, <4>1, <4>2 DEF Quiet
    <3>3. CASE drawn = {} /\ flush.ran  BY <2>1, <3>3 DEF Drawing
    <3> QED BY <3>1, <3>2, <3>3
  <2> QED BY <1>1, <1>2, <2>1, <2>2, <2>3, RestsSettling
<1>9. ASSUME NEW o \in Doms, StepDom(o) PROVE Settling'
  <2>1. /\ o \in graph.queue /\ StepQueued(o) /\ flush.phase = "dom" /\ UNCHANGED flush
        /\ drawn' \subseteq drawn \cup {o} /\ o \notin Computeds /\ o \notin Watches
    BY <1>9, NamesAssumption DEF StepDom, Queued
  <2>2. Quiet(<<>>, [graph EXCEPT !.queue = @ \ {o}], drawn')
    <3> DEFINE G == [graph EXCEPT !.queue = @ \ {o}]
    <3>1. G.queue = graph.queue \ {o} /\ G.stopped = graph.stopped  BY <1>1 DEF Graphs
    <3>2. Quiet(<<>>, graph, drawn)  BY <1>3, <2>1 DEF Drawing
    <3>3. \A i : i \notin 1 .. Len(<<>>)  OBVIOUS
    <3> HIDE DEF G
    <3>4. Quiet(<<>>, G, drawn')  BY <2>1, <3>1, <3>2, <3>3 DEF Quiet
    <3> QED BY <3>4 DEF G
  <2> QED BY <1>1, <2>1, <2>2, QueuedSettles
<1>10. CASE EndDoms
  <2>1. flush.phase = "dom" /\ flush'.phase \in {"rest", "derive"} /\ UNCHANGED <<graph, stack, drawn>>
    BY <1>1, <1>10 DEF EndDoms, Enter
  <2>2. PassOK(<<>>, graph', flush')  BY <2>1 DEF PassOK
  <2>3. Quiet(<<>>, graph', drawn')  BY <1>3, <2>1 DEF Drawing
  <2> QED BY <1>1, <1>2, <2>1, <2>2, <2>3, RestsSettling
<1> QED BY <1>4, <1>5, <1>6, <1>7, <1>8, <1>9, <1>10 DEF Flush

(* Outside a flush only what is awaited matters.                             *)
LEMMA OutsideSettles ==
  ASSUME KnowsInv, Settling, Outside
  PROVE  Settling'
<1>1. /\ IInv /\ graph \in Graphs /\ ~Busy /\ flush.phase = "rest" /\ UNCHANGED <<page, flush, drawn>>
  BY DEF KnowsInv, FreshInv, IInv, GraphOK, Outside, Turn, Peek, Mount, Stop, Idle
<1>2. stack = <<>> /\ Running(stack) = {} /\ Awaited(graph, {})
  BY <1>1, EmptyStack DEF Settling
<1>3. \A F, G : PassOK(F, G, flush')  BY <1>1 DEF PassOK
<1>4. ~Drawing(flush'.phase, drawn')  BY <1>1 DEF Drawing
<1>5. \A i \in 1 .. Len(stack) : FALSE  BY <1>2
<1>6. ASSUME NEW s \in Cells, NEW v \in Values, Turn(s, v) PROVE Settling'
  <2>1. graph.subs[s] \in SUBSET Observers  BY <1>1 DEF Graphs, Nodes
  <2>2. stack' = <<>> /\ graph' = Tell(graph, graph.subs[s], OnStack)
    BY <1>2, <1>6 DEF Turn, Assign
  <2>3. Awaited(graph', {})  BY <1>1, <1>2, <2>1, <2>2, TellAwaits
  <2> QED BY <1>1, <1>3, <1>4, <2>2, <2>3, RestsSettling
<1>7. ASSUME NEW c \in Computeds, Peek(c) PROVE Settling'
  <2>1. stack' = Append(stack, Run(c, "access")) /\ graph' = Anew(graph, c) /\ c \in Observers
    BY <1>2, <1>7 DEF Peek, Observers
  <2>2. /\ graph'.subs = graph.subs /\ graph'.dirty = graph.dirty
        /\ graph'.stopped = graph.stopped /\ graph'.queue = graph.queue
    BY <1>1, <2>1 DEF Anew, Graphs
  <2>3. Awaited(graph', Running(stack) \cup {c})  BY <1>2, <2>2 DEF Awaited
  <2> QED BY <1>1, <1>4, <1>5, <2>1, <2>3, StartsSettling
<1>8. ASSUME NEW o \in Watches \cup Doms, Mount(o) PROVE Settling'
  <2>1. /\ stack' = Append(stack, Run(o, "mount")) /\ graph' = graph
        /\ o \in Observers /\ o \notin Computeds
    BY <1>2, <1>8, NamesAssumption DEF Mount, Observers
  <2>2. Awaited(graph', Running(stack) \cup {o})  BY <1>2, <2>1 DEF Awaited
  <2> QED BY <1>1, <1>4, <2>1, <2>2, StartsSettling
<1>9. ASSUME NEW o \in Watches \cup Doms, Stop(o) PROVE Settling'
  <2>1. stack' = <<>> /\ graph' = StopAll(graph, {o}) /\ {o} \in SUBSET Observers
    BY <1>2, <1>9 DEF Stop, Observers
  <2>2. Awaited(graph', {})  BY <1>1, <1>2, <2>1, StopAllAwaits
  <2> QED BY <1>1, <1>3, <1>4, <2>1, <2>2, RestsSettling
<1> QED BY <1>6, <1>7, <1>8, <1>9 DEF Outside

LEMMA StartsSettled == Init => Settling
<1> SUFFICES ASSUME Init PROVE Settling  OBVIOUS
<1>1. /\ stack = <<>> /\ flush.phase = "rest" /\ \A c \in Computeds : graph.subs[c] = {}
  BY DEF Init, Nodes
<1>2. \A i : i \notin 1 .. Len(stack)  BY <1>1
<1>3. Awaited(graph, Running(stack)) /\ PassOK(stack, graph, flush) /\ ~Drawing(flush.phase, drawn)
  BY <1>1 DEF Awaited, PassOK, Drawing, Init
<1>4. Ordered(stack, RankOf(page)) /\ NoneRecursed(stack)
  BY <1>2 DEF Ordered, NoneRecursed
<1> QED BY <1>3, <1>4 DEF Settling

LEMMA StaysSettled ==
  ASSUME KnowsInv, Settling, ReadsOnly(page), NoCircle(page), [Next]_vars
  PROVE  Settling'
<1>1. CASE Step  BY <1>1, StepSettles
<1>2. CASE StartFlush \/ Flush  BY <1>2, FlushSettles
<1>3. CASE Outside  BY <1>3, OutsideSettles
<1>4. CASE UNCHANGED vars
  <2>1. UNCHANGED <<page, graph, stack, flush, drawn>>  BY <1>4 DEF vars
  <2> QED BY <2>1 DEF Settling
<1> QED BY <1>1, <1>2, <1>3, <1>4 DEF Next

LEMMA SettlingInductive ==
  ASSUME CalmPages
  PROVE  /\ Init => SettlingInv
         /\ SettlingInv /\ [Next]_vars => SettlingInv'
<1>1. Init => SettlingInv  BY StartsKnowing, StartsSettled DEF SettlingInv
<1>2. ASSUME SettlingInv, [Next]_vars, page' \notin Impure
      PROVE  (KnowsInv /\ Settling)'
  <2>1. KnowsInv /\ Settling /\ page \notin Impure  BY <1>2, PageStays DEF SettlingInv
  <2>2. ReadsOnly(page) /\ NoCircle(page) /\ PureDerivations
    BY <2>1 DEF CalmPages, KnowsInv, FreshInv, IInv, RestOK
  <2> QED BY <1>2, <2>1, <2>2, StaysKnown, StaysSettled
<1> QED BY <1>1, <1>2 DEF SettlingInv

(* The computeds and the watches settle before a position is written: in     *)
(* the flush of a page whose expressions only read and whose computeds do    *)
(* not go in a circle, whatever its conditions, its failures and the writes  *)
(* of its watches, no watch and no computed waits when a position runs.      *)
THEOREM DomLast == CalmPages => (Spec => SettledBeforeDom)
<1> SUFFICES ASSUME CalmPages PROVE Spec => SettledBeforeDom  OBVIOUS
<1> DEFINE A == page \notin Impure => \A o \in Doms : Draws(o) =>
                  Queued(Watches) \ graph.stopped = {} /\ Queued(Computeds) = {}
<1>1. Init => SettlingInv  BY SettlingInductive
<1>2. SettlingInv /\ [Next]_vars => SettlingInv'  BY SettlingInductive
<1>3. SettlingInv => A
  <2> SUFFICES ASSUME SettlingInv, page \notin Impure, NEW o \in Doms, Draws(o)
               PROVE  Queued(Watches) \ graph.stopped = {} /\ Queued(Computeds) = {}
    OBVIOUS
  <2>1. Quiet(stack, graph, drawn)  BY DEF SettlingInv, Settling, Draws, Drawing
  <2> QED BY <2>1 DEF Quiet, Queued
<1> HIDE DEF A
<1>4. Spec => [][A]_vars  BY <1>1, <1>2, <1>3, PTL DEF Spec
<1> QED BY <1>4 DEF A, SettledBeforeDom

(* Only the flush runs a position when nothing else runs in its turn.        *)
LEMMA DrawsQueued ==
  ASSUME IInv, [Next]_vars, NEW o \in Doms, Draws(o)
  PROVE  o \in graph.queue
<1>1. /\ stack = <<>> /\ ~Busy /\ flush.phase = "dom" /\ stack' # <<>> /\ stack'[1].who = o
  BY EmptyStack DEF Draws
<1>2. ~Step /\ ~StartFlush /\ ~Outside /\ ~UNCHANGED vars
  BY <1>1 DEF Step, StartFlush, Outside, Turn, Peek, Mount, Stop, Idle, vars
<1>3. ASSUME NEW c \in Computeds, StepComputed(c) PROVE FALSE
  BY <1>1, <1>3 DEF StepComputed
<1>4. ~BeginWatches /\ ~StepWatch /\ ~EndPass /\ ~EndDoms
  BY <1>1 DEF BeginWatches, StepWatch, EndPass, EndDoms
<1>5. PICK d \in Doms : StepDom(d)  BY <1>2, <1>3, <1>4 DEF Next, Flush
<1>6. d \in graph.queue /\ stack' = <<Run(d, "run")>> /\ d \in Observers
  BY <1>1, <1>5 DEF StepDom, Queued, StepQueued, Observers
<1>7. stack'[1].who = d  BY <1>6 DEF Run
<1> QED BY <1>1, <1>6, <1>7

(* On such a page a flush writes each position at most once.                 *)
THEOREM DomOnce == CalmPages => (Spec => DrawnOnce)
<1> SUFFICES ASSUME CalmPages PROVE Spec => DrawnOnce  OBVIOUS
<1> DEFINE A == page \notin Impure => \A o \in Doms : Draws(o) => o \notin drawn
<1>1. Init => SettlingInv  BY SettlingInductive
<1>2. SettlingInv /\ [Next]_vars => SettlingInv'  BY SettlingInductive
<1>3. SettlingInv /\ [Next]_vars => A
  <2> SUFFICES ASSUME SettlingInv, [Next]_vars, page \notin Impure, NEW o \in Doms, Draws(o)
               PROVE  o \notin drawn
    OBVIOUS
  <2>1. Quiet(stack, graph, drawn) /\ IInv
    BY DEF SettlingInv, Settling, Draws, Drawing, KnowsInv, FreshInv
  <2>2. o \in graph.queue  BY <2>1, DrawsQueued
  <2> QED BY <2>1, <2>2 DEF Quiet
<1> HIDE DEF A
<1>4. Spec => [][A]_vars  BY <1>1, <1>2, <1>3, PTL DEF Spec
<1> QED BY <1>4 DEF A, DrawnOnce
-----------------------------------------------------------------------------
(* What a page shows at rest is what its program says now.                   *)

(* A computed that runs is dirty.                                            *)
LEMMA RunsDirty ==
  ASSUME KnowsInv
  PROVE  Running(stack) \cap Computeds \subseteq graph.dirty
<1>1. stack \in Seq(Frames) /\ DerivingOK(stack, graph)
  BY DEF KnowsInv, FreshInv, IInv, StackOK
<1> QED BY <1>1 DEF Running, DerivingOK

LEMMA ShorterIs ==
  ASSUME NEW F \in Seq(Frames), NEW H \in Seq(Frames), Len(H) \in {Len(F), Len(F) - 1}
  PROVE  /\ Len(F) \in Nat /\ Len(H) \in Nat /\ Len(H) <= Len(F)
         /\ DOMAIN F = 1 .. Len(F) /\ DOMAIN H = 1 .. Len(H)
         /\ \A i \in 1 .. Len(H) : i \in 1 .. Len(F)
         /\ \A i \in 1 .. Len(F) : F[i] \in Frames /\ F[i].who \in Observers
<1>1. /\ Len(F) \in Nat /\ Len(H) \in Nat /\ Len(H) <= Len(F)
      /\ DOMAIN F = 1 .. Len(F) /\ DOMAIN H = 1 .. Len(H)
  OBVIOUS
<1>2. \A i \in 1 .. Len(H) : i \in 1 .. Len(F)
  <2>1. \A m, n \in Nat : m <= n => \A i \in 1 .. m : i \in 1 .. n  OBVIOUS
  <2> QED BY <1>1, <2>1
<1>3. \A i \in 1 .. Len(F) : F[i] \in Frames  OBVIOUS
<1>4. \A f \in Frames : f.who \in Observers  BY DEF Frames
<1> QED BY <1>1, <1>2, <1>3, <1>4

(* A step that starts no run and marks nothing of what is still read.        *)
LEMMA StaysLevel ==
  ASSUME IInv, Descends(graph, RankOf(page)), Levels(stack, graph), page' = page,
         stack' \in Seq(Frames), Len(stack') \in {Len(stack), Len(stack) - 1},
         \A i \in 1 .. Len(stack') :
           stack'[i].who = stack[i].who /\ (stack'[i].phase = "read" => stack[i].phase = "read"),
         Len(stack') # Len(stack) => top.who \in Viewers,
         \A o \in Observers : graph'.deps[o] \subseteq graph.deps[o],
         graph.dirty \subseteq graph'.dirty, graph.stopped \subseteq graph'.stopped,
         \A o \in Observers \ graph'.stopped :
           o \in Computeds \ graph'.dirty \/ o \in Reading(stack') =>
             \A n \in graph'.deps[o] : Up(n, graph) => Up(n, graph')
  PROVE  Descends(graph', RankOf(page)) /\ Levels(stack', graph')
<1> DEFINE F == stack
           H == stack'
<1>1. /\ F \in Seq(Frames) /\ H \in Seq(Frames) /\ Len(F) \in Nat /\ Len(H) \in Nat
      /\ Len(H) \in {Len(F), Len(F) - 1} /\ Len(H) <= Len(F)
      /\ DOMAIN F = 1 .. Len(F) /\ DOMAIN H = 1 .. Len(H)
      /\ graph.deps \in [Observers -> SUBSET Nodes]
  BY ShorterIs DEF IInv, StackOK, GraphOK, Graphs
<1>2. \A i \in 1 .. Len(H) : i \in 1 .. Len(F) /\ H[i].who = F[i].who /\ H[i].who \in Observers
  <2>1. \A i \in 1 .. Len(H) : H[i].who = F[i].who  OBVIOUS
  <2> HIDE DEF F, H
  <2> QED BY <1>1, <2>1, ShorterIs
<1>3. Len(H) # Len(F) => F[Len(F)].who \notin Nodes
  BY NamesAssumption DEF Viewers, Nodes, top, Observers
<1>4. \A x \in Computeds : x \in Observers  BY DEF Observers
<1>5. Descends(graph', RankOf(page))  BY <1>4 DEF Descends
<1>6. \A i \in 1 .. Len(H) : H[i].phase = "read" =>
        /\ F[i].phase = "read"
        /\ H[i].who \notin graph'.stopped =>
             \A n \in graph'.deps[H[i].who] : Up(n, graph) => Up(n, graph')
  <2>1. \A i \in 1 .. Len(H) : H[i].phase = "read" => H[i].who \in Reading(H)
    BY DEF Reading
  <2> QED BY <1>2, <2>1
<1> HIDE DEF F, H
<1>7. Running(H) \subseteq Running(F)  BY <1>1, <1>2 DEF Running
<1>8. ASSUME NEW x \in Computeds \ (graph'.dirty \cup graph'.stopped), NEW n \in graph'.deps[x]
      PROVE  Up(n, graph') /\ n \notin Running(H)
  <2>1. Up(n, graph) /\ n \notin Running(F)  BY <1>4, <1>8 DEF Levels, F
  <2> QED BY <1>4, <1>7, <1>8, <2>1
<1>9. ASSUME NEW i \in 1 .. Len(H), H[i].phase = "read", H[i].who \notin graph'.stopped,
             NEW n \in graph'.deps[H[i].who]
      PROVE  Up(n, graph') \/ (i < Len(H) /\ n = H[i + 1].who)
  <2>1. /\ i \in 1 .. Len(F) /\ F[i].who = H[i].who /\ F[i].phase = "read"
        /\ H[i].who \in Observers /\ H[i].who \notin graph.stopped
        /\ Up(n, graph) => Up(n, graph')
        /\ n \in graph.deps[H[i].who] /\ n \in Nodes
    BY <1>1, <1>2, <1>6, <1>9
  <2>2. Up(n, graph) \/ (i < Len(F) /\ n = F[i + 1].who)  BY <2>1 DEF Levels, F
  <2>3. CASE i < Len(F) /\ n = F[i + 1].who
    <3>1. /\ Len(F) \in Nat /\ Len(H) \in Nat /\ Len(H) \in {Len(F), Len(F) - 1}
          /\ i \in 1 .. Len(H)
      BY <1>1, <1>9
    <3>2. i + 1 # Len(F) \/ Len(H) = Len(F)  BY <1>3, <2>1, <2>3
    <3>3. i + 1 \in 1 .. Len(H) /\ i < Len(H)  BY <2>3, <3>1, <3>2
    <3>4. H[i + 1].who = F[i + 1].who  BY <1>2, <3>3
    <3> QED BY <2>3, <3>3, <3>4
  <2> QED BY <1>9, <2>1, <2>2, <2>3
<1> QED BY <1>5, <1>8, <1>9 DEF Levels, H

(* A run that starts reads nothing yet; the run below subscribed to it, if   *)
(* it is to read it.                                                         *)
LEMMA StartsLevel ==
  ASSUME KnowsInv, Descends(graph, RankOf(page)), Levels(stack, graph),
         NEW o \in Observers \ Running(stack), NEW by \in {"run", "access", "mount"},
         stack' = Append(stack, Run(o, by)),
         graph'.dirty = graph.dirty, graph'.stopped = graph.stopped, graph'.deps[o] = {},
         o \in Computeds => o \in graph.dirty \ graph.stopped,
         \A x \in Observers \ {o} :
           \/ graph'.deps[x] \subseteq graph.deps[x]
           \/ Busy /\ x = top.who /\ o \in Computeds /\ graph'.deps[x] \subseteq graph.deps[x] \cup {o},
         Busy /\ top.who \in Computeds /\ o \in Computeds => RankOf(page)[o] < RankOf(page)[top.who]
  PROVE  Descends(graph', RankOf(page)) /\ Levels(stack', graph')
<1> DEFINE F == stack
           f == Run(o, by)
           H == Append(F, f)
           k == Len(F)
<1>1. /\ IInv /\ F \in Seq(Frames) /\ k \in Nat /\ graph.deps \in [Observers -> SUBSET Nodes]
      /\ Running(F) \cap Computeds \subseteq graph.dirty
  BY RunsDirty DEF KnowsInv, FreshInv, IInv, StackOK, GraphOK, Graphs
<1>2. f \in Frames /\ f.who = o  BY <1>1, RunIs
<1>3. /\ Len(H) = k + 1 /\ H[k + 1] = f /\ \A i \in 1 .. k : H[i] = F[i]
      /\ DOMAIN H = 1 .. k + 1 /\ DOMAIN F = 1 .. k
  <2> HIDE DEF f
  <2> QED BY <1>1, <1>2
<1>4. Busy => top = F[k] /\ k \in 1 .. k  BY <1>1, TopRuns DEF top
<1>5. \A x \in Computeds : x \in Observers  BY DEF Observers
<1> HIDE DEF f, H, F
<1>6. Running(H) = Running(F) \cup {o}  BY <1>1, <1>2, <1>3 DEF Running
<1>7. \A i \in 1 .. k : F[i].who \in Observers \ {o} /\ F[i].who \in Running(F)
  <2>1. \A i \in 1 .. k : F[i] \in Frames  BY <1>1
  <2>2. \A i \in 1 .. k : F[i].who \in Running(F)  BY <1>3 DEF Running
  <2> QED BY <2>1, <2>2 DEF Frames, F
<1>8. Descends(graph', RankOf(page))  BY <1>5 DEF Descends
<1>9. ASSUME NEW x \in Computeds \ (graph.dirty \cup graph.stopped), NEW n \in graph'.deps[x]
      PROVE  Up(n, graph') /\ n \notin Running(H)
  <2>1. x # o  BY <1>9
  <2>2. graph'.deps[x] \subseteq graph.deps[x]
    <3>1. Busy => x # top.who  BY <1>1, <1>9, TopRuns DEF F
    <3> QED BY <1>5, <2>1, <3>1
  <2>3. n \in Nodes /\ Up(n, graph) /\ n \notin Running(F)
    BY <1>1, <1>5, <1>9, <2>2 DEF Levels, F
  <2>4. n # o  BY <2>3, NamesAssumption DEF Up, Nodes, Observers
  <2> QED BY <1>6, <2>3, <2>4 DEF Up
<1>10. ASSUME NEW i \in 1 .. k + 1, H[i].phase = "read", H[i].who \notin graph.stopped,
              NEW n \in graph'.deps[H[i].who]
       PROVE  Up(n, graph') \/ (i < k + 1 /\ n = H[i + 1].who)
  <2>1. i \in 1 .. k
    <3>1. CASE i = k + 1  BY <1>2, <1>3, <1>10, <3>1
    <3> QED BY <1>1, <3>1
  <2>2. H[i] = F[i] /\ H[i].who \in Observers \ {o} /\ i < k + 1
    BY <1>1, <1>3, <1>7, <2>1
  <2>3. CASE n \in graph.deps[H[i].who]
    <3>1. Up(n, graph) \/ (i < k /\ n = F[i + 1].who)
      BY <1>10, <2>1, <2>2, <2>3 DEF Levels, F
    <3>2. i < k => H[i + 1] = F[i + 1]  BY <1>1, <1>3, <2>1
    <3> QED BY <2>2, <3>1, <3>2 DEF Up
  <2>4. CASE n \notin graph.deps[H[i].who]
    <3>1. Busy /\ H[i].who = top.who /\ n = o  BY <1>10, <2>2, <2>4
    <3>2. i = k
      <4>1. F[i].who = F[k].who /\ i \in DOMAIN F /\ k \in DOMAIN F /\ Distinct(F)
        BY <1>1, <1>3, <1>4, <2>1, <2>2, <3>1 DEF IInv, StackOK, F
      <4> QED BY <4>1 DEF Distinct
    <3> QED BY <1>1, <1>2, <1>3, <3>1, <3>2
  <2> QED BY <2>3, <2>4
<1> QED BY <1>3, <1>8, <1>9, <1>10 DEF Levels, H, F, f

(* A read that goes on subscribes to what is up.                             *)
LEMMA ReadsLevel ==
  ASSUME KnowsInv, Settling, NoCircle(page), Descends(graph, RankOf(page)), Levels(stack, graph),
         Busy, ReadCell \/ ReadFresh
  PROVE  Descends(graph', RankOf(page)) /\ Levels(stack', graph')
<1> DEFINE F == stack
           H == stack'
           k == Len(F)
           n == Instruction.of
<1>1. /\ IInv /\ F \in Seq(Frames) /\ k \in Nat /\ graph.deps \in [Observers -> SUBSET Nodes]
      /\ Running(F) \cap Computeds \subseteq graph.dirty /\ graph \in Graphs
      /\ Instruction.op = "read" /\ n \in Nodes /\ graph' = Track(graph, n)
  BY RunsDirty
  DEF KnowsInv, FreshInv, IInv, StackOK, GraphOK, Graphs, ReadCell, ReadFresh, Nodes
<1>2. Up(n, graph)
  BY <1>1, NamesAssumption DEF ReadCell, ReadFresh, Fresh, Up, Graphs, Observers
<1>3. /\ Alike(F, H) /\ \A i \in 1 .. k : H[i].phase = F[i].phase
  BY <1>1, GoesOn, ReadAnswers
<1>4. Running(H) = Running(F) /\ Len(H) = k /\ \A i \in 1 .. k : H[i].who = F[i].who
  BY <1>1, <1>3, AlikeKeeps DEF Alike
<1>5. n \in Computeds /\ top.who \in Computeds => RankOf(page)[n] < RankOf(page)[top.who]
  <2>1. F[k] = top /\ k \in 1 .. k  BY <1>1, TopRuns DEF top
  <2> QED BY <1>1, <2>1, NotReread
<1>6. Active # Nobody => Active = top.who /\ Active \in Running(F)  BY <1>1, ActiveIs
<1> HIDE DEF n, F, H
<1>7. /\ graph'.dirty = graph.dirty /\ graph'.stopped = graph.stopped
      /\ \A x \in Observers : \/ graph'.deps[x] = graph.deps[x]
                              \/ /\ x = top.who /\ x \in Running(F)
                                 /\ graph'.deps[x] \subseteq graph.deps[x] \cup {n}
  <2>1. /\ Track(graph, n).stopped = graph.stopped /\ Track(graph, n).dirty = graph.dirty
        /\ \/ Track(graph, n) = graph
           \/ /\ Active \in Observers /\ Active # Nobody
              /\ Track(graph, n).deps = [graph.deps EXCEPT ![Active] = @ \cup {n}]
    BY <1>1, TrackIs
  <2> QED BY <1>1, <1>6, <2>1
<1>8. \A x \in Computeds : x \in Observers  BY DEF Observers
<1>9. Descends(graph', RankOf(page))  BY <1>5, <1>7, <1>8 DEF Descends
<1>10. ASSUME NEW x \in Computeds \ (graph.dirty \cup graph.stopped), NEW y \in graph'.deps[x]
       PROVE  Up(y, graph') /\ y \notin Running(H)
  <2>1. y \in graph.deps[x]  BY <1>1, <1>7, <1>8, <1>10
  <2> QED BY <1>4, <1>7, <1>10, <2>1 DEF Levels, Up, F
<1>11. ASSUME NEW i \in 1 .. k, H[i].phase = "read", H[i].who \notin graph.stopped,
              NEW y \in graph'.deps[H[i].who]
       PROVE  Up(y, graph') \/ (i < k /\ y = H[i + 1].who)
  <2>1. F[i].phase = "read" /\ F[i].who = H[i].who /\ F[i].who \in Observers
    <3>1. F[i] \in Frames  BY <1>1
    <3> QED BY <1>3, <1>4, <1>11, <3>1 DEF Frames
  <2>2. y = n \/ y \in graph.deps[F[i].who]  BY <1>7, <1>11, <2>1
  <2>3. y \in graph.deps[F[i].who] => Up(y, graph) \/ (i < k /\ y = F[i + 1].who)
    BY <1>11, <2>1 DEF Levels, F
  <2>4. i < k => H[i + 1].who = F[i + 1].who  BY <1>1, <1>4
  <2> QED BY <1>2, <1>7, <2>2, <2>3, <2>4 DEF Up
<1> QED BY <1>4, <1>7, <1>9, <1>10, <1>11 DEF Levels, H

LEMMA ReadStartsLevel ==
  ASSUME KnowsInv, Settling, NoCircle(page), Descends(graph, RankOf(page)), Levels(stack, graph),
         Busy, ReadDirty
  PROVE  Descends(graph', RankOf(page)) /\ Levels(stack', graph')
<1> DEFINE c == Instruction.of
<1>1. IInv /\ Derives(c)  BY ReadDirtyIs DEF KnowsInv, FreshInv
<1>2. top.who \in Computeds => RankOf(page)[c] < RankOf(page)[top.who]
  <2>1. top = stack[Len(stack)] /\ Len(stack) \in 1 .. Len(stack)
    BY <1>1, InstructionIs DEF top
  <2> QED BY <1>1, <2>1, NotReread DEF Derives
<1> HIDE DEF c
<1> QED BY <1>1, <1>2, StartsLevel DEF Derives

(* Whoever is told, nothing that is left clean has read what is marked.      *)
LEMMA TellLevels ==
  ASSUME KnowsInv, NEW O \in SUBSET Observers,
         NEW x \in Computeds \ (Tell(graph, O, OnStack).dirty \cup Tell(graph, O, OnStack).stopped),
         NEW n \in Tell(graph, O, OnStack).deps[x], Up(n, graph)
  PROVE  Up(n, Tell(graph, O, OnStack))
<1> DEFINE H == Tell(graph, O, OnStack)
           D == Dirtied(graph, O, OnStack)
<1>1. /\ graph \in Graphs /\ BothSides(graph, Unconfirmed(stack))
      /\ UnreadLetGo(graph, Running(stack)) /\ StoppedLetGo(graph)
      /\ Running(stack) \cap Computeds \subseteq graph.dirty
  BY RunsDirty DEF KnowsInv, FreshInv, IInv, GraphOK
<1>2. H \in Graphs /\ Erodes(graph, H, D)  BY <1>1, TellKeeps
<1>3. OnStack = Running(stack) /\ x \notin graph.dirty
  BY <1>2 DEF OnStack, Running, Erodes
<1>4. graph.deps[x] \cap D = {}  BY <1>1, <1>3, TellReaches
<1> HIDE DEF H, D
<1>5. n \in graph.deps[x] /\ n \in H.deps[x] /\ x \in Observers /\ n \in Nodes
  BY <1>1, <1>2 DEF Erodes, Observers, Graphs, H
<1>6. n \notin graph.dirty => n \notin H.dirty  BY <1>2, <1>4, <1>5 DEF Erodes, Graphs
<1> QED BY <1>2, <1>6 DEF Up, Erodes, H

LEMMA AssignLevels ==
  ASSUME KnowsInv, Descends(graph, RankOf(page)), Levels(stack, graph), page' = page,
         NEW s \in Cells, NEW v \in Values, Assign(s, v),
         stack' \in Seq(Frames), Len(stack') = Len(stack), Reading(stack') = {},
         \A i \in 1 .. Len(stack') :
           stack'[i].who = stack[i].who /\ (stack'[i].phase = "read" => stack[i].phase = "read")
  PROVE  Descends(graph', RankOf(page)) /\ Levels(stack', graph')
<1> DEFINE O == graph.subs[s]
<1>1. /\ IInv /\ graph \in Graphs /\ BothSides(graph, Unconfirmed(stack))
      /\ UnreadLetGo(graph, Running(stack)) /\ StoppedLetGo(graph)
  BY DEF KnowsInv, FreshInv, IInv, GraphOK
<1>2. O \in SUBSET Observers  BY <1>1 DEF Graphs, Nodes
<1>3. graph' = graph \/ graph' = Tell(graph, O, OnStack)  BY DEF Assign
<1> HIDE DEF O
<1>4. /\ \A o \in Observers : graph'.deps[o] \subseteq graph.deps[o]
      /\ graph.dirty \subseteq graph'.dirty /\ graph.stopped \subseteq graph'.stopped
  <2>1. Erodes(graph, Tell(graph, O, OnStack), Dirtied(graph, O, OnStack))
    BY <1>1, <1>2, TellKeeps
  <2> QED BY <1>3, <2>1 DEF Erodes
<1>5. ASSUME NEW x \in Observers \ graph'.stopped, x \in Computeds \ graph'.dirty,
             NEW n \in graph'.deps[x], Up(n, graph)
      PROVE  Up(n, graph')
  <2>1. CASE graph' = Tell(graph, O, OnStack)  BY <1>2, <1>5, <2>1, TellLevels
  <2> QED BY <1>3, <1>5, <2>1
<1>6. Len(stack') \in {Len(stack), Len(stack) - 1} /\ ~(Len(stack') # Len(stack))  OBVIOUS
<1> QED BY <1>1, <1>4, <1>5, <1>6, StaysLevel

(* Only the body of a watch writes, and it runs alone.                       *)
LEMMA WritesAlone ==
  ASSUME KnowsInv, ReadsOnly(page), Busy, Instruction.op = "write"
  PROVE  Len(stack) = 1 /\ top.phase = "body" /\ top.who \in Watches /\ Reading(stack) = {}
<1>1. IInv /\ top \in Frames /\ Len(stack) \in 1 .. Len(stack) /\ ShapeOK(stack) /\ top = stack[Len(stack)]
  BY InstructionIs DEF KnowsInv, FreshInv, top
<1>2. top.phase = "body"
  <2>1. top.who \in Observers /\ top.trace \in Traces /\ top.phase \in {"read", "body"}
    BY <1>1 DEF Frames
  <2> QED BY <1>1, <2>1, InstructionIs DEF ReadsOnly, NextOf
<1>3. top.who \in Watches /\ Len(stack) = 1  BY <1>1, <1>2 DEF ShapeOK
<1>4. \A i \in 1 .. Len(stack) : stack[i].phase = "body"  BY <1>1, <1>2, <1>3
<1> QED BY <1>2, <1>3, <1>4 DEF Reading

LEMMA ContinueStays ==
  ASSUME IInv, Busy, Instruction.op \notin {"return", "throw"},
         NEW v \in Answers, NEW n \in Nodes \cup {Nobody}, Continue(n, v)
  PROVE  /\ stack' \in Seq(Frames) /\ Len(stack') = Len(stack) /\ Running(stack') = Running(stack)
         /\ \A i \in 1 .. Len(stack') :
              stack'[i].who = stack[i].who /\ stack'[i].phase = stack[i].phase
         /\ Reading(stack') = Reading(stack)
<1>1. Alike(stack, stack') /\ Len(stack) \in Nat /\ stack \in Seq(Frames)
  BY ContinueAlike, InstructionIs DEF IInv, StackOK
<1>2. /\ \A i \in 1 .. Len(stack) - 1 : stack'[i] = stack[i]
      /\ stack'[Len(stack)].who = top.who /\ stack'[Len(stack)].phase = top.phase
  BY ContinueIs
<1>3. \A i \in 1 .. Len(stack) : i \in 1 .. Len(stack) - 1 \/ i = Len(stack)  BY <1>1
<1>4. \A i \in 1 .. Len(stack) :
              stack'[i].who = stack[i].who /\ stack'[i].phase = stack[i].phase
  BY <1>2, <1>3 DEF top
<1>5. stack' \in Seq(Frames) /\ Len(stack') = Len(stack) /\ Running(stack') = Running(stack)
  BY <1>1, AlikeKeeps DEF Alike
<1> QED BY <1>4, <1>5 DEF Reading

LEMMA WriteLevels ==
  ASSUME KnowsInv, ReadsOnly(page), Descends(graph, RankOf(page)), Levels(stack, graph),
         page' = page, Busy, Write
  PROVE  Descends(graph', RankOf(page)) /\ Levels(stack', graph')
<1>1. /\ IInv /\ Instruction.op = "write" /\ Instruction.of \in Cells /\ Instruction.to \in Values
      /\ Instruction.to \in Answers /\ Nobody \in Nodes \cup {Nobody}
      /\ Continue(Nobody, Instruction.to) /\ Assign(Instruction.of, Instruction.to)
  BY InstructionIs DEF KnowsInv, FreshInv, Write, Answers
<1>2. /\ stack' \in Seq(Frames) /\ Len(stack') = Len(stack) /\ Reading(stack') = Reading(stack)
      /\ \A i \in 1 .. Len(stack') :
              stack'[i].who = stack[i].who /\ stack'[i].phase = stack[i].phase
  BY <1>1, ContinueStays
<1>3. Reading(stack) = {}  BY <1>1, WritesAlone
<1> QED BY <1>1, <1>2, <1>3, AssignLevels

(* Taking subscriptions away marks nothing that anybody still reads.         *)
LEMMA ErosionLevels ==
  ASSUME NEW G \in Graphs, NEW H \in Graphs, Erodes(G, H, {})
  PROVE  \A o \in Observers, n \in Nodes : n \in H.deps[o] /\ Up(n, G) => Up(n, H)
BY DEF Erodes, Up, Graphs

LEMMA DestroyLevels ==
  ASSUME KnowsInv, Descends(graph, RankOf(page)), Levels(stack, graph), page' = page,
         Busy, Destroy
  PROVE  Descends(graph', RankOf(page)) /\ Levels(stack', graph')
<1> DEFINE S == {Instruction.of} \cap mounted
<1>1. /\ IInv /\ graph \in Graphs /\ Instruction.op = "stop" /\ Nobody \in Answers
      /\ Nobody \in Nodes \cup {Nobody} /\ S \in SUBSET Observers
      /\ graph' = StopAll(graph, S) /\ Continue(Nobody, Nobody)
      /\ BothSides(graph, Unconfirmed(stack)) /\ UnreadLetGo(graph, Running(stack))
      /\ StoppedLetGo(graph)
  BY InstructionIs DEF KnowsInv, FreshInv, IInv, GraphOK, Destroy, Answers, Observers
<1> HIDE DEF S
<1>2. /\ stack' \in Seq(Frames) /\ Len(stack') = Len(stack)
      /\ \A i \in 1 .. Len(stack') :
              stack'[i].who = stack[i].who /\ stack'[i].phase = stack[i].phase
  BY <1>1, ContinueStays
<1>3. graph' \in Graphs /\ Erodes(graph, graph', {})  BY <1>1, StopAllKeeps
<1>4. \A o \in Observers : graph'.deps[o] \subseteq Nodes  BY <1>3 DEF Graphs
<1>5. \A o \in Observers : \A n \in graph'.deps[o] : Up(n, graph) => Up(n, graph')
  BY <1>1, <1>3, <1>4, ErosionLevels
<1>6. /\ \A o \in Observers : graph'.deps[o] \subseteq graph.deps[o]
      /\ graph.dirty \subseteq graph'.dirty /\ graph.stopped \subseteq graph'.stopped
  BY <1>3 DEF Erodes
<1> QED BY <1>1, <1>2, <1>5, <1>6, StaysLevel

(* What was never created has read nothing.                                  *)
LEMMA NewReadNothing ==
  ASSUME IInv, NEW o \in Viewers \ mounted
  PROVE  graph.deps[o] = {} /\ o \notin Running(stack)
<1>1. /\ graph.deps \in [Observers -> SUBSET Nodes] /\ BothSides(graph, Unconfirmed(stack))
      /\ \A n \in Nodes : graph.subs[n] \subseteq Computeds \cup mounted
      /\ Running(stack) \subseteq Computeds \cup mounted
  BY DEF IInv, GraphOK, Graphs, Alive
<1>2. o \in Observers /\ o \notin Computeds  BY NamesAssumption DEF Viewers, Observers
<1> QED BY <1>1, <1>2 DEF BothSides

LEMMA CreateLevels ==
  ASSUME KnowsInv, Descends(graph, RankOf(page)), Levels(stack, graph), page' = page,
         Busy, Create
  PROVE  Descends(graph', RankOf(page)) /\ Levels(stack', graph')
<1> DEFINE o == Instruction.of
<1>1. /\ IInv /\ Instruction.op = "mount" /\ Nobody \in Answers /\ Nobody \in Nodes \cup {Nobody}
      /\ o \in Observers /\ o \notin Computeds /\ o \in Viewers /\ graph' = graph
  BY InstructionIs, NamesAssumption DEF KnowsInv, FreshInv, Create, Answers, Observers, Viewers
<1>2. CASE Continue(Nobody, Nobody)
  <2>1. /\ stack' \in Seq(Frames) /\ Len(stack') = Len(stack)
        /\ \A i \in 1 .. Len(stack') :
              stack'[i].who = stack[i].who /\ stack'[i].phase = stack[i].phase
    BY <1>1, <1>2, ContinueStays
  <2> QED BY <1>1, <2>1, StaysLevel
<1>3. CASE o \notin mounted /\ stack' = Append(stack, Run(o, "mount"))
  <2>1. graph.deps[o] = {} /\ o \notin Running(stack)  BY <1>1, <1>3, NewReadNothing
  <2> HIDE DEF o
  <2> QED BY <1>1, <1>3, <2>1, StartsLevel
<1> QED BY <1>2, <1>3 DEF Create

LEMMA EnterBodyLevels ==
  ASSUME KnowsInv, Descends(graph, RankOf(page)), Levels(stack, graph), page' = page,
         Busy, EnterBody
  PROVE  Descends(graph', RankOf(page)) /\ Levels(stack', graph')
<1> DEFINE g == [top EXCEPT !.phase = "body", !.trace = <<Instruction.to>>, !.next = Instruction.to]
           H == Append(below, g)
           k == Len(stack)
<1>1. /\ IInv /\ stack \in Seq(Frames) /\ stack # <<>> /\ k \in Nat /\ k # 0
      /\ top \in Frames /\ top.who \in Watches /\ Instruction.to \in Answers
      /\ graph' = graph /\ stack' = H
  BY InstructionIs DEF KnowsInv, FreshInv, IInv, StackOK, EnterBody, Result, Busy
<1>2. g \in Frames /\ g.who = top.who /\ g.phase = "body"
  <2>1. <<Instruction.to>> \in Traces  BY <1>1, CodeAssumption
  <2> QED BY <1>1, <2>1 DEF Frames
<1> HIDE DEF g
<1>3. H \in Seq(Frames) /\ Len(H) = k /\ H[k] = g /\ \A i \in 1 .. k - 1 : H[i] = stack[i]
  BY <1>1, <1>2, BelowIs, TopAppended
<1>4. \A i \in 1 .. k : i \in 1 .. k - 1 \/ i = k  BY <1>1
<1> HIDE DEF H
<1>5. \A i \in 1 .. k : H[i].who = stack[i].who /\ (H[i].phase = "read" => stack[i].phase = "read")
  BY <1>2, <1>3, <1>4 DEF top
<1> QED BY <1>1, <1>3, <1>5, StaysLevel

LEMMA EndObserverLevels ==
  ASSUME KnowsInv, Descends(graph, RankOf(page)), Levels(stack, graph), page' = page,
         Busy, EndObserver
  PROVE  Descends(graph', RankOf(page)) /\ Levels(stack', graph')
<1>1. /\ IInv /\ graph \in Graphs /\ top.who \in Viewers /\ graph' = ForgetOld(graph)
  BY DEF KnowsInv, FreshInv, IInv, GraphOK, EndObserver, Viewers
<1>2. /\ stack' \in Seq(Frames) /\ Len(stack') = Len(stack) - 1
      /\ \A i \in 1 .. Len(stack') :
           stack'[i].who = stack[i].who /\ stack'[i].phase = stack[i].phase
  BY <1>1, EndLeaves
<1>3. graph' \in Graphs /\ Erodes(graph, graph', {})  BY <1>1, ForgetIs
<1>4. \A o \in Observers : graph'.deps[o] \subseteq Nodes  BY <1>3 DEF Graphs
<1>5. \A o \in Observers : \A n \in graph'.deps[o] : Up(n, graph) => Up(n, graph')
  BY <1>1, <1>3, <1>4, ErosionLevels
<1>6. /\ \A o \in Observers : graph'.deps[o] \subseteq graph.deps[o]
      /\ graph.dirty \subseteq graph'.dirty /\ graph.stopped \subseteq graph'.stopped
  BY <1>3 DEF Erodes
<1> QED BY <1>1, <1>2, <1>5, <1>6, StaysLevel

(* The end of a computed marks nothing that anybody still reads: who was to  *)
(* be told of it is dirty already.                                           *)
LEMMA EndTellsNobody ==
  ASSUME KnowsInv, Settling, Descends(graph, RankOf(page)), Levels(stack, graph), NoCircle(page),
         IInv', Busy, EndComputed
  PROVE  /\ Erodes(LeftWith, graph', {}) /\ Erodes(Undirtied, graph', {top.who})
         /\ \A o \in Observers : graph'.deps[o] \subseteq graph.deps[o]
         /\ \A o \in Observers : \A n \in graph'.deps[o] :
              n \in graph'.dirty => n \in graph.dirty /\ n # top.who
<1> DEFINE c == top.who
           r == RankOf(page)
<1>1. /\ IInv /\ graph \in Graphs /\ graph' \in Graphs /\ c \in Computeds /\ c \in Nodes /\ c \in Observers
      /\ DerivingOK(stack, graph) /\ Running(stack) \cap Computeds \subseteq graph.dirty
      /\ c \in Running(stack) /\ stack \in Seq(Frames)
  BY TopRuns, RunsDirty
  DEF KnowsInv, FreshInv, IInv, GraphOK, StackOK, EndComputed, Nodes, Observers
<1>2. PICK D \in SUBSET Computeds :
        /\ Erodes(LeftWith, graph', D)
        /\ \A T : (\A x \in (Computeds \cap T) \ (LeftWith.dirty \cup LeftWith.stopped) :
                     /\ x \notin LeftWith.subs[c]
                     /\ \A d \in Computeds \ T : x \notin LeftWith.subs[d])
                  => D \cap T = {}
  BY <1>1, EndQueues
<1>3. /\ GraphOK(LeftWith, below, mounted) /\ Erodes(Cleaned, LeftWith, {c})
      /\ LeftWith.stopped = graph.stopped
      /\ ~LetsGo(Cleaned, c) => LeftWith = Cleaned
  BY <1>1, LeftWithIs
<1>4. /\ Cleaned.dirty = ForgetOld(graph).dirty \ {c} /\ Cleaned.deps = ForgetOld(graph).deps
      /\ Cleaned.subs = ForgetOld(graph).subs
      /\ Erodes(graph, ForgetOld(graph), {})
  BY <1>1, CleanedIs, ForgetIs
<1>5. /\ graph.dirty \subseteq LeftWith.dirty \cup {c}
      /\ \A o \in Observers : LeftWith.deps[o] \subseteq graph.deps[o]
  BY <1>3, <1>4 DEF Erodes
<1>6. /\ Running(below) = Running(stack) \ {c} /\ LeftWith \in Graphs
      /\ BothSides(LeftWith, Unconfirmed(below))
  BY <1>1, <1>3, BelowIs DEF GraphOK
<1>7. ASSUME NEW x \in Computeds \ (LeftWith.dirty \cup LeftWith.stopped) PROVE x \notin LeftWith.subs[c]
  <2> SUFFICES ASSUME x \in LeftWith.subs[c] PROVE FALSE  OBVIOUS
  <2>1. x \in Observers  BY DEF Observers
  <2>2. c \in LeftWith.deps[x] \/ <<x, c>> \in Unconfirmed(below)
    BY <1>1, <1>6, <2>1 DEF BothSides
  <2>3. <<x, c>> \in Unconfirmed(below) => x \in Running(below)
    BY DEF Unconfirmed, Running
  <2>4. x \in Running(below) => x \in graph.dirty /\ x # c  BY <1>1, <1>6
  <2>5. c \in graph.deps[x]  BY <1>5, <1>7, <2>1, <2>2, <2>3, <2>4
  <2>6. x # c
    <3>1. c \notin graph.deps[c]
      <4>1. r[c] \in Nat  BY <1>1, RanksAre
      <4>2. c \in graph.deps[c] => r[c] < r[c]  BY <1>1 DEF Descends
      <4> HIDE DEF r
      <4> QED BY <4>1, <4>2
    <3> QED BY <2>5, <3>1
  <2>7. x \notin graph.dirty \cup graph.stopped  BY <1>3, <1>5, <1>7, <2>6
  <2> QED BY <1>1, <2>5, <2>7 DEF Levels
<1>8. D = {}
  <2>1. D \cap Computeds = {}  BY <1>2, <1>7
  <2> QED BY <2>1
<1>9. Erodes(LeftWith, graph', {})  BY <1>2, <1>8
<1>10. /\ Erodes(Undirtied, graph', {c} \cup {}) /\ Undirtied.dirty = graph.dirty \ {c}
       /\ Undirtied.deps = graph.deps
  BY <1>1, <1>9, EndErodes
<1>11. {c} \cup {} = {c}  OBVIOUS
<1>12. Erodes(Undirtied, graph', {c})  BY <1>10, <1>11
<1>13. ASSUME NEW o \in Observers, NEW n \in graph'.deps[o], n \in graph'.dirty
       PROVE  n \in graph.dirty /\ n # c
  <2>1. n \in Computeds /\ n \in Nodes  BY <1>1, <1>13 DEF Graphs, Nodes
  <2>2. n \notin graph.dirty \ {c} => n = c  BY <1>10, <1>12, <1>13, <2>1 DEF Erodes
  <2>3. n # c
    <3> SUFFICES ASSUME n = c PROVE FALSE  OBVIOUS
    <3>1. o \in graph'.subs[c]  BY <1>13, <2>1 DEF IInv, GraphOK, BothSides
    <3>2. o \in LeftWith.subs[c] /\ LeftWith.subs[c] \subseteq Cleaned.subs[c]
      BY <1>1, <1>3, <1>9, <3>1 DEF Erodes
    <3>3. ~top.recursed
      <4>1. top = stack[Len(stack)] /\ Len(stack) \in 1 .. Len(stack)
        BY <1>1, TopRuns DEF top
      <4> QED BY <4>1 DEF Settling, NoneRecursed
    <3>4. LeftWith = Cleaned  BY <1>3, <3>2, <3>3 DEF LetsGo
    <3>5. c \notin LeftWith.dirty  BY <1>4, <3>4
    <3> QED BY <1>9, <1>13, <2>1, <3>5 DEF Erodes
  <2> QED BY <2>2, <2>3
<1>14. \A o \in Observers : graph'.deps[o] \subseteq graph.deps[o]
  BY <1>10, <1>12 DEF Erodes
<1> QED BY <1>9, <1>12, <1>13, <1>14

LEMMA EndComputedLevels ==
  ASSUME KnowsInv, Settling, Descends(graph, RankOf(page)), Levels(stack, graph), NoCircle(page),
         IInv', Busy, EndComputed
  PROVE  Descends(graph', RankOf(page)) /\ Levels(stack', graph')
<1> DEFINE c == top.who
           r == RankOf(page)
           F == stack
           H == stack'
           k == Len(F)
<1>1. /\ IInv /\ c \in Computeds /\ c \in Observers /\ c \notin Cells
      /\ DerivingOK(F, graph) /\ Ordered(F, r) /\ top = F[k] /\ k \in 1 .. k
      /\ F \in Seq(Frames) /\ k \in Nat /\ DOMAIN F = 1 .. k
      /\ graph.deps \in [Observers -> SUBSET Nodes]
  <2>1. /\ IInv /\ c \in Computeds /\ c \in Observers /\ c \notin Cells /\ top = F[k]
        /\ DerivingOK(F, graph) /\ Ordered(F, r) /\ F \in Seq(Frames)
        /\ graph.deps \in [Observers -> SUBSET Nodes]
    BY NamesAssumption
    DEF KnowsInv, FreshInv, IInv, GraphOK, StackOK, EndComputed, Observers, Settling, top, Graphs
  <2>2. k \in DOMAIN F  BY <2>1, TopRuns
  <2> QED BY <2>1, <2>2
<1>2. /\ H \in Seq(Frames) /\ Len(H) = k - 1
      /\ \A i \in 1 .. k - 1 : H[i].who = F[i].who /\ H[i].phase = F[i].phase
  BY <1>1, EndAnswers
<1>3. Running(H) = Running(F) \ {c}  BY <1>1, RunningBelow
<1>4. /\ graph.dirty \subseteq graph'.dirty \cup {c} /\ graph.stopped \subseteq graph'.stopped
      /\ \A o \in Observers : graph'.deps[o] \subseteq graph.deps[o]
  <2>1. /\ Erodes(Undirtied, graph', {c})
        /\ \A o \in Observers : graph'.deps[o] \subseteq graph.deps[o]
    BY EndTellsNobody
  <2>2. Undirtied.dirty = graph.dirty \ {c} /\ Undirtied.stopped = graph.stopped
    BY <1>1, EndErodes, EndTellsNobody
  <2> QED BY <2>1, <2>2 DEF Erodes
<1>5. \A o \in Observers : \A n \in graph'.deps[o] :
        /\ Up(n, graph) => Up(n, graph')
        /\ n = c => Up(n, graph')
  BY <1>4, EndTellsNobody DEF Up
<1>6. \A x \in Computeds : x \in Observers /\ r[x] \in Nat  BY RanksAre DEF Observers
<1> HIDE DEF F, H, r, c
<1>7. Descends(graph', r)  BY <1>4, <1>6 DEF Descends, r
<1>8. ASSUME NEW x \in Computeds \ (graph'.dirty \cup graph'.stopped), NEW n \in graph'.deps[x]
      PROVE  Up(n, graph') /\ n \notin Running(H)
  <2>1. n \in graph.deps[x] /\ n \in Nodes /\ x \in Observers  BY <1>1, <1>4, <1>6, <1>8
  <2>2. CASE x # c
    <3>1. Up(n, graph) /\ n \notin Running(F)  BY <1>4, <1>8, <2>1, <2>2 DEF Levels, F
    <3> QED BY <1>3, <1>5, <1>8, <2>1, <3>1
  <2>3. CASE x = c
    <3>1. F[k].phase = "read" /\ F[k].who = c  BY <1>1 DEF DerivingOK, c
    <3>2. Up(n, graph)
      <4>1. Up(n, graph) \/ k < k  BY <1>1, <1>4, <1>8, <2>1, <2>3, <3>1 DEF Levels, F
      <4> QED BY <1>1, <4>1
    <3>3. n \notin Running(H)
      <4> SUFFICES ASSUME n \in Running(H) PROVE FALSE  OBVIOUS
      <4>1. PICK j \in DOMAIN F : F[j].who = n /\ n # c  BY <1>3 DEF Running
      <4>2. j \in 1 .. k /\ j < k  BY <1>1, <3>1, <4>1
      <4>3. n \in Observers /\ n \in Computeds
        <5>1. F[j] \in Frames  BY <1>1, <4>2
        <5> QED BY <2>1, <4>1, <5>1, NamesAssumption DEF Frames, Nodes
      <4>4. r[c] < r[n]  BY <1>1, <3>1, <4>1, <4>2, <4>3 DEF Ordered
      <4>5. r[n] < r[c]  BY <1>1, <2>1, <2>3, <4>3 DEF Descends, r
      <4> QED BY <1>1, <1>6, <4>3, <4>4, <4>5
    <3> QED BY <1>5, <1>8, <2>1, <3>2, <3>3
  <2> QED BY <2>2, <2>3
<1>9. ASSUME NEW i \in 1 .. k - 1, H[i].phase = "read", H[i].who \notin graph'.stopped,
             NEW n \in graph'.deps[H[i].who]
      PROVE  Up(n, graph') \/ (i < k - 1 /\ n = H[i + 1].who)
  <2>1. i \in 1 .. k /\ F[i].who = H[i].who /\ F[i].phase = "read" /\ H[i].who \in Observers
    <3>1. i \in 1 .. k /\ F[i] \in Frames  BY <1>1
    <3> QED BY <1>2, <1>9, <3>1 DEF Frames
  <2>2. Up(n, graph) \/ n = F[i + 1].who  BY <1>4, <1>9, <2>1 DEF Levels, F
  <2>3. i < k - 1 \/ i + 1 = k
    <3>1. k \in Nat /\ i \in 1 .. k - 1  BY <1>1, <1>9
    <3> QED BY <3>1
  <2>4. i < k - 1 => F[i + 1].who = H[i + 1].who  BY <1>1, <1>2
  <2>5. i + 1 = k => F[i + 1].who = c  BY <1>1 DEF c
  <2> QED BY <1>5, <1>9, <2>1, <2>2, <2>3, <2>4, <2>5
<1> QED BY <1>2, <1>7, <1>8, <1>9 DEF Levels, H, r

LEMMA StepLevels ==
  ASSUME KnowsInv, Settling, Descends(graph, RankOf(page)), Levels(stack, graph),
         ReadsOnly(page), NoCircle(page), IInv', Step
  PROVE  Descends(graph', RankOf(page)) /\ Levels(stack', graph')
<1>1. Busy /\ page' = page  BY DEF Step
<1>2. CASE ReadCell \/ ReadFresh  BY <1>1, <1>2, ReadsLevel
<1>3. CASE ReadDirty  BY <1>1, <1>3, ReadStartsLevel
<1>4. CASE ReadRecursive
  <2>1. Instruction.op = "read" /\ Instruction.of \in Computeds /\ Instruction.of \in Running(stack)
    BY <1>4 DEF ReadRecursive, OnStack, Running
  <2> QED BY <1>1, <2>1, NotReread
<1>5. CASE Write  BY <1>1, <1>5, WriteLevels
<1>6. CASE Create  BY <1>1, <1>6, CreateLevels
<1>7. CASE Destroy  BY <1>1, <1>7, DestroyLevels
<1>8. CASE EndComputed  BY <1>1, <1>8, EndComputedLevels
<1>9. CASE EnterBody  BY <1>1, <1>9, EnterBodyLevels
<1>10. CASE EndObserver  BY <1>1, <1>10, EndObserverLevels
<1> QED BY <1>2, <1>3, <1>4, <1>5, <1>6, <1>7, <1>8, <1>9, <1>10 DEF Step

(* Between runs.                                                             *)
LEMMA RestsLevel ==
  ASSUME IInv, Descends(graph, RankOf(page)), Levels(stack, graph), page' = page, ~Busy,
         stack' = <<>>, \A o \in Observers : graph'.deps[o] \subseteq graph.deps[o],
         graph.dirty \subseteq graph'.dirty, graph.stopped \subseteq graph'.stopped,
         \A o \in Computeds \ (graph'.dirty \cup graph'.stopped) :
           \A n \in graph'.deps[o] : Up(n, graph) => Up(n, graph')
  PROVE  Descends(graph', RankOf(page)) /\ Levels(stack', graph')
<1>1. stack = <<>> /\ stack' \in Seq(Frames) /\ Len(stack') = 0 /\ Len(stack) = 0
  BY EmptyStack DEF IInv, StackOK
<1>2. \A i : i \notin 1 .. Len(stack')  BY <1>1
<1>3. Reading(stack') = {}  BY <1>2 DEF Reading
<1>4. Len(stack') \in {Len(stack), Len(stack) - 1} /\ ~(Len(stack') # Len(stack))  BY <1>1
<1> QED BY <1>1, <1>2, <1>3, <1>4, StaysLevel

LEMMA OutsideLevels ==
  ASSUME KnowsInv, Descends(graph, RankOf(page)), Levels(stack, graph), Outside
  PROVE  Descends(graph', RankOf(page)) /\ Levels(stack', graph')
<1>1. /\ IInv /\ graph \in Graphs /\ ~Busy /\ page' = page
  BY DEF KnowsInv, FreshInv, IInv, GraphOK, Outside, Turn, Peek, Mount, Stop, Idle
<1>2. /\ stack = <<>> /\ Len(stack) = 0 /\ Running(stack) = {} /\ stack \in Seq(Frames)
      /\ BothSides(graph, Unconfirmed(stack)) /\ UnreadLetGo(graph, Running(stack))
      /\ StoppedLetGo(graph)
  BY <1>1, EmptyStack DEF IInv, StackOK, GraphOK
<1>3. ASSUME NEW s \in Cells, NEW v \in Values, Turn(s, v)
      PROVE  Descends(graph', RankOf(page)) /\ Levels(stack', graph')
  <2>1. Assign(s, v) /\ stack' = stack  BY <1>3 DEF Turn
  <2>2. \A i : i \notin 1 .. Len(stack')  BY <1>2, <2>1
  <2>3. Reading(stack') = {}  BY <2>2 DEF Reading
  <2> QED BY <1>1, <1>2, <2>1, <2>2, <2>3, AssignLevels
<1>4. ASSUME NEW c \in Computeds, Peek(c)
      PROVE  Descends(graph', RankOf(page)) /\ Levels(stack', graph')
  <2>1. /\ stack' = Append(stack, Run(c, "access")) /\ graph' = Anew(graph, c) /\ c \in Observers
        /\ c \in graph.dirty \ graph.stopped
    BY <1>2, <1>4 DEF Peek, Observers, Fresh
  <2>2. /\ graph'.dirty = graph.dirty /\ graph'.stopped = graph.stopped /\ graph'.deps[c] = {}
        /\ \A x \in Observers \ {c} : graph'.deps[x] = graph.deps[x]
    BY <1>1, <2>1 DEF Anew, Graphs
  <2> QED BY <1>1, <1>2, <2>1, <2>2, StartsLevel
<1>5. ASSUME NEW o \in Watches \cup Doms, Mount(o)
      PROVE  Descends(graph', RankOf(page)) /\ Levels(stack', graph')
  <2>1. /\ stack' = Append(stack, Run(o, "mount")) /\ graph' = graph
        /\ o \in Observers /\ o \notin Computeds /\ o \in Viewers \ mounted
    BY <1>2, <1>5, NamesAssumption DEF Mount, Observers, Viewers
  <2>2. graph.deps[o] = {} /\ o \notin Running(stack)  BY <1>1, <2>1, NewReadNothing
  <2> QED BY <1>1, <1>2, <2>1, <2>2, StartsLevel
<1>6. ASSUME NEW o \in Watches \cup Doms, Stop(o)
      PROVE  Descends(graph', RankOf(page)) /\ Levels(stack', graph')
  <2>1. stack' = <<>> /\ graph' = StopAll(graph, {o}) /\ {o} \in SUBSET Observers
    BY <1>2, <1>6 DEF Stop, Observers
  <2>2. graph' \in Graphs /\ Erodes(graph, graph', {})  BY <1>1, <1>2, <2>1, StopAllKeeps
  <2>3. \A x \in Observers : graph'.deps[x] \subseteq Nodes  BY <2>2 DEF Graphs
  <2>4. \A x \in Computeds : \A n \in graph'.deps[x] : Up(n, graph) => Up(n, graph')
    BY <1>1, <2>2, <2>3, ErosionLevels DEF Observers
  <2>5. /\ \A x \in Observers : graph'.deps[x] \subseteq graph.deps[x]
        /\ graph.dirty \subseteq graph'.dirty /\ graph.stopped \subseteq graph'.stopped
    BY <2>2 DEF Erodes
  <2> QED BY <1>1, <2>1, <2>4, <2>5, RestsLevel
<1> QED BY <1>3, <1>4, <1>5, <1>6 DEF Outside

LEMMA QueuedLevels ==
  ASSUME KnowsInv, Descends(graph, RankOf(page)), Levels(stack, graph), page' = page, ~Busy,
         NEW o \in graph.queue, StepQueued(o)
  PROVE  Descends(graph', RankOf(page)) /\ Levels(stack', graph')
<1> DEFINE G == [graph EXCEPT !.queue = @ \ {o}]
<1>1. /\ IInv /\ graph \in Graphs /\ stack = <<>> /\ Running(stack) = {} /\ o \in Observers
  BY EmptyStack DEF KnowsInv, FreshInv, IInv, GraphOK, Graphs
<1>2. /\ G.deps = graph.deps /\ G.dirty = graph.dirty /\ G.stopped = graph.stopped
  BY <1>1 DEF Graphs
<1>3. /\ graph' = IF Owes(o) THEN Anew(G, o) ELSE G
      /\ stack' = IF Owes(o) THEN <<Run(o, "run")>> ELSE <<>>
  BY DEF StepQueued
<1>4. /\ Anew(G, o).dirty = graph.dirty /\ Anew(G, o).stopped = graph.stopped
      /\ Anew(G, o).deps[o] = {} /\ \A x \in Observers \ {o} : Anew(G, o).deps[x] = graph.deps[x]
  BY <1>1, <1>2 DEF Anew, Graphs
<1> HIDE DEF G
<1>5. CASE Owes(o)
  <2>1. stack' = Append(stack, Run(o, "run"))  BY <1>1, <1>3, <1>5
  <2>2. o \in Computeds => o \in graph.dirty \ graph.stopped  BY <1>5 DEF Owes
  <2> QED BY <1>1, <1>3, <1>4, <1>5, <2>1, <2>2, StartsLevel
<1>6. CASE ~Owes(o)
  <2>1. \A n : Up(n, graph) => Up(n, G)  BY <1>2 DEF Up
  <2> QED BY <1>1, <1>2, <1>3, <1>6, <2>1, RestsLevel
<1> QED BY <1>5, <1>6

LEMMA FlushLevels ==
  ASSUME KnowsInv, Descends(graph, RankOf(page)), Levels(stack, graph), StartFlush \/ Flush
  PROVE  Descends(graph', RankOf(page)) /\ Levels(stack', graph')
<1>1. IInv /\ graph \in Graphs /\ page' = page /\ ~Busy /\ stack = <<>>
  BY EmptyStack
  DEF KnowsInv, FreshInv, IInv, GraphOK, StartFlush, Idle, Flush, StepComputed, BeginWatches,
      StepWatch, EndPass, StepDom, EndDoms
<1>2. \/ \E o \in graph.queue : StepQueued(o)
      \/ /\ stack' = <<>> /\ graph'.deps = graph.deps /\ graph'.dirty = graph.dirty
         /\ graph'.stopped = graph.stopped
  <2>1. CASE StartFlush  BY <1>1, <2>1 DEF StartFlush, Graphs
  <2>2. CASE \E c \in Computeds : StepComputed(c)  BY <2>2 DEF StepComputed, Queued
  <2>3. CASE BeginWatches \/ EndPass \/ EndDoms
    BY <1>1, <2>3 DEF BeginWatches, EndPass, EndDoms
  <2>4. CASE StepWatch  BY <1>1, <2>4 DEF StepWatch
  <2>5. CASE \E o \in Doms : StepDom(o)  BY <2>5 DEF StepDom, Queued
  <2> QED BY <2>1, <2>2, <2>3, <2>4, <2>5 DEF Flush
<1>3. CASE \E o \in graph.queue : StepQueued(o)  BY <1>1, <1>3, QueuedLevels
<1>4. CASE /\ stack' = <<>> /\ graph'.deps = graph.deps /\ graph'.dirty = graph.dirty
           /\ graph'.stopped = graph.stopped
  <2>1. \A n : Up(n, graph) => Up(n, graph')  BY <1>4 DEF Up
  <2> QED BY <1>1, <1>4, <2>1, RestsLevel
<1> QED BY <1>2, <1>3, <1>4

LEMMA StaysLevelled ==
  ASSUME KnowsInv, Settling, Descends(graph, RankOf(page)), Levels(stack, graph),
         ReadsOnly(page), NoCircle(page), IInv', [Next]_vars
  PROVE  Descends(graph', RankOf(page)) /\ Levels(stack', graph')
<1>1. CASE Step  BY <1>1, StepLevels
<1>2. CASE StartFlush \/ Flush  BY <1>2, FlushLevels
<1>3. CASE Outside  BY <1>3, OutsideLevels
<1>4. CASE UNCHANGED vars  BY <1>4 DEF vars
<1> QED BY <1>1, <1>2, <1>3, <1>4 DEF Next
-----------------------------------------------------------------------------
(* What code has been answered is what it asked for.                         *)

(* A trace that goes on keeps its past.                                      *)
LEMMA PastStays ==
  ASSUME NEW S, NEW t \in Seq(S), NEW v \in S
  PROVE  LET u == Append(t, v) IN
         /\ u \in Seq(S) /\ Len(t) \in Nat /\ Len(u) = Len(t) + 1 /\ u[Len(t) + 1] = v
         /\ \A i \in 1 .. Len(t) : u[i] = t[i] /\ SubSeq(u, 1, i - 1) = SubSeq(t, 1, i - 1)
         /\ SubSeq(u, 1, Len(t)) = t
<1> DEFINE u == Append(t, v)
<1>1. /\ u \in Seq(S) /\ Len(t) \in Nat /\ Len(u) = Len(t) + 1 /\ u[Len(t) + 1] = v
      /\ \A i \in 1 .. Len(t) : u[i] = t[i]
  OBVIOUS
<1> HIDE DEF u
<1>2. ASSUME NEW n \in 0 .. Len(t) PROVE SubSeq(u, 1, n) = SubSeq(t, 1, n)  BY <1>1, <1>2
<1>3. SubSeq(t, 1, Len(t)) = t  OBVIOUS
<1> QED BY <1>1, <1>2, <1>3 DEF u

LEMMA FollowsOn ==
  ASSUME NEW p, NEW o, NEW t \in Traces, NEW r, Follows(p, o, t, r), NEW v \in Answers,
         Code(p, o, "read", t).op \notin {"return", "throw"}, NEW s, r \subseteq s,
         Code(p, o, "read", t).op = "read" => <<Code(p, o, "read", t).of, v>> \in s
  PROVE  Follows(p, o, Append(t, v), s)
<1> DEFINE u == Append(t, v)
<1>1. t \in Seq(Answers)  BY CodeAssumption
<1>2. /\ Len(t) \in Nat /\ Len(u) = Len(t) + 1 /\ u[Len(t) + 1] = v
      /\ \A i \in 1 .. Len(t) : u[i] = t[i] /\ SubSeq(u, 1, i - 1) = SubSeq(t, 1, i - 1)
      /\ SubSeq(u, 1, Len(t)) = t
  BY <1>1, PastStays
<1> HIDE DEF u
<1> DEFINE N(i) == Code(p, o, "read", SubSeq(u, 1, i - 1))
<1>3. ASSUME NEW i \in 1 .. Len(u)
      PROVE  N(i).op \notin {"return", "throw"} /\ (N(i).op = "read" => <<N(i).of, u[i]>> \in s)
  <2>1. CASE i \in 1 .. Len(t)
    <3>1. N(i) = Code(p, o, "read", SubSeq(t, 1, i - 1)) /\ u[i] = t[i]  BY <1>2, <2>1
    <3> HIDE DEF N
    <3> QED BY <2>1, <3>1 DEF Follows
  <2>2. CASE i = Len(t) + 1
    <3>1. i - 1 = Len(t)  BY <1>2, <2>2
    <3>2. N(i) = Code(p, o, "read", t) /\ u[i] = v  BY <1>2, <2>2, <3>1
    <3> HIDE DEF N
    <3> QED BY <3>2
  <2> QED BY <1>2, <2>1, <2>2
<1> QED BY <1>3 DEF Follows, u

LEMMA TraceGoesOn ==
  ASSUME NEW p \in Pages, NEW f \in Frames, NextOf(p, f).op \notin {"return", "throw"},
         NEW v \in Answers, NEW n \in Nodes \cup {Nobody},
         NextOf(p, f).op = "read" => n = NextOf(p, f).of /\ n # Nobody, TraceOK(p, f)
  PROVE  TraceOK(p, Answered(f, n, v))
<1> DEFINE g == Answered(f, n, v)
<1>1. /\ g.who = f.who /\ g.phase = f.phase /\ g.trace = Append(f.trace, v) /\ g.next = f.next
      /\ g.seen = IF n # Nobody /\ f.phase = "read" THEN f.seen \cup {<<n, v>>} ELSE f.seen
      /\ f.trace \in Traces /\ f.trace \in Seq(Answers)
  BY CodeAssumption DEF Answered, Frames
<1> HIDE DEF g
<1>2. CASE f.phase = "read"
  <2>1. Follows(p, f.who, f.trace, f.seen) /\ NextOf(p, f) = Code(p, f.who, "read", f.trace)
    BY <1>2 DEF TraceOK, NextOf
  <2>2. f.seen \subseteq g.seen /\ (NextOf(p, f).op = "read" => <<NextOf(p, f).of, v>> \in g.seen)
    BY <1>1, <1>2
  <2>3. Follows(p, f.who, Append(f.trace, v), g.seen)  BY <1>1, <2>1, <2>2, FollowsOn
  <2> QED BY <1>1, <1>2, <2>3 DEF TraceOK, g
<1>3. CASE f.phase = "body"
  <2>1. f.trace # <<>> => g.trace # <<>> /\ g.trace[1] = f.trace[1]
    <3> SUFFICES ASSUME f.trace # <<>> PROVE g.trace # <<>> /\ g.trace[1] = f.trace[1]
      OBVIOUS
    <3>1. Len(f.trace) \in Nat /\ 1 \in 1 .. Len(f.trace)  BY <1>1
    <3> QED BY <1>1, <3>1, PastStays
  <2> QED BY <1>1, <1>3, <2>1 DEF TraceOK, g
<1> QED BY <1>2, <1>3 DEF Frames

(* Only the run that ends up on top has been answered.                       *)
LEMMA TopTraces ==
  ASSUME NEW p, NEW F \in Seq(Frames), TracesOK(p, F),
         NEW H \in Seq(Frames), NEW k \in Nat, Len(H) = k, k \in 0 .. Len(F),
         \A i \in 1 .. k - 1 : H[i] = F[i],
         k # 0 => TraceOK(p, H[k]) /\ H[k].who = F[k].who /\ H[k].by = F[k].by
  PROVE  TracesOK(p, H)
<1> SUFFICES ASSUME NEW i \in 1 .. k
             PROVE  /\ TraceOK(p, H[i])
                    /\ i < k /\ H[i + 1].by = "mount" => NextOf(p, H[i]).of = H[i + 1].who
  BY DEF TracesOK
<1>1. Len(F) \in Nat /\ k # 0 /\ i \in 1 .. Len(F)  OBVIOUS
<1>2. CASE i = k  BY <1>1, <1>2
<1>3. CASE i < k
  <2>1. i \in 1 .. k - 1 /\ H[i] = F[i] /\ i < Len(F)  BY <1>1, <1>3
  <2>2. H[i + 1].who = F[i + 1].who /\ H[i + 1].by = F[i + 1].by
    <3>1. i + 1 \in 1 .. k - 1 \/ i + 1 = k  BY <1>1, <1>3
    <3> QED BY <1>1, <3>1
  <2> QED BY <1>1, <2>1, <2>2 DEF TracesOK
<1> QED BY <1>2, <1>3

LEMMA PushTraces ==
  ASSUME NEW p, NEW F \in Seq(Frames), TracesOK(p, F),
         NEW f \in Frames, f.trace = <<>>, f.phase = "read",
         F # <<>> /\ f.by = "mount" => NextOf(p, F[Len(F)]).of = f.who
  PROVE  TracesOK(p, Append(F, f))
<1> DEFINE H == Append(F, f)
           k == Len(F)
<1>1. k \in Nat /\ Len(H) = k + 1 /\ H[k + 1] = f /\ \A i \in 1 .. k : H[i] = F[i]
  OBVIOUS
<1>2. k # 0 => F # <<>>  OBVIOUS
<1>3. TraceOK(p, f)
  <2>1. \A i : i \notin 1 .. Len(<<>>)  OBVIOUS
  <2> QED BY <2>1 DEF TraceOK, Follows
<1> HIDE DEF H
<1> SUFFICES ASSUME NEW i \in 1 .. k + 1
             PROVE  /\ TraceOK(p, H[i])
                    /\ i < k + 1 /\ H[i + 1].by = "mount" => NextOf(p, H[i]).of = H[i + 1].who
  BY <1>1 DEF TracesOK, H
<1>4. CASE i = k + 1  BY <1>1, <1>3, <1>4
<1>5. CASE i = k  BY <1>1, <1>2, <1>5 DEF TracesOK
<1>6. CASE i \in 1 .. k - 1
  <2>1. i \in 1 .. k /\ i + 1 \in 1 .. k /\ i < k  BY <1>1, <1>6
  <2> QED BY <1>1, <2>1 DEF TracesOK
<1> QED BY <1>1, <1>4, <1>5, <1>6

(* What the end of a run gives the run below.                                *)
LEMMA EndGives ==
  ASSUME IInv, Busy, EndComputed \/ EndObserver
  PROVE  LET k == Len(stack) - 1
             f == stack[k]
             g == stack'[k]
         IN /\ stack' \in Seq(Frames) /\ k \in Nat /\ Len(stack') = k /\ Len(stack) = k + 1
            /\ \A i \in 1 .. k - 1 : stack'[i] = stack[i]
            /\ k # 0 =>
                 /\ f \in Frames /\ g \in Frames /\ Awaits(page, f, top)
                 /\ \/ /\ Fails /\ g = [f EXCEPT !.thrown = TRUE]
                       /\ EndComputed \/ (EndObserver /\ top.who \in Doms)
                    \/ /\ EndComputed /\ ~Fails /\ Result \in Answers
                       /\ g = Answered(f, top.who, Result)
                    \/ EndObserver /\ g = Answered(f, Nobody, Nobody)
<1> DEFINE F == below
           k == Len(stack) - 1
           I == stack'
<1>1. /\ F \in Seq(Frames) /\ Len(F) = k /\ k \in Nat /\ Len(stack) = k + 1
      /\ \A i \in 1 .. k : F[i] = stack[i]
      /\ F # <<>> => Awaits(page, F[Len(F)], top)
  <2>1. Len(stack) \in Nat /\ Len(stack) # 0  BY InstructionIs
  <2> QED BY <2>1, BelowIs
<1>2. I \in Seq(Frames) /\ Len(I) = k  BY <1>1, EndsAbove DEF Alike
<1>3. page \in Pages /\ (top.who \in Computeds => top.who \in Nodes) /\ Nobody \in Answers
  BY DEF IInv, RestOK, Nodes, Answers
<1>4. Fails \/ Result \in Answers
  BY InstructionIs DEF EndComputed, EndObserver, Ends, Fails, Result
<1>5. CASE k = 0
  <2> HIDE DEF k
  <2>1. \A i \in 1 .. k - 1 : FALSE  BY <1>5
  <2> QED BY <1>1, <1>2, <1>5, <2>1 DEF k
<1>6. CASE k # 0
  <2>1. F # <<>> /\ k \in 1 .. k /\ F[k] = stack[k] /\ F[k] \in Frames /\ Awaits(page, F[k], top)
    <3> HIDE DEF F, k
    <3>1. F # <<>> /\ k \in 1 .. k  BY <1>1, <1>6
    <3> QED BY <1>1, <3>1
  <2>2. top.by # "run" /\ NextOf(page, F[k]).op \notin {"return", "throw"}
    BY <2>1 DEF Awaits
  <2>3. \/ Fails /\ I = Throws(F) /\ (EndComputed \/ (EndObserver /\ top.who \in Doms))
        \/ EndComputed /\ ~Fails /\ I = [F EXCEPT ![k] = Answered(@, top.who, Result)]
        \/ EndObserver /\ I = [F EXCEPT ![k] = Answered(@, Nobody, Nobody)]
    BY <1>1, <2>1, <2>2 DEF EndComputed, EndObserver, Return, ReturnFailed
  <2>4. ASSUME NEW n \in Nodes \cup {Nobody}, NEW v \in Answers,
               I = [F EXCEPT ![k] = Answered(@, n, v)]
        PROVE  I[k] = Answered(F[k], n, v) /\ \A i \in 1 .. k - 1 : I[i] = stack[i]
    <3> DEFINE a == Answered(F[k], n, v)
    <3> HIDE DEF F, k, I
    <3>1. a \in Frames  BY <1>3, <2>1, <2>2, AnsweredIs
    <3>2. I = [F EXCEPT ![k] = a]  BY <2>4
    <3> HIDE DEF a
    <3>3. I[k] = a /\ \A i \in 1 .. k - 1 : I[i] = F[i]  BY <1>1, <2>1, <3>1, <3>2, TopSet
    <3>4. \A i \in 1 .. k - 1 : i \in 1 .. k  BY <1>1
    <3> QED BY <1>1, <3>3, <3>4 DEF a
  <2>5. CASE Fails /\ I = Throws(F) /\ (EndComputed \/ (EndObserver /\ top.who \in Doms))
    <3>1. I[k] = [F[k] EXCEPT !.thrown = TRUE] /\ \A i \in 1 .. k - 1 : I[i] = F[i]
      BY <1>1, <2>1, <2>5, ThrownIs
    <3>2. \A i \in 1 .. k - 1 : i \in 1 .. k  BY <1>1
    <3>3. I[k] \in Frames  BY <1>2, <2>1
    <3> HIDE DEF F, k, I
    <3> QED BY <1>1, <1>2, <2>1, <2>5, <3>1, <3>2, <3>3 DEF k, I
  <2>6. CASE EndComputed /\ ~Fails /\ I = [F EXCEPT ![k] = Answered(@, top.who, Result)]
    <3>1. top.who \in Nodes \cup {Nobody} /\ Result \in Answers
      BY <1>3, <1>4, <2>6 DEF EndComputed
    <3>2. I[k] = Answered(F[k], top.who, Result) /\ \A i \in 1 .. k - 1 : I[i] = stack[i]
      BY <2>4, <2>6, <3>1
    <3>3. I[k] \in Frames  BY <1>2, <2>1
    <3> HIDE DEF F, k, I
    <3> QED BY <1>1, <1>2, <2>1, <2>6, <3>1, <3>2, <3>3 DEF k, I
  <2>7. CASE EndObserver /\ I = [F EXCEPT ![k] = Answered(@, Nobody, Nobody)]
    <3>1. I[k] = Answered(F[k], Nobody, Nobody) /\ \A i \in 1 .. k - 1 : I[i] = stack[i]
      BY <1>3, <2>4, <2>7
    <3>2. I[k] \in Frames  BY <1>2, <2>1
    <3> HIDE DEF F, k, I
    <3> QED BY <1>1, <1>2, <2>1, <2>7, <3>1, <3>2 DEF k, I
  <2> QED BY <2>3, <2>5, <2>6, <2>7
<1> QED BY <1>5, <1>6

(* A frame that is to throw has the answers it had.                          *)
LEMMA ThrowsTrace ==
  ASSUME NEW p, NEW f \in Frames, TraceOK(p, f)
  PROVE  LET g == [f EXCEPT !.thrown = TRUE] IN
         TraceOK(p, g) /\ g.who = f.who /\ g.by = f.by /\ NextOf(p, g) = NextOf(p, f)
<1> DEFINE g == [f EXCEPT !.thrown = TRUE]
<1>1. /\ g.who = f.who /\ g.by = f.by /\ g.phase = f.phase /\ g.trace = f.trace
      /\ g.seen = f.seen /\ g.next = f.next
  BY DEF Frames
<1> HIDE DEF g
<1>2. TraceOK(p, g) /\ NextOf(p, g) = NextOf(p, f)  BY <1>1 DEF TraceOK, NextOf
<1> QED BY <1>1, <1>2 DEF g

LEMMA ContinueTraces ==
  ASSUME IInv, TracesOK(page, stack), Busy, Instruction.op \notin {"return", "throw"},
         NEW v \in Answers, NEW n \in Nodes \cup {Nobody}, Continue(n, v),
         Instruction.op = "read" => n = Instruction.of
  PROVE  TracesOK(page, stack')
<1> DEFINE a == Answered(top, n, v)
           k == Len(stack)
<1>1. /\ stack \in Seq(Frames) /\ stack # <<>> /\ page \in Pages /\ top \in Frames
      /\ k \in Nat /\ k # 0 /\ top = stack[k] /\ NextOf(page, top).op \notin {"return", "throw"}
      /\ Instruction = NextOf(page, top)
      /\ Instruction.op = "read" => n # Nobody
  BY InstructionIs, NamesAssumption DEF IInv, StackOK, Busy, RestOK, top
<1>2. a \in Frames /\ a.who = top.who /\ a.by = top.by  BY <1>1, AnsweredIs
<1>3. TraceOK(page, top)  BY <1>1 DEF TracesOK
<1>4. TraceOK(page, a)  BY <1>1, <1>3, TraceGoesOn
<1>5. below \in Seq(Frames) /\ Len(below) = k - 1 /\ \A i \in 1 .. k - 1 : below[i] = stack[i]
  BY BelowIs
<1>6. stack' = Append(below, a)  BY DEF Continue
<1> HIDE DEF a
<1>7. /\ stack' \in Seq(Frames) /\ Len(stack') = k /\ stack'[k] = a
      /\ \A i \in 1 .. k - 1 : stack'[i] = stack[i]
  BY <1>1, <1>2, <1>5, <1>6, TopAppended
<1>8. k \in 0 .. k  BY <1>1
<1> QED BY <1>1, <1>2, <1>4, <1>7, <1>8, TopTraces

LEMMA EnterIs ==
  ASSUME IInv, Busy, EnterBody
  PROVE  \E g \in Frames :
    /\ g.who = top.who /\ g.by = top.by /\ g.phase = "body" /\ g.trace = <<Result>>
    /\ g.next = Result /\ g.seen = top.seen /\ ~g.thrown
    /\ stack' \in Seq(Frames) /\ Len(stack') = Len(stack) /\ stack'[Len(stack)] = g
    /\ \A i \in 1 .. Len(stack) - 1 : stack'[i] = stack[i]
<1> DEFINE g == [top EXCEPT !.phase = "body", !.trace = <<Result>>, !.next = Result]
<1>1. /\ top \in Frames /\ ~top.thrown /\ Result \in Answers /\ <<Result>> \in Traces
      /\ stack \in Seq(Frames) /\ stack # <<>>
  BY InstructionIs, CodeAssumption DEF EnterBody, Result, IInv, StackOK, Busy
<1>2. /\ g \in Frames /\ g.who = top.who /\ g.by = top.by /\ g.phase = "body"
      /\ g.trace = <<Result>> /\ g.next = Result /\ g.seen = top.seen /\ ~g.thrown
  BY <1>1 DEF Frames
<1>3. stack' = Append(below, g)  BY DEF EnterBody
<1> HIDE DEF g
<1>4. /\ stack' \in Seq(Frames) /\ Len(stack') = Len(stack) /\ stack'[Len(stack)] = g
      /\ \A i \in 1 .. Len(stack) - 1 : stack'[i] = stack[i]
  BY <1>1, <1>2, <1>3, BelowIs, TopAppended
<1> QED BY <1>2, <1>4

LEMMA StackSteps ==
  ASSUME KnowsInv, Settling, NoCircle(page), [Next]_vars, ~EndComputed, ~EndObserver
  PROVE  \/ UNCHANGED vars \/ (~Busy /\ stack' = stack)
         \/ Answering \/ Failing \/ (Busy /\ EnterBody)
         \/ \E o \in Observers, by \in {"run", "access", "mount"} : Starting(o, by)
<1>1. IInv /\ Nobody \in Answers /\ (~Busy => stack = <<>> /\ \A f : Append(stack, f) = <<f>>)
  BY EmptyStack DEF KnowsInv, FreshInv, Answers
<1>2. CASE Step
  <2>1. Busy  BY <1>2 DEF Step
  <2>2. CASE ReadCell
    <3>1. Instruction.op = "read" /\ Instruction.of \in Nodes /\ val[Instruction.of] \in Answers
      BY <1>1, <2>2 DEF ReadCell, Nodes, IInv, RestOK, Answers
    <3> QED BY <2>1, <2>2, <3>1 DEF ReadCell, Answering
  <2>3. CASE ReadFresh
    <3>1. Instruction.op = "read" /\ Instruction.of \in Nodes /\ cache[Instruction.of].value \in Answers
      BY <1>1, <2>3 DEF ReadFresh, Nodes, IInv, RestOK
    <3> QED BY <2>1, <2>3, <3>1 DEF ReadFresh, Answering, Failing
  <2>4. CASE ReadDirty  BY <2>4 DEF ReadDirty, Observers, Starting
  <2>5. CASE ReadRecursive
    <3>1. Instruction.op = "read" /\ Instruction.of \in Computeds /\ Instruction.of \in Running(stack)
      BY <2>5 DEF ReadRecursive, OnStack, Running
    <3> QED BY <2>1, <3>1, NotReread
  <2>6. CASE Write \/ Destroy
    <3>1. Instruction.op = "write" => Instruction.to \in Answers
      BY <1>1, <2>1, InstructionIs DEF Answers
    <3> QED BY <1>1, <2>1, <2>6, <3>1 DEF Write, Destroy, Answering
  <2>7. CASE Create
    <3>1. Instruction.op = "mount" /\ Instruction.of \in Observers /\ Instruction = NextOf(page, top)
      BY <1>1, <2>1, <2>7, InstructionIs DEF Create, Observers
    <3> QED BY <1>1, <2>1, <2>7, <3>1 DEF Create, Answering, Starting
  <2> QED BY <1>2, <2>1, <2>2, <2>3, <2>4, <2>5, <2>6, <2>7 DEF Step
<1>3. CASE StartFlush \/ Flush
  <2>1. ~Busy /\ (stack' = stack \/ \E o \in graph.queue : StepQueued(o))
    BY <1>3
    DEF StartFlush, Idle, Flush, StepComputed, BeginWatches, StepWatch, EndPass, StepDom, EndDoms, Queued
  <2>2. graph.queue \subseteq Observers  BY <1>1 DEF IInv, GraphOK, Graphs
  <2> QED BY <1>1, <2>1, <2>2 DEF StepQueued, Starting
<1>4. CASE Outside
  BY <1>1, <1>4 DEF Outside, Turn, Peek, Mount, Stop, Idle, Observers, Starting
<1> QED BY <1>2, <1>3, <1>4 DEF Next

LEMMA NextIs ==
  ASSUME NEW p \in Pages, NEW f \in Frames
  PROVE  /\ NextOf(p, f) \in Instructions
         /\ NextOf(p, f).op = "mount" => NextOf(p, f).of \in Doms
         /\ NextOf(p, f).op = "return" =>
              NextOf(p, f) = [op |-> "return", to |-> NextOf(p, f).to] /\ NextOf(p, f).to \in Answers
<1> DEFINE x == NextOf(p, f)
<1>1. x \in Instructions  BY CodeAssumption DEF NextOf, Frames
<1> HIDE DEF x
<1>2. x.op = "mount" => x.of \in Doms  BY <1>1 DEF Instructions
<1>3. x.op = "return" => x = [op |-> "return", to |-> x.to] /\ x.to \in Answers
  BY <1>1 DEF Instructions
<1> QED BY <1>1, <1>2, <1>3 DEF x

LEMMA StartTraces ==
  ASSUME IInv, TracesOK(page, stack), NEW o \in Observers, NEW by \in {"run", "access", "mount"},
         stack' = Append(stack, Run(o, by)),
         Busy /\ by = "mount" => NextOf(page, top).of = o
  PROVE  TracesOK(page, stack')
<1> DEFINE f == Run(o, by)
<1>1. f \in Frames /\ f.who = o /\ f.by = by /\ f.phase = "read"  BY RunIs
<1>2. f.trace = <<>>  BY DEF Run
<1>3. stack \in Seq(Frames)  BY DEF IInv, StackOK
<1> HIDE DEF f
<1>4. stack # <<>> /\ f.by = "mount" => NextOf(page, stack[Len(stack)]).of = f.who
  BY <1>1 DEF Busy, top
<1>5. TracesOK(page, Append(stack, f))  BY <1>1, <1>2, <1>3, <1>4, PushTraces
<1> QED BY <1>5 DEF f

LEMMA TopTraced ==
  ASSUME IInv, Busy, TracesOK(page, stack), NEW g \in Frames, TraceOK(page, g),
         g.who = top.who, g.by = top.by,
         stack' \in Seq(Frames), Len(stack') = Len(stack), stack'[Len(stack)] = g,
         \A i \in 1 .. Len(stack) - 1 : stack'[i] = stack[i]
  PROVE  TracesOK(page, stack')
<1>1. stack \in Seq(Frames) /\ Len(stack) \in Nat /\ Len(stack) \in 0 .. Len(stack) /\ top = stack[Len(stack)]
  <2>1. stack \in Seq(Frames) /\ top = stack[Len(stack)] /\ Len(stack) \in Nat
    BY InstructionIs DEF IInv, StackOK, top
  <2> QED BY <2>1
<1> QED BY <1>1, TopTraces

LEMMA TopTraceOK ==
  ASSUME IInv, Busy, TracesOK(page, stack)
  PROVE  /\ TraceOK(page, top) /\ top \in Frames /\ page \in Pages /\ stack \in Seq(Frames)
         /\ stack # <<>> /\ top = stack[Len(stack)] /\ Len(stack) \in 1 .. Len(stack)
<1>1. /\ stack \in Seq(Frames) /\ stack # <<>> /\ top = stack[Len(stack)] /\ page \in Pages
      /\ Len(stack) \in Nat /\ Len(stack) # 0 /\ top \in Frames
  BY InstructionIs DEF IInv, StackOK, RestOK, top, Busy
<1>2. Len(stack) \in 1 .. Len(stack)  BY <1>1
<1> QED BY <1>1, <1>2 DEF TracesOK

LEMMA FailingTraces ==
  ASSUME IInv, TracesOK(page, stack), Busy, stack' = Throws(stack)
  PROVE  TracesOK(page, stack')
<1> DEFINE g == [top EXCEPT !.thrown = TRUE]
<1>1. /\ TraceOK(page, top) /\ top \in Frames /\ stack \in Seq(Frames) /\ stack # <<>>
      /\ top = stack[Len(stack)] /\ Len(stack) \in 1 .. Len(stack)
  BY TopTraceOK
<1>2. /\ stack' \in Seq(Frames) /\ Len(stack') = Len(stack) /\ stack'[Len(stack)] = g
      /\ \A i \in 1 .. Len(stack) - 1 : stack'[i] = stack[i]
  BY <1>1, ThrownIs
<1>3. g \in Frames  BY <1>1, <1>2
<1>4. TraceOK(page, g) /\ g.who = top.who /\ g.by = top.by  BY <1>1, ThrowsTrace
<1> HIDE DEF g
<1> QED BY <1>2, <1>3, <1>4, TopTraced

LEMMA EnterBodyTraces ==
  ASSUME IInv, Busy, TracesOK(page, stack), EnterBody
  PROVE  TracesOK(page, stack')
<1>1. TraceOK(page, top) /\ top \in Frames /\ page \in Pages /\ top.phase = "read"
  BY TopTraceOK DEF EnterBody
<1>2. Instruction = NextOf(page, top) /\ Instruction.op = "return"
  BY InstructionIs DEF EnterBody
<1>3. Instruction = [op |-> "return", to |-> Result]  BY <1>1, <1>2, NextIs DEF Result
<1>4. <<Result>> # <<>> /\ <<Result>>[1] = Result  OBVIOUS
<1>5. Yielded(page, top.who, Result, top.seen)
  <2>1. Follows(page, top.who, top.trace, top.seen) /\ top.trace \in Traces
    BY <1>1 DEF TraceOK, Frames
  <2>2. Code(page, top.who, "read", top.trace) = [op |-> "return", to |-> Result]
    BY <1>1, <1>2, <1>3 DEF NextOf
  <2> QED BY <2>1, <2>2 DEF Yielded
<1>6. PICK g \in Frames :
        /\ g.who = top.who /\ g.by = top.by /\ g.phase = "body" /\ g.trace = <<Result>>
        /\ g.next = Result /\ g.seen = top.seen
        /\ stack' \in Seq(Frames) /\ Len(stack') = Len(stack) /\ stack'[Len(stack)] = g
        /\ \A i \in 1 .. Len(stack) - 1 : stack'[i] = stack[i]
  BY EnterIs
<1>7. TraceOK(page, g)  BY <1>4, <1>5, <1>6 DEF TraceOK
<1> QED BY <1>6, <1>7, TopTraced

(* What the run below waits for is what ends.                                *)
LEMMA AwaitedIs ==
  ASSUME IInv, Busy, TracesOK(page, stack), NEW k \in Nat, k # 0, Len(stack) = k + 1,
         Awaits(page, stack[k], top)
  PROVE  /\ stack[k] \in Frames /\ TraceOK(page, stack[k]) /\ NextOf(page, stack[k]).of = top.who
         /\ NextOf(page, stack[k]).op = IF top.who \in Computeds THEN "read" ELSE "mount"
<1>1. stack \in Seq(Frames) /\ page \in Pages /\ k \in 1 .. Len(stack) /\ k < Len(stack)
      /\ top = stack[k + 1] /\ k + 1 \in 1 .. Len(stack)
  BY DEF IInv, StackOK, RestOK, top
<1>2. stack[k] \in Frames /\ TraceOK(page, stack[k])  BY <1>1 DEF TracesOK
<1>3. CASE top.by = "mount"
  <2>1. NextOf(page, stack[k]).of = top.who /\ NextOf(page, stack[k]).op = "mount"
    BY <1>1, <1>3 DEF TracesOK, Awaits
  <2> QED BY <1>1, <1>2, <2>1, NextIs, NamesAssumption
<1>4. CASE top.by # "mount"  BY <1>2, <1>4 DEF Awaits
<1> QED BY <1>3, <1>4

LEMMA EndTraces ==
  ASSUME IInv, Busy, TracesOK(page, stack), EndComputed \/ EndObserver
  PROVE  TracesOK(page, stack')
<1> DEFINE k == Len(stack) - 1
           f == stack[k]
           g == stack'[k]
<1>1. /\ stack' \in Seq(Frames) /\ k \in Nat /\ Len(stack') = k /\ Len(stack) = k + 1
      /\ \A i \in 1 .. k - 1 : stack'[i] = stack[i]
      /\ k # 0 => Awaits(page, f, top) /\ g \in Frames
  BY EndGives
<1>2. stack \in Seq(Frames) /\ page \in Pages /\ k \in 0 .. Len(stack)
  BY <1>1 DEF IInv, StackOK, RestOK
<1>3. k # 0 => \/ g = [f EXCEPT !.thrown = TRUE]
               \/ EndComputed /\ Result \in Answers /\ g = Answered(f, top.who, Result)
               \/ EndObserver /\ g = Answered(f, Nobody, Nobody)
  BY EndGives
<1> HIDE DEF k
<1>4. ASSUME k # 0 PROVE TraceOK(page, g) /\ g.who = f.who /\ g.by = f.by
  <2>1. /\ f \in Frames /\ TraceOK(page, f) /\ NextOf(page, f).of = top.who
        /\ NextOf(page, f).op = IF top.who \in Computeds THEN "read" ELSE "mount"
    BY <1>1, <1>4, AwaitedIs
  <2>2. CASE g = [f EXCEPT !.thrown = TRUE]  BY <2>1, <2>2, ThrowsTrace
  <2>3. CASE EndComputed /\ Result \in Answers /\ g = Answered(f, top.who, Result)
    <3>1. top.who \in Nodes /\ top.who # Nobody /\ Result \in Answers
      BY <2>3, NamesAssumption DEF EndComputed, Nodes
    <3> HIDE DEF f
    <3>2. /\ NextOf(page, f).op \notin {"return", "throw"} /\ Result \in Answers
          /\ top.who \in Nodes \cup {Nobody}
          /\ NextOf(page, f).op = "read" => top.who = NextOf(page, f).of /\ top.who # Nobody
      BY <2>1, <2>3, <3>1
    <3>3. TraceOK(page, Answered(f, top.who, Result))  BY <1>2, <2>1, <3>2, TraceGoesOn
    <3>4. Answered(f, top.who, Result).who = f.who /\ Answered(f, top.who, Result).by = f.by
      BY <1>2, <2>1, <3>2, AnsweredIs
    <3> QED BY <2>3, <3>3, <3>4
  <2>4. CASE EndObserver /\ g = Answered(f, Nobody, Nobody)
    <3>1. top.who \notin Computeds /\ Nobody \in Answers
      BY <2>4, NamesAssumption DEF EndObserver, Answers
    <3> HIDE DEF f
    <3>2. /\ NextOf(page, f).op \notin {"return", "throw"} /\ Nobody \in Answers
          /\ Nobody \in Nodes \cup {Nobody}
          /\ NextOf(page, f).op = "read" => Nobody = NextOf(page, f).of /\ Nobody # Nobody
      BY <2>1, <2>4, <3>1
    <3>3. TraceOK(page, Answered(f, Nobody, Nobody))  BY <1>2, <2>1, <3>2, TraceGoesOn
    <3>4. Answered(f, Nobody, Nobody).who = f.who /\ Answered(f, Nobody, Nobody).by = f.by
      BY <1>2, <2>1, <3>2, AnsweredIs
    <3> QED BY <2>4, <3>3, <3>4
  <2> QED BY <1>3, <1>4, <2>2, <2>3, <2>4
<1> QED BY <1>1, <1>2, <1>4, TopTraces

LEMMA StaysTraced ==
  ASSUME KnowsInv, Settling, NoCircle(page), TracesOK(page, stack), [Next]_vars
  PROVE  TracesOK(page, stack')
<1>1. IInv  BY DEF KnowsInv, FreshInv
<1>2. CASE EndComputed \/ EndObserver
  BY <1>1, <1>2, EndTraces DEF EndComputed, EndObserver
<1>3. CASE Answering  BY <1>1, <1>3, ContinueTraces DEF Answering
<1>4. CASE Failing  BY <1>1, <1>4, FailingTraces DEF Failing
<1>5. CASE Busy /\ EnterBody  BY <1>1, <1>5, EnterBodyTraces
<1>6. ASSUME NEW o \in Observers, NEW by \in {"run", "access", "mount"}, Starting(o, by)
      PROVE  TracesOK(page, stack')
  BY <1>1, <1>6, StartTraces DEF Starting
<1>7. CASE UNCHANGED vars \/ (~Busy /\ stack' = stack)  BY <1>7 DEF vars
<1> QED BY <1>2, <1>3, <1>4, <1>5, <1>6, <1>7, StackSteps
-----------------------------------------------------------------------------
(* Who is not running, and not to run, loses no subscription.                *)

LEMMA ErosionSpares ==
  ASSUME NEW G, NEW H, NEW D, Erodes(G, H, D), D \subseteq Computeds \cap H.dirty,
         G.queue \subseteq H.queue, NEW R
  PROVE  Spares(G, H, R, {})
BY DEF Erodes, Spares

LEMMA AssignSpares ==
  ASSUME IInv, NEW s \in Cells, NEW v \in Values, Assign(s, v), NEW R
  PROVE  Spares(graph, graph', R, {})
<1> DEFINE O == graph.subs[s]
           H == Tell(graph, O, OnStack)
           D == Dirtied(graph, O, OnStack)
<1>1. /\ graph \in Graphs /\ O \in SUBSET Observers /\ BothSides(graph, Unconfirmed(stack))
      /\ UnreadLetGo(graph, Running(stack)) /\ StoppedLetGo(graph)
  BY DEF IInv, GraphOK, Graphs, Nodes
<1> HIDE DEF O
<1>2. Erodes(graph, H, D) /\ D \subseteq H.dirty  BY <1>1, TellKeeps
<1>3. D \subseteq Computeds  BY DirtiedIs
<1>4. graph.queue \subseteq H.queue  BY <1>1, TellQueues
<1> HIDE DEF D, H
<1>5. Spares(graph, H, R, {})  BY <1>2, <1>3, <1>4, ErosionSpares
<1>6. graph' = graph \/ graph' = H  BY DEF Assign, H, O
<1> QED BY <1>5, <1>6 DEF Spares

LEMMA StopSpares ==
  ASSUME IInv, NEW S \in SUBSET Observers, graph' = StopAll(graph, S), NEW R
  PROVE  Spares(graph, graph', R, {})
<1>1. /\ graph \in Graphs /\ BothSides(graph, Unconfirmed(stack))
      /\ UnreadLetGo(graph, Running(stack)) /\ StoppedLetGo(graph)
  BY DEF IInv, GraphOK
<1>2. Erodes(graph, graph', {}) /\ graph'.queue = graph.queue  BY <1>1, StopAllKeeps
<1> QED BY <1>2, ErosionSpares

LEMMA TrackSpares ==
  ASSUME IInv, NEW n \in Nodes, NEW R
  PROVE  /\ Spares(graph, Track(graph, n), R, {})
         /\ \A x \in Observers : graph.deps[x] \subseteq Track(graph, n).deps[x]
         /\ Track(graph, n) \in Graphs
<1>1. graph \in Graphs  BY DEF IInv, GraphOK
<1>2. \A x \in Observers : graph.deps[x] \subseteq Track(graph, n).deps[x]
  <2> DEFINE K == Track(graph, n)
  <2>1. \/ K = graph
        \/ /\ Active \in Observers
           /\ K.deps = [graph.deps EXCEPT ![Active] = @ \cup {n}]
    BY <1>1, TrackIs
  <2>2. graph.deps \in [Observers -> SUBSET Nodes]  BY <1>1 DEF Graphs
  <2> HIDE DEF K
  <2>3. ASSUME NEW a \in Observers, K.deps = [graph.deps EXCEPT ![a] = @ \cup {n}], NEW x \in Observers
        PROVE  graph.deps[x] \subseteq K.deps[x]
    BY <2>2, <2>3
  <2>4. \A x \in Observers : graph.deps[x] \subseteq K.deps[x]  BY <2>1, <2>3
  <2> QED BY <2>4 DEF K
<1>3. /\ Track(graph, n).stopped = graph.stopped /\ Track(graph, n).dirty = graph.dirty
      /\ Track(graph, n).queue = graph.queue /\ Track(graph, n) \in Graphs
  BY <1>1, TrackIs
<1> QED BY <1>2, <1>3 DEF Spares

LEMMA AnewSpares ==
  ASSUME NEW G \in Graphs, NEW H \in Graphs, Spares(G, H, {}, {}), NEW o \in Observers, NEW R,
         o \in R \/ (o \in Computeds /\ o \in H.dirty)
  PROVE  Spares(G, Anew(H, o), R, {})
<1>1. /\ Anew(H, o).stopped = H.stopped /\ Anew(H, o).dirty = H.dirty
      /\ Anew(H, o).queue = H.queue /\ \A x \in Observers \ {o} : Anew(H, o).deps[x] = H.deps[x]
  BY DEF Anew, Graphs
<1> QED BY <1>1 DEF Spares

LEMMA SameSpares ==
  ASSUME NEW G, NEW H, H.stopped = G.stopped, H.dirty = G.dirty, H.deps = G.deps, NEW R,
         G.queue \subseteq H.queue \cup R \cup H.stopped \cup Computeds
  PROVE  Spares(G, H, R, {})
BY DEF Spares

LEMMA AppendRuns ==
  ASSUME NEW F \in Seq(Frames), NEW f \in Frames
  PROVE  Running(Append(F, f)) = Running(F) \cup {f.who}
<1> DEFINE H == Append(F, f)
           k == Len(F)
<1>1. /\ k \in Nat /\ DOMAIN H = 1 .. k + 1 /\ DOMAIN F = 1 .. k /\ H[k + 1] = f
      /\ \A i \in 1 .. k : H[i] = F[i]
  OBVIOUS
<1> HIDE DEF H
<1>2. \A i \in 1 .. k + 1 : i \in 1 .. k \/ i = k + 1  BY <1>1
<1>3. \A i \in 1 .. k : i \in 1 .. k + 1  BY <1>1
<1>4. k + 1 \in 1 .. k + 1  BY <1>1
<1> QED BY <1>1, <1>2, <1>3, <1>4 DEF Running, H

LEMMA StartRuns ==
  ASSUME IInv, NEW o \in Observers, NEW by \in {"run", "access", "mount"},
         stack' = Append(stack, Run(o, by))
  PROVE  Running(stack') = Running(stack) \cup {o}
<1>1. Run(o, by) \in Frames /\ Run(o, by).who = o /\ stack \in Seq(Frames)
  BY RunIs DEF IInv, StackOK
<1> QED BY <1>1, AppendRuns

LEMMA StepOnward ==
  ASSUME KnowsInv, Settling, NoCircle(page), Step, ~EndComputed, ~EndObserver
  PROVE  Onward
<1>1. IInv /\ graph \in Graphs /\ Busy  BY DEF KnowsInv, FreshInv, IInv, GraphOK, Step
<1>2. ASSUME ReadCell \/ ReadFresh \/ Write \/ Destroy \/ EnterBody
      PROVE  Running(stack') = Running(stack)
  BY <1>1, <1>2, GoesOn, AlikeStack DEF IInv
<1>3. CASE ReadCell \/ ReadFresh
  <2>1. Instruction.of \in Nodes /\ graph' = Track(graph, Instruction.of)
    BY <1>3 DEF ReadCell, ReadFresh, Nodes
  <2> QED BY <1>1, <1>2, <1>3, <2>1, TrackSpares DEF Onward, ReadCell, ReadFresh
<1>4. CASE ReadDirty
  <2> DEFINE c == Instruction.of
             G == Track(graph, c)
  <2>1. /\ c \in Nodes /\ c \in Computeds /\ c \in Observers /\ graph' = Anew(G, c)
        /\ c \in graph.dirty /\ stack' = Append(stack, Run(c, "access"))
    BY <1>4 DEF ReadDirty, Nodes, Observers, Fresh
  <2>2. Running(stack') = Running(stack) \cup {c}  BY <1>1, <2>1, StartRuns
  <2> HIDE DEF c
  <2>3. G \in Graphs /\ Spares(graph, G, {}, {})  BY <1>1, <2>1, TrackSpares
  <2>4. Spares(graph, graph', Running(stack'), {})
    <3> HIDE DEF G
    <3> QED BY <1>1, <2>1, <2>2, <2>3, AnewSpares
  <2> QED BY <1>4, <2>2, <2>4 DEF Onward, ReadDirty
<1>5. CASE ReadRecursive
  <2>1. Instruction.op = "read" /\ Instruction.of \in Computeds /\ Instruction.of \in Running(stack)
    BY <1>5 DEF ReadRecursive, OnStack, Running
  <2> QED BY <1>1, <2>1, NotReread
<1>6. CASE Write
  <2>1. Instruction.of \in Cells /\ Instruction.to \in Values
    BY <1>1, <1>6, InstructionIs DEF Write
  <2> QED BY <1>1, <1>2, <1>6, <2>1, AssignSpares DEF Write, Onward
<1>7. CASE Create
  <2>1. Running(stack) \subseteq Running(stack') /\ mounted' \subseteq mounted \cup Running(stack')
    <3>1. CASE Instruction.of \in mounted
      <4>1. Alike(stack, stack')  BY <1>1, <1>7, <3>1, ContinueAlike DEF Create, Answers
      <4> QED BY <1>1, <1>7, <3>1, <4>1, AlikeStack DEF Create, IInv
    <3>2. CASE Instruction.of \notin mounted
      BY <1>1, <1>7, <3>2, StartRuns, InstructionIs DEF Create, Observers
    <3> QED BY <3>1, <3>2
  <2> QED BY <1>7, <2>1, SameSpares DEF Onward, Create
<1>8. CASE Destroy
  <2>1. {Instruction.of} \cap mounted \in SUBSET Observers
    BY <1>1 DEF IInv, RestOK, Observers
  <2> QED BY <1>1, <1>2, <1>8, <2>1, StopSpares DEF Destroy, Onward
<1>9. CASE EnterBody  BY <1>2, <1>9, SameSpares DEF Onward, EnterBody
<1> QED BY <1>3, <1>4, <1>5, <1>6, <1>7, <1>8, <1>9 DEF Step

LEMMA QueuedOnward ==
  ASSUME IInv, ~Busy, NEW o \in graph.queue, StepQueued(o), UNCHANGED <<mounted, cache, used, shown>>
  PROVE  Onward
<1> DEFINE G == [graph EXCEPT !.queue = @ \ {o}]
<1>1. /\ graph \in Graphs /\ Running(stack) = {} /\ o \in Observers
      /\ Append(stack, Run(o, "run")) = <<Run(o, "run")>>
  BY EmptyStack DEF IInv, GraphOK, Graphs
<1>2. /\ G.deps = graph.deps /\ G.dirty = graph.dirty /\ G.stopped = graph.stopped
      /\ G.queue = graph.queue \ {o}
  BY <1>1 DEF Graphs
<1>3. /\ graph' = IF Owes(o) THEN Anew(G, o) ELSE G
      /\ stack' = IF Owes(o) THEN <<Run(o, "run")>> ELSE <<>>
  BY DEF StepQueued
<1>4. /\ Anew(G, o).dirty = graph.dirty /\ Anew(G, o).stopped = graph.stopped
      /\ Anew(G, o).queue = graph.queue \ {o}
      /\ \A x \in Observers \ {o} : Anew(G, o).deps[x] = graph.deps[x]
  BY <1>1, <1>2 DEF Anew, Graphs
<1> HIDE DEF G
<1>5. CASE Owes(o)
  <2>1. Running(stack') = {o}  BY <1>1, <1>3, <1>5, StartRuns
  <2>2. Spares(graph, graph', {o}, {})  BY <1>3, <1>4, <1>5 DEF Spares
  <2> QED BY <1>1, <2>1, <2>2 DEF Onward
<1>6. CASE ~Owes(o)
  <2>1. o \in graph.stopped \cup Computeds  BY <1>6 DEF Owes
  <2> QED BY <1>1, <1>2, <1>3, <1>6, <2>1, SameSpares DEF Onward
<1> QED BY <1>5, <1>6

LEMMA OutsideOnward ==
  ASSUME IInv, Outside
  PROVE  Onward
<1>1. ~Busy /\ graph \in Graphs /\ Running(stack) = {} /\ \A f : Append(stack, f) = <<f>>
  BY EmptyStack DEF IInv, GraphOK, Outside, Turn, Peek, Mount, Stop, Idle
<1>2. ASSUME NEW s \in Cells, NEW v \in Values, Turn(s, v) PROVE Onward
  BY <1>1, <1>2, AssignSpares DEF Turn, Onward
<1>3. ASSUME NEW c \in Computeds, Peek(c) PROVE Onward
  <2>1. c \in Observers /\ c \in graph.dirty /\ graph' = Anew(graph, c) /\ Spares(graph, graph, {}, {})
    BY <1>3, SameSpares DEF Peek, Observers, Fresh
  <2>2. Spares(graph, graph', Running(stack'), {})  BY <1>1, <1>3, <2>1, AnewSpares
  <2> QED BY <1>1, <1>3, <2>2 DEF Peek, Onward
<1>4. ASSUME NEW o \in Watches \cup Doms, Mount(o) PROVE Onward
  <2>1. Running(stack') = {o} /\ graph' = graph
    BY <1>1, <1>4, StartRuns DEF Mount, Observers
  <2> QED BY <1>1, <1>4, <2>1, SameSpares DEF Mount, Onward
<1>5. ASSUME NEW o \in Watches \cup Doms, Stop(o) PROVE Onward
  <2>1. {o} \in SUBSET Observers /\ graph' = StopAll(graph, {o})
    BY <1>5 DEF Stop, Observers
  <2> QED BY <1>1, <1>5, <2>1, StopSpares DEF Stop, Onward
<1> QED BY <1>2, <1>3, <1>4, <1>5 DEF Outside

LEMMA AllOnward ==
  ASSUME KnowsInv, Settling, NoCircle(page), [Next]_vars, ~EndComputed, ~EndObserver
  PROVE  Onward
<1>1. IInv  BY DEF KnowsInv, FreshInv
<1>2. CASE Step  BY <1>2, StepOnward
<1>3. CASE Outside  BY <1>1, <1>3, OutsideOnward
<1>4. CASE UNCHANGED <<graph, stack, mounted, cache, used, shown>>
  BY <1>4, SameSpares DEF Onward
<1>5. CASE StartFlush
  <2>1. /\ graph'.deps = graph.deps /\ graph'.dirty = graph.dirty /\ graph'.queue = graph.queue
        /\ graph'.stopped = graph.stopped
    BY <1>1, <1>5 DEF IInv, GraphOK, StartFlush, Graphs
  <2> QED BY <1>5, <2>1, SameSpares DEF StartFlush, Onward
<1>6. CASE Flush
  <2>1. \/ UNCHANGED <<graph, stack, mounted, cache, used, shown>>
        \/ /\ ~Busy /\ UNCHANGED <<mounted, cache, used, shown>>
           /\ \E o \in graph.queue : StepQueued(o)
    BY <1>6 DEF Flush, StepComputed, BeginWatches, StepWatch, EndPass, StepDom, EndDoms, Queued
  <2> QED BY <1>1, <1>4, <2>1, QueuedOnward
<1>7. CASE UNCHANGED vars  BY <1>4, <1>7 DEF vars
<1> QED BY <1>2, <1>3, <1>5, <1>6, <1>7 DEF Next
-----------------------------------------------------------------------------
(* What fails may fail.                                                      *)

LEMMA FallibleCloses ==
  ASSUME NEW p \in Pages, NEW o \in Observers, NEW t \in Traces,
         MayFail(Code(p, o, "read", t), Fallible[p])
  PROVE  o \in Fallible[p]
<1> DEFINE Closed(X) == \A x \in Observers, u \in Traces :
             MayFail(Code(p, x, "read", u), X) => x \in X
<1>1. Fallible[p] = {x \in Observers : \A X \in SUBSET Observers : Closed(X) => x \in X}
  BY DEF Fallible
<1>2. ASSUME NEW X \in SUBSET Observers, Closed(X) PROVE o \in X
  <2>1. Fallible[p] \subseteq X  BY <1>1, <1>2
  <2>2. MayFail(Code(p, o, "read", t), X)  BY <2>1 DEF MayFail
  <2> QED BY <1>2, <2>2
<1> HIDE DEF Closed
<1> QED BY <1>1, <1>2

LEMMA FailsFor ==
  ASSUME IInv, Busy, ThrownOK(page, stack, graph, cache), Fails
  PROVE  /\ MayFail(NextOf(page, top), Fallible[page])
         /\ top.phase = "read" /\ ~Lost(top.who, graph) =>
              Reason(page, top.who, NextOf(page, top), graph, cache)
         /\ top.phase = "read" => top.who \in Fallible[page]
<1>1. top \in Frames /\ page \in Pages  BY InstructionIs DEF IInv, RestOK
<1>2. /\ MayFail(NextOf(page, top), Fallible[page])
      /\ top.phase = "read" /\ ~Lost(top.who, graph) =>
           Reason(page, top.who, NextOf(page, top), graph, cache)
  <2>1. CASE top.thrown  BY <2>1 DEF ThrownOK, top, Busy
  <2>2. CASE ~top.thrown
    <3>1. NextOf(page, top).op = "throw"  BY <2>2 DEF Fails, Instruction, NextOf
    <3> QED BY <3>1 DEF MayFail, Reason
  <2> QED BY <2>1, <2>2
<1>3. top.phase = "read" => top.who \in Fallible[page]
  BY <1>1, <1>2, FallibleCloses DEF NextOf, Frames
<1> QED BY <1>2, <1>3

LEMMA StaysFallible ==
  ASSUME KnowsInv, Settling, NoCircle(page), [Next]_vars,
         ThrownOK(page, stack, graph, cache), FailuresOK(page, cache)
  PROVE  FailuresOK(page, cache')
<1>1. IInv /\ DerivingOK(stack, graph) /\ cache \in [Computeds -> [has : BOOLEAN, failed : BOOLEAN, value : Answers]]
  BY DEF KnowsInv, FreshInv, IInv, RestOK
<1>2. CASE EndComputed
  <2> DEFINE c == top.who
  <2>1. Busy /\ c \in Computeds  BY <1>2 DEF EndComputed
  <2>2. top.phase = "read"
    <3>1. stack \in Seq(Frames) /\ top = stack[Len(stack)] /\ Len(stack) \in 1 .. Len(stack)
      BY <1>1, <2>1, TopRuns DEF IInv, StackOK, top
    <3> QED BY <1>1, <2>1, <3>1 DEF DerivingOK
  <2>3. cache'[c].failed = Fails /\ \A x \in Computeds \ {c} : cache'[x] = cache[x]
    <3> HIDE DEF c
    <3> QED BY <1>1, <1>2, <2>1 DEF EndComputed, c
  <2>4. Fails => c \in Fallible[page]  BY <1>1, <2>1, <2>2, FailsFor
  <2> HIDE DEF c
  <2> QED BY <2>3, <2>4 DEF FailuresOK
<1>3. CASE EndObserver  BY <1>3 DEF EndObserver
<1>4. CASE ~EndComputed /\ ~EndObserver  BY <1>4, AllOnward DEF Onward
<1> QED BY <1>2, <1>3, <1>4

LEMMA AppendedTop ==
  ASSUME NEW S, NEW F \in Seq(S), NEW f \in S
  PROVE  Append(F, f)[Len(Append(F, f))] = f
OBVIOUS

LEMMA ContinueThrows ==
  ASSUME IInv, Busy, Instruction.op \notin {"return", "throw"},
         NEW v \in Answers, NEW n \in Nodes \cup {Nobody}, Continue(n, v)
  PROVE  ~stack'[Len(stack')].thrown
<1>1. Len(stack') = Len(stack) /\ ~top.thrown  BY ContinueAlike, InstructionIs DEF Alike
<1> QED BY <1>1, ContinueIs

(* A read that fails subscribes its reader to what failed.                   *)
LEMMA ReadFailing ==
  ASSUME KnowsInv, Settling, NoCircle(page), Busy, ReadFresh, FailuresOK(page, cache),
         stack' = Throws(stack), cache[Instruction.of].failed
  PROVE  ThrownOK(page, stack', graph', cache')
<1> DEFINE c == Instruction.of
           g == [top EXCEPT !.thrown = TRUE]
           x == NextOf(page, top)
<1>1. /\ IInv /\ graph \in Graphs /\ stack \in Seq(Frames) /\ stack # <<>> /\ top \in Frames
      /\ top = stack[Len(stack)]
  BY InstructionIs DEF KnowsInv, FreshInv, IInv, GraphOK, StackOK, Busy, top
<1>2. /\ Instruction.op = "read" /\ c \in Computeds /\ c \in Nodes /\ c # Nobody
      /\ graph' = Track(graph, c) /\ cache' = cache /\ x = Instruction
  BY <1>1, InstructionIs, NamesAssumption DEF ReadFresh, Nodes
<1>3. /\ stack' \in Seq(Frames) /\ Len(stack') = Len(stack) /\ stack'[Len(stack)] = g
  BY <1>1, ThrownIs
<1>4. g.who = top.who /\ g.phase = top.phase /\ NextOf(page, g) = x
  BY <1>1 DEF Frames, NextOf
<1>5. MayFail(x, Fallible[page])  BY <1>2 DEF FailuresOK, MayFail
<1>6. ASSUME top.phase = "read", ~Lost(top.who, graph') PROVE c \in graph'.deps[top.who]
  <2>1. Active = top.who /\ top.who \in Observers  BY <1>1, <1>6 DEF Active, Frames
  <2>2. graph'.stopped = graph.stopped  BY <1>1, <1>2, TrackIs
  <2>3. top.who # c  BY <1>1, <1>2, TopRuns, NotReread
  <2>4. top.who # Nobody  BY <2>1, NamesAssumption
  <2>5. Active \notin {Nobody, c} \cup graph.stopped
    BY <1>6, <2>1, <2>2, <2>3, <2>4 DEF Lost
  <2>6. graph'.deps = [graph.deps EXCEPT ![Active] = @ \cup {c}]
    BY <1>1, <1>2, <2>5 DEF Track, Graphs
  <2>7. graph.deps \in [Observers -> SUBSET Nodes]  BY <1>1 DEF Graphs
  <2> HIDE DEF c
  <2> QED BY <2>1, <2>6, <2>7
<1> HIDE DEF g, x, c
<1>7. Len(stack') = Len(stack) /\ stack'[Len(stack')] = g  BY <1>3
<1>8. ASSUME g.phase = "read", ~Lost(g.who, graph') PROVE Reason(page, g.who, x, graph', cache')
  <2>1. x.op = "read" /\ x.of = c /\ cache'[c].failed  BY <1>2 DEF c
  <2> QED BY <1>2, <1>4, <1>5, <1>6, <1>8, <2>1 DEF Reason
<1> QED BY <1>4, <1>5, <1>7, <1>8 DEF ThrownOK

(* The reader of a computed that fails stays subscribed to it.               *)
LEMMA EndFails ==
  ASSUME KnowsInv, Settling, Descends(graph, RankOf(page)), Levels(stack, graph), NoCircle(page),
         TracesOK(page, stack), FailuresOK(page, cache'), IInv', Busy, EndComputed
  PROVE  ThrownOK(page, stack', graph', cache')
<1> DEFINE k == Len(stack) - 1
           f == stack[k]
           g == stack'[k]
           c == top.who
<1>1. /\ k \in Nat /\ Len(stack') = k /\ Len(stack) = k + 1 /\ stack' \in Seq(Frames)
      /\ k # 0 => f \in Frames /\ Awaits(page, f, top) /\ (g.thrown => Fails /\ g = [f EXCEPT !.thrown = TRUE])
  <2>1. /\ k \in Nat /\ Len(stack') = k /\ Len(stack) = k + 1 /\ stack' \in Seq(Frames)
        /\ k # 0 => f \in Frames /\ Awaits(page, f, top)
    BY EndGives DEF KnowsInv, FreshInv
  <2>2. ASSUME k # 0
        PROVE  \/ Fails /\ g = [f EXCEPT !.thrown = TRUE]
               \/ ~g.thrown
    <3>1. \/ Fails /\ g = [f EXCEPT !.thrown = TRUE]
          \/ Result \in Answers /\ g = Answered(f, top.who, Result)
          \/ g = Answered(f, Nobody, Nobody)
      BY <2>2, EndGives DEF KnowsInv, FreshInv
    <3>2. ~f.thrown /\ f \in Frames  BY <2>1, <2>2 DEF Awaits
    <3>3. \A n, v : Answered(f, n, v).thrown = f.thrown
      <4> HIDE DEF f
      <4> QED BY <3>2 DEF Answered, Frames
    <3> QED BY <3>1, <3>2, <3>3
  <2> QED BY <2>1, <2>2
<1>2. IInv /\ c \in Computeds /\ c \in Observers /\ graph \in Graphs
  BY DEF KnowsInv, FreshInv, IInv, GraphOK, EndComputed, Observers
<1> SUFFICES ASSUME k # 0, g.thrown
             PROVE  /\ MayFail(NextOf(page, g), Fallible[page])
                    /\ g.phase = "read" /\ ~Lost(g.who, graph') => Reason(page, g.who, NextOf(page, g), graph', cache')
  <2>1. stack' # <<>> => k # 0  BY <1>1
  <2> QED BY <1>1, <2>1 DEF ThrownOK
<1>3. f \in Frames /\ Fails /\ g = [f EXCEPT !.thrown = TRUE]  BY <1>1
<1> HIDE DEF k
<1>4. NextOf(page, f).of = c /\ NextOf(page, f).op = "read"  BY <1>1, <1>2, AwaitedIs
<1>5. g.phase = f.phase /\ g.who = f.who /\ NextOf(page, g) = NextOf(page, f) /\ f.who \in Observers
  <2> HIDE DEF f, g
  <2> QED BY <1>3 DEF NextOf, Frames
<1>6. cache'[c].failed
  <2> HIDE DEF c
  <2> QED BY <1>2, <1>3 DEF EndComputed, c, IInv, RestOK
<1>7. MayFail(NextOf(page, f), Fallible[page])
  BY <1>2, <1>4, <1>6 DEF MayFail, FailuresOK
<1>8. ASSUME f.phase = "read", ~Lost(f.who, graph') PROVE c \in graph'.deps[f.who]
  <2>1. Erodes(Undirtied, graph', {c})  BY EndTellsNobody
  <2>2. /\ Undirtied.deps = graph.deps /\ Undirtied.subs = graph.subs
        /\ Undirtied.stopped = graph.stopped
    BY <1>2, EndErodes, EndTellsNobody
  <2>3. f.who \notin graph'.stopped /\ f.who \notin graph.stopped
    BY <1>8, <2>1, <2>2 DEF Lost, Erodes
  <2>4. f.who \in Computeds => graph'.subs[f.who] # {} /\ graph.subs[f.who] # {}
    BY <1>8, <2>1, <2>2 DEF Lost, Erodes, Nodes
  <2>5. /\ k \in 1 .. Len(stack) /\ k < Len(stack) /\ k + 1 \in 1 .. Len(stack) /\ stack[k + 1].who = c
        /\ stack \in Seq(Frames)
    BY <1>1, <1>2 DEF top, IInv, StackOK
  <2>6. c # f.who
    <3>1. Distinct(stack) /\ k \in DOMAIN stack /\ k + 1 \in DOMAIN stack /\ k # k + 1
      BY <1>2, <2>5 DEF IInv, StackOK
    <3> QED BY <2>5, <3>1 DEF Distinct
  <2>7. c \in graph.deps[f.who]
    <3>1. CASE f.who \in Computeds
      <4>1. ~Doomed(f, graph)
        BY <2>3, <2>4, <2>5, <3>1 DEF Doomed, Settling, NoneRecursed
      <4>2. FrameOK(stack, k, graph, val, cache)
        BY <2>5, <3>1, <4>1 DEF KnowsInv, FreshInv, FramesOK
      <4> QED BY <2>5, <4>2 DEF FrameOK
    <3>2. CASE f.who \in Viewers
      <4>1. ViewOK(stack, k, graph, val, cache)  BY <2>3, <2>5, <3>2 DEF KnowsInv, ViewsOK
      <4> QED BY <1>2, <1>8, <2>5, <4>1 DEF ViewOK
    <3> QED BY <1>5, <3>1, <3>2 DEF Observers, Viewers
  <2>8. graph'.deps[f.who] = graph.deps[f.who]
    <3> HIDE DEF f, c
    <3> QED BY <1>5, <2>1, <2>2, <2>3, <2>4, <2>6 DEF Erodes
  <2> QED BY <2>7, <2>8
<1> HIDE DEF f, g, c
<1> QED BY <1>2, <1>4, <1>5, <1>6, <1>7, <1>8 DEF Reason

(* Who created a position that fails may fail.                               *)
LEMMA EndObserverFails ==
  ASSUME KnowsInv, TracesOK(page, stack), ThrownOK(page, stack, graph, cache), Busy, EndObserver
  PROVE  ThrownOK(page, stack', graph', cache')
<1> DEFINE k == Len(stack) - 1
           f == stack[k]
           g == stack'[k]
<1>1. /\ k \in Nat /\ Len(stack') = k /\ Len(stack) = k + 1 /\ stack' \in Seq(Frames) /\ IInv
      /\ top.who \notin Computeds
      /\ k # 0 => f \in Frames /\ Awaits(page, f, top)
  BY EndGives, NamesAssumption DEF KnowsInv, FreshInv, EndObserver
<1> SUFFICES ASSUME k # 0, g.thrown
             PROVE  /\ MayFail(NextOf(page, g), Fallible[page])
                    /\ g.phase = "read" /\ ~Lost(g.who, graph') => Reason(page, g.who, NextOf(page, g), graph', cache')
  <2>1. stack' # <<>> => k # 0  BY <1>1
  <2> QED BY <1>1, <2>1 DEF ThrownOK
<1>2. f \in Frames /\ ~f.thrown  BY <1>1 DEF Awaits
<1>3. Fails /\ g = [f EXCEPT !.thrown = TRUE] /\ top.who \in Doms
  <2>1. \/ Fails /\ g = [f EXCEPT !.thrown = TRUE] /\ (EndComputed \/ top.who \in Doms)
        \/ EndComputed
        \/ g = Answered(f, Nobody, Nobody)
    BY <1>1, EndGives
  <2>2. ~EndComputed  BY <1>1 DEF EndComputed
  <2>3. Answered(f, Nobody, Nobody).thrown = f.thrown
    <3> HIDE DEF f
    <3> QED BY <1>2 DEF Answered, Frames
  <2> QED BY <1>2, <2>1, <2>2, <2>3
<1> HIDE DEF k
<1>4. NextOf(page, f).of = top.who /\ NextOf(page, f).op = "mount"  BY <1>1, AwaitedIs
<1>5. top.phase = "read"
  <2>1. Len(stack) \in 1 .. Len(stack) /\ ShapeOK(stack) /\ top = stack[Len(stack)] /\ top \in Frames
    BY <1>1, InstructionIs DEF KnowsInv, top
  <2>2. top.phase = "body" => top.who \in Watches  BY <2>1 DEF ShapeOK
  <2> QED BY <1>3, <2>1, <2>2, NamesAssumption DEF Frames
<1>6. top.who \in Fallible[page]  BY <1>1, <1>3, <1>5, FailsFor
<1>7. g.phase = f.phase /\ g.who = f.who /\ NextOf(page, g) = NextOf(page, f)
  <2> HIDE DEF f, g
  <2> QED BY <1>2, <1>3 DEF NextOf, Frames
<1> HIDE DEF f, g
<1> QED BY <1>4, <1>6, <1>7 DEF MayFail, Reason

LEMMA StaysThrown ==
  ASSUME KnowsInv, Settling, Descends(graph, RankOf(page)), Levels(stack, graph), NoCircle(page),
         TracesOK(page, stack), ThrownOK(page, stack, graph, cache),
         FailuresOK(page, cache), FailuresOK(page, cache'), IInv', [Next]_vars
  PROVE  ThrownOK(page, stack', graph', cache')
<1>1. IInv /\ stack \in Seq(Frames)  BY DEF KnowsInv, FreshInv, IInv, StackOK
<1>2. ASSUME ~stack'[Len(stack')].thrown PROVE ThrownOK(page, stack', graph', cache')
  BY <1>2 DEF ThrownOK
<1>3. CASE EndComputed  BY <1>3, EndFails DEF EndComputed
<1>4. CASE EndObserver  BY <1>4, EndObserverFails DEF EndObserver
<1>5. CASE UNCHANGED vars \/ (~Busy /\ stack' = stack)
  <2>1. CASE UNCHANGED vars  BY <2>1 DEF vars
  <2>2. CASE ~Busy /\ stack' = stack  BY <1>1, <2>2, EmptyStack DEF ThrownOK
  <2> QED BY <1>5, <2>1, <2>2
<1>6. CASE Answering  BY <1>1, <1>2, <1>6, ContinueThrows DEF Answering
<1>7. CASE Failing  BY <1>7, ReadFailing DEF Failing
<1>8. CASE Busy /\ EnterBody  BY <1>1, <1>2, <1>8, EnterIs
<1>9. ASSUME NEW o \in Observers, NEW by \in {"run", "access", "mount"}, Starting(o, by)
      PROVE  ThrownOK(page, stack', graph', cache')
  BY <1>1, <1>2, <1>9, RunIs, AppendedTop DEF Starting
<1> QED BY <1>3, <1>4, <1>5, <1>6, <1>7, <1>8, <1>9, StackSteps
-----------------------------------------------------------------------------
(* What is held and what is shown is what the code made of what it read.     *)

LEMMA FailedStays ==
  ASSUME NEW p, NEW o, NEW r, NEW G, NEW C, FailedOn(p, o, r, G, C),
         NEW H, NEW D, G.deps[o] \subseteq H.deps[o],
         \A n \in Computeds \cap G.deps[o] : C[n].failed => D[n].failed
  PROVE  FailedOn(p, o, r, H, D)
<1>1. \A next : Reason(p, o, next, G, C) => Reason(p, o, next, H, D)  BY DEF Reason
<1> QED BY <1>1 DEF FailedOn

LEMMA CleanRests ==
  ASSUME KnowsInv'
  PROVE  Running(stack') \cap Computeds \subseteq graph'.dirty
<1>1. stack' \in Seq(Frames) /\ DerivingOK(stack', graph')
  BY DEF KnowsInv, FreshInv, IInv, StackOK
<1> QED BY <1>1 DEF Running, DerivingOK

LEMMA OnwardValues ==
  ASSUME Onward, KnowsInv', ValuesOK(page, graph, cache, used)
  PROVE  ValuesOK(page, graph', cache', used')
<1> SUFFICES ASSUME NEW c \in Computeds \ (graph'.dirty \cup graph'.stopped)
             PROVE  ValueOK(page, c, graph', cache', used')
  BY DEF ValuesOK
<1>1. c \in Observers /\ c \notin Running(stack') /\ cache' = cache /\ used' = used
  BY CleanRests DEF Onward, Observers
<1>2. c \notin graph.dirty \cup graph.stopped /\ graph.deps[c] \subseteq graph'.deps[c]
  BY <1>1 DEF Onward, Spares
<1>3. ValueOK(page, c, graph, cache, used)  BY <1>2 DEF ValuesOK
<1> QED BY <1>1, <1>2, <1>3, FailedStays DEF ValueOK

LEMMA OnwardSights ==
  ASSUME Onward, IInv, SightsOK(page, stack, graph, cache, used, shown, mounted)
  PROVE  SightsOK(page, stack', graph', cache', used', shown', mounted')
<1> SUFFICES ASSUME NEW o \in mounted' \ (Running(stack') \cup graph'.queue \cup graph'.stopped)
             PROVE  SightOK(page, o, graph', cache', used', shown')
  BY DEF SightsOK
<1>1. /\ o \in mounted /\ o \notin Running(stack) /\ cache' = cache /\ used' = used /\ shown' = shown
      /\ o \in Viewers
  BY DEF Onward, IInv, RestOK, Viewers
<1>2. o \notin graph.queue \cup graph.stopped /\ graph.deps[o] \subseteq graph'.deps[o]
  BY <1>1, ViewersAre DEF Onward, Spares
<1>3. SightOK(page, o, graph, cache, used, shown)  BY <1>1, <1>2 DEF SightsOK
<1> QED BY <1>1, <1>2, <1>3, FailedStays DEF SightOK

(* What an evaluation leaves clean has kept what it subscribed to.           *)
LEMMA EndKeepsOwn ==
  ASSUME IInv, IInv', Busy, EndComputed, Erodes(LeftWith, graph', {}),
         top.who \notin graph'.dirty \cup graph'.stopped
  PROVE  graph'.deps[top.who] = graph.deps[top.who] /\ ~Lost(top.who, graph)
<1> DEFINE c == top.who
<1>1. c \in Computeds /\ c \in Observers /\ c \in Nodes
  BY DEF EndComputed, Observers, Nodes
<1>2. /\ c \notin LeftWith.dirty /\ c \notin LeftWith.stopped
      /\ graph'.deps[c] = LeftWith.deps[c]
  BY <1>1 DEF Erodes
<1>3. LeftWith = Cleaned /\ ~LetsGo(Cleaned, c) /\ c \notin graph.stopped
  BY <1>1, <1>2, LeftWithIs
<1>4. Cleaned.subs[c] # {}  BY <1>3 DEF LetsGo
<1>5. Cleaned.deps[c] = graph.deps[c]  BY <1>1, <1>3, <1>4, EndErodes
<1>6. graph.subs[c] # {}
  <2>1. Cleaned.subs = ForgetOld(graph).subs  BY CleanedIs
  <2>2. \A n \in Nodes : ForgetOld(graph).subs[n] \subseteq graph.subs[n]
    BY ForgetIs DEF Erodes
  <2> QED BY <1>1, <1>4, <2>1, <2>2
<1> QED BY <1>1, <1>2, <1>3, <1>5, <1>6 DEF Lost

LEMMA EndComputedValues ==
  ASSUME KnowsInv, Settling, Descends(graph, RankOf(page)), Levels(stack, graph), NoCircle(page),
         TracesOK(page, stack), ThrownOK(page, stack, graph, cache), IInv', Busy, EndComputed,
         ValuesOK(page, graph, cache, used)
  PROVE  ValuesOK(page, graph', cache', used')
<1> DEFINE c == top.who
<1>1. /\ IInv /\ c \in Computeds /\ c \in Observers /\ c \in Running(stack)
      /\ cache \in [Computeds -> [has : BOOLEAN, failed : BOOLEAN, value : Answers]]
      /\ used \in [Observers -> SUBSET (Nodes \X Answers)]
      /\ Running(stack) \cap Computeds \subseteq graph.dirty
  BY TopRuns, RunsDirty DEF KnowsInv, FreshInv, IInv, RestOK, EndComputed, Observers
<1>2. /\ cache' = [cache EXCEPT ![c] = [has |-> TRUE, failed |-> Fails,
                                          value |-> IF Fails THEN @.value ELSE Result]]
      /\ used' = [used EXCEPT ![c] = top.seen] /\ Ends
  BY DEF EndComputed
<1>3. /\ Erodes(LeftWith, graph', {}) /\ Erodes(Undirtied, graph', {c})
      /\ Undirtied.dirty = graph.dirty \ {c} /\ Undirtied.deps = graph.deps
      /\ Undirtied.stopped = graph.stopped
  BY <1>1, EndTellsNobody, EndErodes
<1> SUFFICES ASSUME NEW x \in Computeds \ (graph'.dirty \cup graph'.stopped)
             PROVE  ValueOK(page, x, graph', cache', used')
  BY DEF ValuesOK
<1>4. CASE x # c
  <2>1. /\ x \in Observers /\ x \notin graph.dirty \cup graph.stopped
        /\ graph'.deps[x] = graph.deps[x]
    BY <1>3, <1>4 DEF Erodes, Observers
  <2>2. c \notin graph.deps[x]  BY <1>1, <2>1 DEF Levels
  <2>3. ValueOK(page, x, graph, cache, used)  BY <2>1 DEF ValuesOK
  <2> HIDE DEF c
  <2>4. /\ cache'[x] = cache[x] /\ used'[x] = used[x]
        /\ \A n \in Computeds \ {c} : cache'[n] = cache[n]
    BY <1>1, <1>2, <1>4, <2>1
  <2>5. \A n \in Computeds \cap graph.deps[x] : cache'[n] = cache[n]  BY <2>2, <2>4
  <2>6. CASE cache[x].failed
    <3>1. FailedOn(page, x, used[x], graph, cache)  BY <2>3, <2>6 DEF ValueOK
    <3>2. FailedOn(page, x, used[x], graph', cache')  BY <2>1, <2>5, <3>1, FailedStays
    <3> QED BY <2>4, <2>6, <3>2 DEF ValueOK
  <2>7. CASE ~cache[x].failed  BY <2>3, <2>4, <2>7 DEF ValueOK
  <2> QED BY <2>6, <2>7
<1>5. CASE x = c
  <2>1. graph'.deps[c] = graph.deps[c] /\ ~Lost(c, graph)
    BY <1>1, <1>3, <1>5, EndKeepsOwn
  <2>2. /\ TraceOK(page, top) /\ top \in Frames /\ page \in Pages  BY <1>1, TopTraceOK
  <2>3. top.phase = "read"
    <3>1. Len(stack) \in 1 .. Len(stack) /\ top = stack[Len(stack)]  BY <1>1, TopTraceOK
    <3> QED BY <1>1, <3>1 DEF KnowsInv, FreshInv, DerivingOK
  <2>4. /\ Follows(page, c, top.trace, top.seen) /\ top.trace \in Traces
        /\ NextOf(page, top) = Code(page, c, "read", top.trace)
    BY <2>2, <2>3 DEF TraceOK, Frames, NextOf
  <2>5. CASE Fails
    <3>1. Reason(page, c, NextOf(page, top), graph, cache)
      BY <1>1, <2>1, <2>3, <2>5, FailsFor
    <3>2. c \notin graph.deps[c]
      <4>1. c \in graph.deps[c] => RankOf(page)[c] < RankOf(page)[c]  BY <1>1 DEF Descends
      <4>2. RankOf(page)[c] \in Nat  BY <1>1, RanksAre
      <4> QED BY <4>1, <4>2
    <3> HIDE DEF c
    <3>3. \A n \in Computeds \ {c} : cache'[n] = cache[n]  BY <1>1, <1>2
    <3>4. cache'[c].failed /\ used'[c] = top.seen  BY <1>1, <1>2, <2>5
    <3>5. Reason(page, c, NextOf(page, top), graph', cache')
      BY <2>1, <3>1, <3>2, <3>3 DEF Reason
    <3> QED BY <1>5, <2>4, <3>4, <3>5 DEF ValueOK, FailedOn
  <2>6. CASE ~Fails
    <3>1. Instruction = NextOf(page, top) /\ Instruction.op = "return"
      BY <1>1, <1>2, <2>6, InstructionIs DEF Ends, Fails
    <3>2. NextOf(page, top) = [op |-> "return", to |-> Result]
      BY <2>2, <3>1, NextIs DEF Result
    <3> HIDE DEF c
    <3>3. ~cache'[c].failed /\ cache'[c].value = Result /\ used'[c] = top.seen
      BY <1>1, <1>2, <2>6
    <3> QED BY <1>5, <2>4, <3>2, <3>3 DEF ValueOK, Yielded
  <2> QED BY <2>5, <2>6
<1> QED BY <1>4, <1>5

LEMMA EndComputedSights ==
  ASSUME KnowsInv, Settling, Descends(graph, RankOf(page)), Levels(stack, graph), NoCircle(page),
         IInv', Busy, EndComputed,
         SightsOK(page, stack, graph, cache, used, shown, mounted)
  PROVE  SightsOK(page, stack', graph', cache', used', shown', mounted')
<1> DEFINE c == top.who
<1>1. /\ IInv /\ c \in Computeds /\ c \in Observers /\ c \in Nodes
      /\ cache \in [Computeds -> [has : BOOLEAN, failed : BOOLEAN, value : Answers]]
      /\ used \in [Observers -> SUBSET (Nodes \X Answers)]
  BY DEF KnowsInv, FreshInv, IInv, RestOK, EndComputed, Observers, Nodes
<1>2. /\ cache' = [cache EXCEPT ![c] = [has |-> TRUE, failed |-> Fails,
                                          value |-> IF Fails THEN @.value ELSE Result]]
      /\ used' = [used EXCEPT ![c] = top.seen] /\ shown' = shown /\ mounted' = mounted
  BY DEF EndComputed
<1>3. /\ Erodes(LeftWith, graph', {}) /\ Erodes(Undirtied, graph', {c})
      /\ Undirtied.deps = graph.deps /\ graph.queue \subseteq graph'.queue
      /\ graph.stopped \subseteq graph'.stopped
      /\ \A o \in LeftWith.subs[c] \ (Computeds \cup {top.consumer}) :
           \/ o \in graph'.queue \cup graph'.stopped
           \/ cache'[c].failed = cache[c].failed
  <2>1. Erodes(LeftWith, graph', {}) /\ Erodes(Undirtied, graph', {c})  BY EndTellsNobody
  <2>2. Undirtied.deps = graph.deps /\ Undirtied.stopped = graph.stopped
    BY <1>1, <2>1, EndErodes
  <2>3. /\ graph.queue \subseteq graph'.queue
        /\ \A o \in LeftWith.subs[c] \ (Computeds \cup {top.consumer}) :
             \/ o \in graph'.queue \cup graph'.stopped
             \/ cache'[c].failed = cache[c].failed
    BY <1>1, EndQueues
  <2> QED BY <2>1, <2>2, <2>3 DEF Erodes
<1>4. Running(stack') = Running(stack) \ {c}  BY <1>1, RunningBelow
<1> SUFFICES ASSUME NEW o \in mounted \ (Running(stack') \cup graph'.queue \cup graph'.stopped)
             PROVE  SightOK(page, o, graph', cache', used', shown')
  BY <1>2 DEF SightsOK
<1>5. o \in Viewers /\ o \in Observers /\ o \notin Computeds /\ o # c
  BY <1>1, ViewersAre DEF IInv, RestOK, Viewers
<1>6. o \notin Running(stack) \cup graph.queue \cup graph.stopped  BY <1>3, <1>4, <1>5
<1>7. SightOK(page, o, graph, cache, used, shown)  BY <1>6 DEF SightsOK
<1>8. graph'.deps[o] = graph.deps[o] /\ graph'.deps[o] \subseteq LeftWith.deps[o]
  BY <1>3, <1>5 DEF Erodes
<1>9. c \in graph.deps[o] => cache'[c].failed = cache[c].failed
  <2> SUFFICES ASSUME c \in graph.deps[o] PROVE cache'[c].failed = cache[c].failed
    OBVIOUS
  <2>1. BothSides(LeftWith, Unconfirmed(below))  BY <1>1, LeftWithIs DEF GraphOK
  <2>2. o \in LeftWith.subs[c]  BY <1>1, <1>5, <1>8, <2>1 DEF BothSides
  <2>3. o # top.consumer
    <3> SUFFICES ASSUME o = top.consumer PROVE FALSE  OBVIOUS
    <3>1. /\ ShapeOK(stack) /\ Len(stack) \in DOMAIN stack /\ top = stack[Len(stack)]
          /\ stack \in Seq(Frames)
      BY <1>1, TopRuns DEF KnowsInv, IInv, StackOK, top
    <3>2. o # Nobody  BY <1>5, NamesAssumption
    <3>3. Len(stack) > 1 /\ stack[Len(stack) - 1].who = o  BY <3>1, <3>2 DEF ShapeOK
    <3>4. Len(stack) - 1 \in DOMAIN stack  BY <3>1, <3>3
    <3> QED BY <1>6, <3>3, <3>4 DEF Running
  <2> QED BY <1>3, <1>5, <2>2, <2>3
<1> HIDE DEF c
<1>10. /\ used'[o] = used[o]
       /\ \A n \in Computeds \ {c} : cache'[n] = cache[n]
  BY <1>1, <1>2, <1>5
<1>11. \A n \in Computeds \cap graph.deps[o] : cache[n].failed => cache'[n].failed
  BY <1>9, <1>10
<1>12. CASE FailedOn(page, o, used[o], graph, cache)
  <2>1. FailedOn(page, o, used[o], graph', cache')  BY <1>8, <1>11, <1>12, FailedStays
  <2> QED BY <1>10, <2>1 DEF SightOK
<1> QED BY <1>2, <1>7, <1>10, <1>12 DEF SightOK

LEMMA EndObserverValues ==
  ASSUME KnowsInv, KnowsInv', Busy, EndObserver, ValuesOK(page, graph, cache, used)
  PROVE  ValuesOK(page, graph', cache', used')
<1>1. /\ IInv /\ top.who \in Viewers /\ graph' = ForgetOld(graph) /\ cache' = cache
      /\ used' = [used EXCEPT ![top.who] = top.seen]
      /\ used \in [Observers -> SUBSET (Nodes \X Answers)]
  BY DEF KnowsInv, FreshInv, EndObserver, Viewers, IInv, RestOK
<1>2. Erodes(graph, graph', {})  BY <1>1, ForgetIs
<1> SUFFICES ASSUME NEW c \in Computeds \ (graph'.dirty \cup graph'.stopped)
             PROVE  ValueOK(page, c, graph', cache', used')
  BY DEF ValuesOK
<1>3. c \in Observers /\ c # top.who  BY <1>1, ViewersAre DEF Observers
<1>4. used'[c] = used[c]  BY <1>1, <1>3
<1>5. c \notin graph.dirty \cup graph.stopped /\ graph'.deps[c] = graph.deps[c]
  BY <1>2, <1>3 DEF Erodes
<1>6. ValueOK(page, c, graph, cache, used)  BY <1>5 DEF ValuesOK
<1> QED BY <1>1, <1>4, <1>5, <1>6, FailedStays DEF ValueOK

LEMMA EndObserverSights ==
  ASSUME KnowsInv, TracesOK(page, stack), ThrownOK(page, stack, graph, cache), Busy, EndObserver,
         SightsOK(page, stack, graph, cache, used, shown, mounted)
  PROVE  SightsOK(page, stack', graph', cache', used', shown', mounted')
<1> DEFINE w == top.who
<1>1. /\ IInv /\ w \in Viewers /\ w \in Observers /\ w \notin Computeds
      /\ graph' = ForgetOld(graph) /\ cache' = cache /\ mounted' = mounted
      /\ graph'.queue = graph.queue
      /\ used' = [used EXCEPT ![w] = top.seen]
      /\ used \in [Observers -> SUBSET (Nodes \X Answers)]
      /\ shown \in [Watches \cup Doms -> Answers]
      /\ shown' = IF Fails THEN shown ELSE [shown EXCEPT ![w] = Saw]
  BY ViewersAre, ForgetIs DEF KnowsInv, FreshInv, EndObserver, Viewers, IInv, RestOK
<1>2. Erodes(graph, graph', {})  BY <1>1, ForgetIs
<1>3. Running(stack') = Running(stack) \ {w}  BY <1>1, RunningBelow
<1> SUFFICES ASSUME NEW o \in mounted \ (Running(stack') \cup graph'.queue \cup graph'.stopped)
             PROVE  SightOK(page, o, graph', cache', used', shown')
  BY <1>1 DEF SightsOK
<1>4. o \in Viewers /\ o \in Observers /\ o \notin Computeds
  BY <1>1, ViewersAre DEF IInv, RestOK, Viewers
<1>5. graph'.deps[o] = graph.deps[o] /\ o \notin graph.stopped  BY <1>2, <1>4 DEF Erodes
<1>6. CASE o # w
  <2>1. SightOK(page, o, graph, cache, used, shown)
    BY <1>1, <1>3, <1>5, <1>6 DEF SightsOK
  <2> HIDE DEF w
  <2>2. used'[o] = used[o] /\ shown'[o] = shown[o]  BY <1>1, <1>4, <1>6 DEF Viewers
  <2> QED BY <1>1, <1>5, <2>1, <2>2, FailedStays DEF SightOK
<1>7. CASE o = w
  <2>1. /\ TraceOK(page, top) /\ top \in Frames /\ page \in Pages
        /\ Len(stack) \in 1 .. Len(stack) /\ top = stack[Len(stack)]
    BY <1>1, TopTraceOK
  <2>2. used'[w] = top.seen
    <3> HIDE DEF w
    <3> QED BY <1>1
  <2>3. CASE top.phase = "read" /\ ~Fails
    <3>1. Instruction = NextOf(page, top) /\ Instruction.op = "return"
      BY <1>1, <2>3, InstructionIs DEF Ends, Fails, EndObserver
    <3>2. NextOf(page, top) = [op |-> "return", to |-> Result]
      BY <2>1, <3>1, NextIs DEF Result
    <3>3. /\ Follows(page, w, top.trace, top.seen) /\ top.trace \in Traces
          /\ NextOf(page, top) = Code(page, w, "read", top.trace)
      BY <2>1, <2>3 DEF TraceOK, Frames, NextOf
    <3> HIDE DEF w
    <3>4. shown'[w] = Result  BY <1>1, <2>3 DEF Saw, Viewers
    <3> QED BY <1>7, <2>2, <3>2, <3>3, <3>4 DEF SightOK, Yielded
  <2>4. CASE top.phase = "read" /\ Fails
    <3>1. ~Lost(w, graph)  BY <1>1, <1>5, <1>7 DEF Lost
    <3>2. Reason(page, w, NextOf(page, top), graph, cache)  BY <1>1, <2>4, <3>1, FailsFor
    <3>3. /\ Follows(page, w, top.trace, top.seen) /\ top.trace \in Traces
          /\ NextOf(page, top) = Code(page, w, "read", top.trace)
      BY <2>1, <2>4 DEF TraceOK, Frames, NextOf
    <3>4. FailedOn(page, w, used'[w], graph, cache)  BY <2>2, <3>2, <3>3 DEF FailedOn
    <3> HIDE DEF w
    <3>5. FailedOn(page, w, used'[w], graph', cache')
      BY <1>1, <1>5, <1>7, <3>4, FailedStays
    <3> QED BY <1>7, <3>5 DEF SightOK
  <2>5. CASE top.phase = "body"
    <3>1. /\ top.trace # <<>> /\ top.trace[1] = top.next /\ top.trace \in Traces
          /\ Yielded(page, w, top.next, top.seen)
      BY <2>1, <2>5 DEF TraceOK, Frames
    <3>2. w \in Watches  BY <2>1, <2>5 DEF KnowsInv, ShapeOK
    <3>3. PICK t \in Traces : /\ Follows(page, w, t, top.seen)
                              /\ Code(page, w, "read", t) = [op |-> "return", to |-> top.next]
      BY <3>1 DEF Yielded
    <3>4. CASE ~Fails
      <4> HIDE DEF w
      <4>1. shown'[w] = top.next  BY <1>1, <2>5, <3>4 DEF Saw, Viewers
      <4> QED BY <1>7, <2>2, <3>3, <4>1 DEF SightOK, Yielded
    <3>5. CASE Fails
      <4>1. MayFail(Code(page, w, "body", top.trace), Fallible[page])
        BY <1>1, <2>5, <3>5, FailsFor DEF NextOf
      <4>2. Code(page, w, "read", t).op = "return" /\ Code(page, w, "read", t).to = top.next
        BY <3>3
      <4>3. BodyFailed(page, w, top.seen)  BY <3>1, <3>2, <3>3, <4>1, <4>2 DEF BodyFailed
      <4> QED BY <1>7, <2>2, <4>3 DEF SightOK
    <3> QED BY <3>4, <3>5
  <2> QED BY <2>1, <2>3, <2>4, <2>5 DEF Frames
<1> QED BY <1>6, <1>7
-----------------------------------------------------------------------------
(* At rest what was read is what would be read.                              *)

LEMMA StillGets ==
  ASSUME NEW o \in Observers, NEW t \in Traces, Follows(page, o, t, used[o]), StillTrue(used[o])
  PROVE  Gets(o, t)
<1> SUFFICES ASSUME NEW i \in 1 .. Len(t)
             PROVE  LET next == Asks(o, SubSeq(t, 1, i - 1)) IN
                    /\ next.op \notin {"return", "throw"}
                    /\ next.op = "read" => Stands(next.of, t[i])
  BY DEF Gets
<1> DEFINE next == Asks(o, SubSeq(t, 1, i - 1))
<1>1. next.op \notin {"return", "throw"} /\ (next.op = "read" => <<next.of, t[i]>> \in used[o])
  BY DEF Follows, Asks
<1> HIDE DEF next
<1>2. \A n, v : <<n, v>> \in used[o] => Stands(n, v)  BY DEF StillTrue
<1> QED BY <1>1, <1>2 DEF next

LEMMA StillYields ==
  ASSUME NEW o \in Observers, NEW v, Yielded(page, o, v, used[o]), StillTrue(used[o])
  PROVE  \E t \in Traces : Yields(o, t, v)
BY StillGets DEF Yielded, Yields, Asks

LEMMA StillFails ==
  ASSUME NEW o \in Observers, FailedOn(page, o, used[o], graph, cache), StillTrue(used[o]),
         \A n \in graph.deps[o] : Up(n, graph)
  PROVE  \E t \in Traces : FailsOn(o, t)
<1>1. PICK t \in Traces : /\ Follows(page, o, t, used[o])
                          /\ Reason(page, o, Code(page, o, "read", t), graph, cache)
  BY DEF FailedOn
<1>2. Gets(o, t)  BY <1>1, StillGets
<1> DEFINE next == Code(page, o, "read", t)
<1>3. Asks(o, t) = next  BY DEF Asks
<1> HIDE DEF next
<1>4. next.op = "read" => FailsNow(next.of) /\ Fresh(next.of)
  BY <1>1 DEF Reason, FailsNow, Fresh, Up, next
<1>5. MayFail(next, Fallible[page])  BY <1>1 DEF Reason, next
<1> QED BY <1>2, <1>3, <1>4, <1>5 DEF FailsOn

LEMMA TruthIsShown == Truth => ShownIsTruth
<1> SUFFICES ASSUME Truth, Idle, ~graph.pending
             PROVE  /\ \A c \in Computeds \ (graph.dirty \cup graph.stopped) : \E t \in Traces :
                         IF cache[c].failed THEN FailsOn(c, t) ELSE Yields(c, t, cache[c].value)
                    /\ \A o \in mounted \ graph.stopped :
                         (\E t \in Traces : Yields(o, t, shown[o]))
                         \/ \E t \in Traces : FailsOn(o, t) \/ BodyFailsOn(o, t)
  BY DEF ShownIsTruth
<1>1. /\ KnowsInv /\ FreshInv /\ IInv /\ graph \in Graphs /\ Levels(stack, graph)
      /\ Awaited(graph, Running(stack)) /\ ValuesOK(page, graph, cache, used)
      /\ SightsOK(page, stack, graph, cache, used, shown, mounted)
  BY DEF Truth, KnowsInv, FreshInv, IInv, GraphOK, Settling
<1>2. stack = <<>> /\ Running(stack) = {} /\ OnStack = {} /\ Unconfirmed(stack) = {}
  BY <1>1, EmptyStack DEF Idle, OnStack, Running
<1>3. graph.queue = {} /\ \A o \in mounted \ graph.stopped : StillTrue(used[o])
  BY <1>1, KnownIsCurrent DEF AtRestCurrent
<1>4. \A c \in Computeds \ (graph.dirty \cup graph.stopped) : StillTrue(used[c])
  BY <1>1, <1>2, FreshIsCurrent DEF CleanIsCurrent
<1>5. ASSUME NEW c \in Computeds \ (graph.dirty \cup graph.stopped)
      PROVE  \E t \in Traces :
               IF cache[c].failed THEN FailsOn(c, t) ELSE Yields(c, t, cache[c].value)
  <2>1. c \in Observers /\ ValueOK(page, c, graph, cache, used) /\ StillTrue(used[c])
    BY <1>1, <1>4, <1>5 DEF ValuesOK, Observers
  <2>2. \A n \in graph.deps[c] : Up(n, graph)  BY <1>1, <1>5 DEF Levels
  <2>3. CASE cache[c].failed  BY <2>1, <2>2, <2>3, StillFails DEF ValueOK
  <2>4. CASE ~cache[c].failed  BY <2>1, <2>4, StillYields DEF ValueOK
  <2> QED BY <2>3, <2>4
<1>6. ASSUME NEW o \in mounted \ graph.stopped
      PROVE  \/ \E t \in Traces : Yields(o, t, shown[o])
             \/ \E t \in Traces : FailsOn(o, t) \/ BodyFailsOn(o, t)
  <2>1. o \in Observers /\ SightOK(page, o, graph, cache, used, shown) /\ StillTrue(used[o])
    BY <1>1, <1>2, <1>3, <1>6 DEF SightsOK, IInv, RestOK, Observers
  <2>2. ASSUME NEW n \in graph.deps[o] PROVE Up(n, graph)
    <3>1. n \in Nodes /\ o \in graph.subs[n]
      BY <1>1, <2>1, <2>2 DEF IInv, GraphOK, BothSides, Graphs
    <3>2. n \in Computeds => n \notin graph.dirty \/ n \in graph.stopped
      BY <1>1, <1>2, <1>3, <3>1 DEF Awaited
    <3>3. n \in Cells => n \notin graph.dirty
      BY <1>1, NamesAssumption DEF Graphs, Observers
    <3> QED BY <3>1, <3>2, <3>3 DEF Up, Nodes
  <2>3. CASE Yielded(page, o, shown[o], used[o])  BY <2>1, <2>3, StillYields
  <2>4. CASE FailedOn(page, o, used[o], graph, cache)  BY <2>1, <2>2, <2>4, StillFails
  <2>5. CASE BodyFailed(page, o, used[o])
    <3>1. PICK t, u \in Traces :
            /\ Follows(page, o, t, used[o]) /\ o \in Watches
            /\ Code(page, o, "read", t).op = "return"
            /\ u # <<>> /\ u[1] = Code(page, o, "read", t).to
            /\ MayFail(Code(page, o, "body", u), Fallible[page])
      BY <2>5 DEF BodyFailed
    <3>2. Gets(o, t)  BY <2>1, <3>1, StillGets
    <3>3. BodyFailsOn(o, t)  BY <3>1, <3>2 DEF BodyFailsOn, Asks
    <3> QED BY <3>3
  <2> QED BY <2>1, <2>3, <2>4, <2>5 DEF SightOK
<1> QED BY <1>5, <1>6

LEMMA StartsTrue == Init => Truth
<1> SUFFICES ASSUME Init PROVE Truth  OBVIOUS
<1>1. KnowsInv /\ Settling  BY StartsKnowing, StartsSettled
<1>2. /\ stack = <<>> /\ mounted = {} /\ graph.dirty = Computeds
      /\ \A o \in Observers : graph.deps[o] = {}
      /\ \A c \in Computeds : ~cache[c].failed
  BY DEF Init
<1>3. Len(<<>>) = 0 /\ \A i \in 1 .. 0 : FALSE  OBVIOUS
<1>4. Descends(graph, RankOf(page))  BY <1>2 DEF Descends, Observers
<1>5. Levels(stack, graph) /\ TracesOK(page, stack)  BY <1>2, <1>3 DEF Levels, TracesOK
<1>6. ThrownOK(page, stack, graph, cache) /\ FailuresOK(page, cache)
  BY <1>2 DEF ThrownOK, FailuresOK
<1>7. /\ ValuesOK(page, graph, cache, used)
      /\ SightsOK(page, stack, graph, cache, used, shown, mounted)
  BY <1>2 DEF ValuesOK, SightsOK
<1> QED BY <1>1, <1>4, <1>5, <1>6, <1>7 DEF Truth

LEMMA StaysTrue ==
  ASSUME PureDerivations, ReadsOnly(page), NoCircle(page), Truth, [Next]_vars
  PROVE  Truth'
<1>1. /\ KnowsInv /\ Settling /\ Descends(graph, RankOf(page)) /\ Levels(stack, graph)
      /\ TracesOK(page, stack) /\ ThrownOK(page, stack, graph, cache) /\ FailuresOK(page, cache)
      /\ ValuesOK(page, graph, cache, used)
      /\ SightsOK(page, stack, graph, cache, used, shown, mounted)
  BY DEF Truth
<1>2. KnowsInv' /\ Settling' /\ IInv' /\ page' = page /\ IInv
  <2>1. KnowsInv' /\ Settling' /\ page' = page
    BY <1>1, StaysKnown, StaysSettled, PageStays
  <2> QED BY <1>1, <2>1 DEF KnowsInv, FreshInv
<1>3. Descends(graph', RankOf(page)) /\ Levels(stack', graph')
  BY <1>1, <1>2, StaysLevelled
<1>4. TracesOK(page, stack')  BY <1>1, StaysTraced
<1>5. FailuresOK(page, cache')  BY <1>1, StaysFallible
<1>6. ThrownOK(page, stack', graph', cache')  BY <1>1, <1>2, <1>5, StaysThrown
<1>7. /\ ValuesOK(page, graph', cache', used')
      /\ SightsOK(page, stack', graph', cache', used', shown', mounted')
  <2>1. CASE EndComputed
    <3>1. Busy  BY <2>1 DEF EndComputed
    <3> QED BY <1>1, <1>2, <2>1, <3>1, EndComputedValues, EndComputedSights
  <2>2. CASE EndObserver
    <3>1. Busy  BY <2>2 DEF EndObserver
    <3> QED BY <1>1, <1>2, <2>2, <3>1, EndObserverValues, EndObserverSights
  <2>3. CASE ~EndComputed /\ ~EndObserver
    <3>1. Onward  BY <1>1, <2>3, AllOnward
    <3> QED BY <1>1, <1>2, <3>1, OnwardValues, OnwardSights
  <2> QED BY <2>1, <2>2, <2>3
<1> QED BY <1>2, <1>3, <1>4, <1>5, <1>6, <1>7 DEF Truth

(* The page is what its program says: at rest, with no flush to come, every  *)
(* clean computed holds what its code yields on the present cells, and every *)
(* live watch and position has seen or shows what its expression yields, or  *)
(* that fails now; so on every page whose expressions only read and whose    *)
(* computeds do not go in a circle, whatever they read on which condition,   *)
(* create, destroy and fail.                                                 *)
THEOREM TruthShown == CalmPages => (Spec => []ShownIsTruth)
<1> SUFFICES ASSUME CalmPages PROVE Spec => []ShownIsTruth  OBVIOUS
<1>1. Init => TruthInv  BY StartsTrue DEF TruthInv
<1>2. TruthInv /\ [Next]_vars => TruthInv'
  <2> SUFFICES ASSUME TruthInv, [Next]_vars, page' \notin Impure PROVE Truth'
    BY DEF TruthInv
  <2>1. Truth /\ page \notin Impure  BY PageStays DEF TruthInv
  <2>2. page \in Pages  BY <2>1 DEF Truth, KnowsInv, FreshInv, IInv, RestOK
  <2>3. PureDerivations /\ ReadsOnly(page) /\ NoCircle(page)  BY <2>1, <2>2 DEF CalmPages
  <2> QED BY <2>1, <2>3, StaysTrue
<1>3. TruthInv => ShownIsTruth  BY TruthIsShown DEF TruthInv, ShownIsTruth
<1> QED BY <1>1, <1>2, <1>3, PTL DEF Spec
=============================================================================
