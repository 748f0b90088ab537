----------------------------- MODULE MCReactive -----------------------------
(* Four pages.  Diamond: p reads double and mode, mode reads double, and    *)
(* each the second thing only while double is 0; mode may fail; a watch on   *)
(* mode writes b.                                                            *)
(* Region: p creates q and destroys it; two watches, of which the first      *)
(* written writes what the second observes and the second derives in its     *)
(* body; q derives the same thing, so that it is dropped and derived again.  *)
(* Storm: double and mode read each other when a and b are both 1, and p     *)
(* writes what it reads when b is 2, until its cap.                          *)
(* Echo: two watches observe double, which reads itself when a is 1.         *)
(* And one that never settles, NoisyWatch: the body of w writes what w       *)
(* watches three times a run.                                                *)
EXTENDS Reactive
SE == INSTANCE SequencesExt

Go(op, n) == [op |-> op, of |-> n]
Set(s, v) == [op |-> "write", of |-> s, to |-> v]
Give(v) == [op |-> "return", to |-> v]
Throw == [op |-> "throw"]
Not(v) == IF v = 1 THEN 0 ELSE 1

Diamond(who, phase, t) ==
  LET n == Len(t) IN
  CASE who = "double" ->
         IF n = 0 THEN Go("read", "a") ELSE Give(Not(t[1]))
    [] who = "mode" ->
         IF n = 0 THEN Go("read", "double")
         ELSE IF t[1] = 1 THEN Give(1)
         ELSE IF n = 1 THEN Go("read", "b")
         ELSE IF t[2] = 2 THEN Throw ELSE Give(t[2])
    [] who = "w1" /\ phase = "read" ->
         IF n = 0 THEN Go("read", "mode") ELSE Give(t[1])
    [] who = "w1" /\ phase = "body" ->
         IF n = 1 THEN Set("b", 0) ELSE Give(0)
    [] who = "p" ->
         IF n = 0 THEN Go("read", "double")
         ELSE IF t[1] = 1 THEN Give(2)
         ELSE IF n = 1 THEN Go("read", "mode") ELSE Give(t[2])
    [] OTHER -> Throw

Region(who, phase, t) ==
  LET n == Len(t) IN
  CASE who = "double" ->
         IF n = 0 THEN Go("read", "b") ELSE Give(Not(t[1]))
    [] who = "w1" /\ phase = "read" ->
         IF n = 0 THEN Go("read", "a") ELSE Give(t[1])
    [] who = "w1" /\ phase = "body" ->
         IF n = 1 THEN Set("b", Not(t[1])) ELSE Give(0)
    [] who = "w2" /\ phase = "read" ->
         IF n = 0 THEN Go("read", "b") ELSE Give(t[1])
    [] who = "w2" /\ phase = "body" ->
         IF n = 1 THEN Go("read", "double") ELSE Give(0)
    [] who = "p" ->
         IF n = 0 THEN Go("read", "a")
         ELSE IF n = 1 THEN IF t[1] = 1 THEN Go("stop", "q") ELSE Go("mount", "q")
         ELSE Give(t[1])
    [] who = "q" ->
         IF n = 0 THEN Go("read", "double") ELSE Give(t[1])
    [] OTHER -> Throw

Storm(who, phase, t) ==
  LET n == Len(t) IN
  CASE who = "double" ->
         IF n = 0 THEN Go("read", "a")
         ELSE IF n = 1 /\ t[1] = 1 THEN Go("read", "mode") ELSE Give(t[n])
    [] who = "mode" ->
         IF n = 0 THEN Go("read", "b")
         ELSE IF n = 1 /\ t[1] = 1 THEN Go("read", "double") ELSE Give(t[n])
    [] who = "p" ->
         IF n = 0 THEN Go("read", "b")
         ELSE IF n = 1 THEN Go("read", IF t[1] = 2 THEN "a" ELSE "mode")
         ELSE IF n = 2 /\ t[1] = 2 THEN Set("a", Not(t[2])) ELSE Give(t[2])
    [] OTHER -> Throw

Echo(who, phase, t) ==
  LET n == Len(t) IN
  CASE who = "double" ->
         IF n = 0 THEN Go("read", "a")
         ELSE IF n = 1 /\ t[1] = 1 THEN Go("read", "double") ELSE Give(t[n])
    [] who \in {"w1", "w2"} /\ phase = "read" ->
         IF n = 0 THEN Go("read", "double") ELSE Give(t[1])
    [] OTHER -> Give(0)

NoisyWatch(who, phase, t) ==
  LET n == Len(t) IN
  IF phase = "body" THEN IF n \in 1 .. 3 THEN Set("a", Not(t[n])) ELSE Give(0)
  ELSE IF n = 0 THEN Go("read", "a") ELSE Give(t[1])

Program(on, who, phase, t) ==
  CASE on = "Diamond" -> Diamond(who, phase, t)
    [] on = "Region" -> Region(who, phase, t)
    [] on = "Storm" -> Storm(who, phase, t)
    [] on = "Echo" -> Echo(who, phase, t)
    [] on = "NoisyWatch" -> NoisyWatch(who, phase, t)

ThePages == {"Diamond", "Region", "Storm", "Echo"}
TheNoisyOne == {"NoisyWatch"}
PartsOf == [Diamond |-> {"double", "mode", "w1", "p"},
            Region |-> {"double", "w1", "w2", "p", "q"},
            Storm |-> {"double", "mode", "p"},
            Echo |-> {"double", "w1", "w2"},
            NoisyWatch |-> {"w1"}]
Order == [w \in Watches |-> IF w = "w1" THEN 1 ELSE 2]
A == {<<"a", 0>>, <<"a", 1>>}
HandlersOf == [Diamond |-> A \cup {<<"b", 2>>},
               Region |-> A \cup {<<"b", 1>>},
               Storm |-> A \cup {<<"b", 1>>, <<"b", 2>>},
               Echo |-> A, NoisyWatch |-> A]

(* The traces of these codes.                                                *)
Longer(T) ==
  {Append(t, v) : t \in {u \in T : \E p \in Pages, o \in Observers, phase \in {"read", "body"} :
                         Program(p, o, phase, u).op \notin {"return", "throw"}}, v \in Answers}
ShortTraces ==
  LET One == {<<v>> : v \in Answers}
      Two == Longer(One)
      Three == Longer(Two)
  IN {<<>>} \cup One \cup Two \cup Three \cup Longer(Three)

(* What the theorems of ReactiveProofs ask of pages is so of these.          *)
ASSUME TheyAreCalm == CalmPages

=============================================================================
