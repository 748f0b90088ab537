--------------------------- MODULE BuildOwnership ---------------------------
(* What the claims promise: each build owns outputs, nobody else's overlap,  *)
(* and it comes by the outputs it asked for together or not at all.          *)

CONSTANTS Builds, Wanted, Covers(_, _), Overlaps(_, _)

VARIABLE owned

Init == owned = [b \in Builds |-> {}]

(* What a build does not own already of the outputs W. *)
Missing(b, W) == {o \in W : \A p \in owned[b] : ~Covers(p, o)}

Take(b, W) ==
  /\ \A c \in Builds \ {b} : \A o \in Missing(b, W), p \in owned[c] : ~Overlaps(o, p)
  /\ owned' = [owned EXCEPT ![b] = @ \cup Missing(b, W)]

Give(b, o) == owned' = [owned EXCEPT ![b] = @ \ {o}]

Lose(b) == owned' = [owned EXCEPT ![b] = {}]

Next == \E b \in Builds :
          \/ \E W \in Wanted : Take(b, W)
          \/ \E o \in owned[b] : Give(b, o)
          \/ Lose(b)

Spec == Init /\ [][Next]_owned
=============================================================================
