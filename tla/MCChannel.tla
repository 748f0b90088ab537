------------------------------ MODULE MCChannel ------------------------------
(* A channel of capacity 2 and six calls: two values buffered, two senders   *)
(* waiting and one refused, with calls left to receive and to cancel.        *)
EXTENDS Channel, TLC

CallSymmetry == Permutations(Calls)
=============================================================================
