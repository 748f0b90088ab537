--------------------------- MODULE ChannelPromise ---------------------------
(* What channel() promises: one line of values.  Its first Capacity values   *)
(* are in the channel's keeping and leave only by being received, in order;  *)
(* a value behind them belongs to a sender that still waits and may be       *)
(* withdrawn; closing keeps the former and drops the latter.                 *)
EXTENDS Naturals, Sequences

SE == INSTANCE SequencesExt

CONSTANTS Calls, Capacity

VARIABLES line,  \* the values offered and not yet received
          out,   \* the values received, in order
          open

vars == <<line, out, open>>

Init == line = <<>> /\ out = <<>> /\ open = TRUE

Offer(c) == /\ open /\ Len(line) < 2 * Capacity
            /\ line' = Append(line, c)
            /\ UNCHANGED <<out, open>>

(* A value offered to a waiting receiver passes straight through. *)
Pass(c) == /\ open /\ line = <<>>
           /\ out' = Append(out, c)
           /\ UNCHANGED <<line, open>>

Receive == /\ line # <<>>
           /\ out' = Append(out, Head(line))
           /\ line' = Tail(line)
           /\ UNCHANGED open

Withdraw == /\ \E i \in DOMAIN line :
                 i > Capacity /\ line' = SE!RemoveAt(line, i)
            /\ UNCHANGED <<out, open>>

Close == /\ open /\ open' = FALSE
         /\ line' = SubSeq(line, 1, IF Len(line) < Capacity THEN Len(line)
                                                            ELSE Capacity)
         /\ UNCHANGED out

Next == (\E c \in Calls : Offer(c) \/ Pass(c)) \/ Receive \/ Withdraw \/ Close

Spec == Init /\ [][Next]_vars
=============================================================================
