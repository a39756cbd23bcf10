----------------------------- MODULE BoundedFifo -----------------------------
(***************************************************************************)
(* What the send ring promises its clients: a first-in first-out queue of  *)
(* at most Cap packets, from which each packet is taken once and in the    *)
(* order it was put.                                                       *)
(***************************************************************************)
EXTENDS Naturals, Sequences

CONSTANTS Cap,    \* capacity
          Packets \* what may be queued

VARIABLES queue,  \* packets put and not yet taken
          out     \* history: packets taken

Init == queue = <<>> /\ out = <<>>

Put(x) ==
  /\ Len(queue) < Cap
  /\ queue' = Append(queue, x)
  /\ UNCHANGED out

Get ==
  /\ queue # <<>>
  /\ out' = Append(out, Head(queue))
  /\ queue' = Tail(queue)

Next == (\E x \in Packets : Put(x)) \/ Get

Spec == Init /\ [][Next]_<<queue, out>>

=============================================================================
