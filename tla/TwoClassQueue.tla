---------------------------- MODULE TwoClassQueue ----------------------------
(***************************************************************************)
(* What submitPacket promises the application about the order in which     *)
(* packets are sent: urgent ones, a first-in first-out queue without a     *)
(* limit, and the rest, a first-in first-out queue from which nothing is   *)
(* taken while an urgent one waits and into which nothing is put once      *)
(* Limit packets wait altogether.                                          *)
(***************************************************************************)
EXTENDS Naturals, Sequences

CONSTANTS Items,  \* what may be queued
          Urgent, \* the urgent ones of them
          Limit

VARIABLES first,  \* urgent items put and not yet taken
          rest,   \* the others
          out     \* history: items taken

Init == first = <<>> /\ rest = <<>> /\ out = <<>>

PutFirst(x) ==
  /\ x \in Urgent
  /\ first' = Append(first, x)
  /\ UNCHANGED <<rest, out>>

PutRest(x) ==
  /\ x \notin Urgent /\ Len(first) + Len(rest) < Limit
  /\ rest' = Append(rest, x)
  /\ UNCHANGED <<first, out>>

TakeFirst ==
  /\ first # <<>>
  /\ out' = Append(out, Head(first))
  /\ first' = Tail(first)
  /\ UNCHANGED rest

TakeRest ==
  /\ first = <<>> /\ rest # <<>>
  /\ out' = Append(out, Head(rest))
  /\ rest' = Tail(rest)
  /\ UNCHANGED first

Next == (\E x \in Items : PutFirst(x) \/ PutRest(x)) \/ TakeFirst \/ TakeRest

Spec == Init /\ [][Next]_<<first, rest, out>>

=============================================================================
