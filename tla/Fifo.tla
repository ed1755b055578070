-------------------------------- MODULE Fifo --------------------------------
(***************************************************************************)
(* A bounded first-in first-out queue, apart from how it is stored.        *)
(***************************************************************************)
EXTENDS Naturals, Sequences

CONSTANTS
  Item,      \* what can be queued
  Capacity   \* how many items fit

VARIABLE queue

Init == queue = <<>>

Push(e) ==
  /\ Len(queue) < Capacity
  /\ queue' = Append(queue, e)

\* The n oldest items leave.
Drop(n) ==
  /\ n <= Len(queue)
  /\ queue' = SubSeq(queue, n + 1, Len(queue))

Next ==
  (\E e \in Item : Push(e)) \/ (\E n \in 1..Capacity : Drop(n))

Spec == Init /\ [][Next]_queue
=============================================================================
