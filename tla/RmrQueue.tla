------------------------------ MODULE RmrQueue ------------------------------
(***************************************************************************)
(* What the message ring of RMR promises: a queue of at most Capacity      *)
(* messages.  Messages arrive numbered from 1; one that finds the queue    *)
(* full is dropped, every other one is taken once, in the order of arrival.*)
(***************************************************************************)
EXTENDS Naturals, Sequences

CONSTANT Capacity

VARIABLES
  arrived,   \* the number of messages that have arrived
  queue,     \* the messages that wait
  out        \* the messages taken so far, in the order they were taken

vars == <<arrived, queue, out>>

Init == arrived = 0 /\ queue = <<>> /\ out = <<>>

Put ==
  /\ Len(queue) < Capacity
  /\ arrived' = arrived + 1
  /\ queue' = Append(queue, arrived')
  /\ UNCHANGED out

Drop ==
  /\ Len(queue) = Capacity
  /\ arrived' = arrived + 1
  /\ UNCHANGED <<queue, out>>

Take ==
  /\ queue # <<>>
  /\ out' = Append(out, Head(queue))
  /\ queue' = Tail(queue)
  /\ UNCHANGED arrived

Next == Put \/ Drop \/ Take

Spec == Init /\ [][Next]_vars
=============================================================================
