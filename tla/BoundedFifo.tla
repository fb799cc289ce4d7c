---------------------------- MODULE BoundedFifo ----------------------------
(***************************************************************************)
(* What the logger asks of its record buffer: a first-in first-out queue   *)
(* of at most Capacity records, shared by any number of threads.  A record *)
(* is put at the back in one step, and a reader takes the record at the    *)
(* front in one step.  A put or a take that is refused changes nothing, so *)
(* it is a stuttering step here.                                           *)
(***************************************************************************)
EXTENDS Naturals, Sequences

CONSTANTS
  Poppers,    \* the threads that take records out
  Records,    \* what can be stored
  Capacity,   \* the most records the buffer ever holds
  NoRecord    \* what a reader holds before its first record

VARIABLES
  items,      \* the buffered records, oldest first
  holding     \* the record each reader took last

fifoVars == <<items, holding>>

Init ==
  /\ items = <<>>
  /\ holding = [t \in Poppers |-> NoRecord]

Put(r) ==
  /\ Len(items) < Capacity
  /\ items' = Append(items, r)
  /\ UNCHANGED holding

Take(t) ==
  /\ items # <<>>
  /\ holding' = [holding EXCEPT ![t] = Head(items)]
  /\ items' = Tail(items)

Next ==
  \/ \E r \in Records : Put(r)
  \/ \E t \in Poppers : Take(t)

Spec == Init /\ [][Next]_fifoVars
=============================================================================
