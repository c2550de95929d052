------------------------------ MODULE ByteFifo ------------------------------
(***************************************************************************)
(* What a one-way serial driver promises: a bounded first-in first-out     *)
(* channel.  The n-th byte handed to the driver is represented by the      *)
(* number n, so that order, loss and duplication are visible.              *)
(***************************************************************************)
EXTENDS Naturals, Sequences

CONSTANT Capacity      \* how many bytes the channel can hold

VARIABLES queue,       \* bytes accepted and not yet delivered
          accepted,    \* how many bytes have been accepted
          last         \* the byte delivered last, 0 before the first

vars == <<queue, accepted, last>>

Init ==
    /\ queue = <<>>
    /\ accepted = 0
    /\ last = 0

Put ==
    /\ Len(queue) < Capacity
    /\ queue' = Append(queue, accepted + 1)
    /\ accepted' = accepted + 1
    /\ UNCHANGED last

Get ==
    /\ queue # <<>>
    /\ last' = Head(queue)
    /\ queue' = Tail(queue)
    /\ UNCHANGED accepted

Next == Put \/ Get

Spec == Init /\ [][Next]_vars
=============================================================================
