----------------------------- MODULE BoundedFifo -----------------------------
(***************************************************************************)
(* What a command ring promises: a queue of at most Capacity items, read   *)
(* in the order in which they were written.                                *)
(***************************************************************************)
EXTENDS Naturals, Sequences

CONSTANTS Item, Capacity

VARIABLE q

Init == q = <<>>

Put == /\ Len(q) < Capacity
       /\ Len(q') = Len(q) + 1
       /\ q'[Len(q')] \in Item
       /\ \A i \in 1 .. Len(q) : q'[i] = q[i]

Get == /\ q # <<>>
       /\ q' = Tail(q)

Next == Put \/ Get

Spec == Init /\ [][Next]_q
=============================================================================
