---------------------------- MODULE BoundedQueue ----------------------------
(***************************************************************************)
(* What a ring buffer promises its two users: a first-in first-out queue   *)
(* of at most Limit items.  `accepted' is the item of the last successful  *)
(* enqueue and `delivered' the item the last successful dequeue returned.  *)
(***************************************************************************)
EXTENDS Naturals, Sequences

CONSTANTS
    Item,       \* what the queue carries (pointers to events)
    NoItem,     \* the NULL pointer
    Limit       \* the number of items the queue can hold

VARIABLES queue, accepted, delivered

vars == <<queue, accepted, delivered>>

Init ==
    /\ queue = <<>>
    /\ accepted = NoItem
    /\ delivered = NoItem

Enqueue(x) ==
    /\ Len(queue) < Limit
    /\ queue' = Append(queue, x)
    /\ accepted' = x
    /\ UNCHANGED delivered

Dequeue ==
    /\ queue # <<>>
    /\ delivered' = Head(queue)
    /\ queue' = Tail(queue)
    /\ UNCHANGED accepted

Next == Dequeue \/ \E x \in Item : Enqueue(x)

Spec == Init /\ [][Next]_vars
=============================================================================
