---------------------------- MODULE BoundedFIFO ----------------------------
(***************************************************************************)
(* What the queue promises its callers: a FIFO of at most Capacity items.  *)
(* Enq and Deq take effect in one step; out[c] is what consumer c took     *)
(* last and has not given up yet.                                          *)
(***************************************************************************)
EXTENDS Naturals, Sequences

CONSTANTS Consumers, Items, Capacity, NoItem

VARIABLES queue, out

Init ==
    /\ queue = << >>
    /\ out = [c \in Consumers |-> NoItem]

Enq(x) ==
    /\ Len(queue) < Capacity
    /\ queue' = Append(queue, x)
    /\ UNCHANGED out

Deq(c) ==
    /\ queue # << >>
    /\ out[c] = NoItem
    /\ out' = [out EXCEPT ![c] = Head(queue)]
    /\ queue' = Tail(queue)

\* The consumer is done with the item it took.
Drop(c) ==
    /\ out' = [out EXCEPT ![c] = NoItem]
    /\ UNCHANGED queue

Next ==
    \/ \E x \in Items : Enq(x)
    \/ \E c \in Consumers : Deq(c) \/ Drop(c)

Spec == Init /\ [][Next]_<<queue, out>>
=============================================================================
