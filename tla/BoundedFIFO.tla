---------------------------- MODULE BoundedFIFO ----------------------------
(***************************************************************************)
(* What a stx::thread::Queue promises: values come out in the order in     *)
(* which they went in, each once, and at most Capacity are held.           *)
(***************************************************************************)
EXTENDS Naturals, Sequences

CONSTANTS Values, Capacity

VARIABLE items

Init == items = <<>>

Put(v) == Len(items) < Capacity /\ items' = Append(items, v)

Take == items # <<>> /\ items' = Tail(items)

Next == Take \/ \E v \in Values : Put(v)

Spec == Init /\ [][Next]_items
=============================================================================
