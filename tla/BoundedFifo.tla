---------------------------- MODULE BoundedFifo ----------------------------
(***************************************************************************)
(* What each queue of the firmware promises: elements come out in the      *)
(* order they went in, none is invented, changed or duplicated, and one    *)
(* that finds the queue full is dropped (the add is then no step at all).  *)
(***************************************************************************)
EXTENDS Naturals, Sequences

CONSTANTS Values, Capacity

VARIABLES
    items,   \* the queued elements, oldest first
    taken    \* the element handed out last

fvars == <<items, taken>>

Init == items = <<>> /\ taken \in Values

Add(x) ==
    /\ Len(items) < Capacity
    /\ items' = Append(items, x)
    /\ UNCHANGED taken

Take ==
    /\ items # <<>>
    /\ taken' = Head(items)
    /\ items' = Tail(items)

Clear(x) ==
    /\ items' = <<x>>
    /\ UNCHANGED taken

Discard ==
    /\ items' = <<>>
    /\ UNCHANGED taken

Next == (\E x \in Values : Add(x) \/ Clear(x)) \/ Take \/ Discard

Spec == Init /\ [][Next]_fvars
=============================================================================
