---------------------------- MODULE BoundedFifo ----------------------------
(***************************************************************************)
(* Abstract specification of TQueue: a sequence of at most Capacity items, *)
(* oldest first.  `call' is the operation invoked last, with its argument: *)
(* it makes the calls observable, so that an implementation cannot pass    *)
(* off a lost item as a step in which nothing was called.                  *)
(***************************************************************************)
EXTENDS FifoOps

CONSTANTS Capacity, Item

VARIABLES items, call

Init == items = <<>> /\ call = <<"init">>

Push(x) == items' = Pushed(items, x, Capacity) /\ call' = <<"push", x>>
Pop     == items' = Popped(items)              /\ call' = <<"pop">>
Clear   == items' = <<>>                       /\ call' = <<"clear">>

Next == (\E x \in Item : Push(x)) \/ Pop \/ Clear

Spec == Init /\ [][Next]_<<items, call>>
=============================================================================
