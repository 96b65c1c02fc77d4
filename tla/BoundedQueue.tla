---------------------------- MODULE BoundedQueue ----------------------------
(***************************************************************************)
(* What spdlog's circular_q promises: a FIFO queue of limited length where *)
(* a new item displaces the oldest if there is no room, and a count of the *)
(* items displaced.                                                        *)
(***************************************************************************)
EXTENDS Integers, Sequences

CONSTANTS
  Items,                    \* what may be queued
  MaxItems                  \* there is room for so many

VARIABLES items, displaced

Init == items = <<>> /\ displaced = 0

Push(x) ==
  LET kept == IF Len(items) = MaxItems THEN Tail(items) ELSE items
  IN /\ items' = Append(kept, x)
     /\ displaced' = displaced + Len(items) - Len(kept)

Pop ==
  /\ items # <<>>
  /\ items' = Tail(items)
  /\ UNCHANGED displaced

Next == Pop \/ \E x \in Items : Push(x)

Spec == Init /\ [][Next]_<<items, displaced>>
=============================================================================
