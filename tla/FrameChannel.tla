---------------------------- MODULE FrameChannel ----------------------------
(***************************************************************************)
(* What a reader of a SharedQueue is promised: the elements put in come    *)
(* out one at a time, in the order they were put in, none twice and none   *)
(* lost.  SharedQueue with one consumer implements this specification.     *)
(***************************************************************************)
EXTENDS Naturals, Sequences

CONSTANT Items              \* the elements that may be sent

VARIABLES
  sent,                     \* every element sent so far, in order
  delivered                 \* every element delivered so far, in order

vars == <<sent, delivered>>

Init == sent = <<>> /\ delivered = <<>>

Send(x) ==
  /\ sent' = Append(sent, x)
  /\ UNCHANGED delivered

Deliver ==
  /\ Len(delivered) < Len(sent)
  /\ delivered' = Append(delivered, sent[Len(delivered) + 1])
  /\ UNCHANGED sent

Next == Deliver \/ \E x \in Items : Send(x)

Spec == Init /\ [][Next]_vars

FairSpec == Spec /\ WF_vars(Deliver)
=============================================================================
