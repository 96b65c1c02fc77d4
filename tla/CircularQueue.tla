---------------------------- MODULE CircularQueue ----------------------------
(***************************************************************************)
(* spdlog/details/circular_q.h: a ring with one slot more than items, so   *)
(* that head_ = tail_ is the empty queue.  The operations are actions of   *)
(* the modules that use the ring.                                          *)
(***************************************************************************)
EXTENDS Integers, Sequences

CONSTANTS
  MaxItems,                 \* the constructor's argument
  Nothing                   \* what a slot holds before its first item

ASSUME RingAssumption == MaxItems \in Nat \ {0}

VARIABLES head_, tail_, v_, overrun_counter_

ringVars == <<head_, tail_, v_, overrun_counter_>>

max_items_ == MaxItems + 1

Slots == 0..MaxItems

InitRing ==
  /\ head_ = 0 /\ tail_ = 0
  /\ v_ = [i \in Slots |-> Nothing]
  /\ overrun_counter_ = 0

Empty == tail_ = head_

Full == (tail_ + 1) % max_items_ = head_

(* Faulty variants of the operations, Bug<n>_..., stand before the          *)
(* operation they replace: the properties below tell them apart.           *)

(* a push that forgets to move the head on, and one at the wrong end       *)
Bug1_PushBack(x) ==
  /\ v_' = [v_ EXCEPT ![tail_] = x]
  /\ tail_' = (tail_ + 1) % max_items_
  /\ UNCHANGED <<head_, overrun_counter_>>

Bug2_PushBack(x) ==
  LET before == (head_ + MaxItems) % max_items_
  IN /\ v_' = [v_ EXCEPT ![before] = x]
     /\ head_' = before
     /\ IF before = tail_
        THEN /\ tail_' = (tail_ + MaxItems) % max_items_
             /\ overrun_counter_' = overrun_counter_ + 1
        ELSE UNCHANGED <<tail_, overrun_counter_>>

(* push_back(): the oldest item is overrun if there is no room.            *)
PushBack(x) ==
  /\ v_' = [v_ EXCEPT ![tail_] = x]
  /\ tail_' = (tail_ + 1) % max_items_
  /\ IF tail_' = head_
     THEN /\ head_' = (head_ + 1) % max_items_
          /\ overrun_counter_' = overrun_counter_ + 1
     ELSE UNCHANGED <<head_, overrun_counter_>>

(* pop_front(); the item that was moved out is left in the slot as nothing.*)
Front == v_[head_]

PopFront ==
  /\ head_' = (head_ + 1) % max_items_
  /\ v_' = [v_ EXCEPT ![head_] = Nothing]
  /\ UNCHANGED <<tail_, overrun_counter_>>

-----------------------------------------------------------------------------
(* The items between head_ and tail_, oldest first.                        *)
Size == IF head_ <= tail_ THEN tail_ - head_ ELSE tail_ + max_items_ - head_

Content == [i \in 1..Size |-> v_[(head_ + i - 1) % max_items_]]
=============================================================================
