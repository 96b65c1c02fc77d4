----------------------------- MODULE SharedQueue -----------------------------
(***************************************************************************)
(* drivers/SharedQueue.h (the same template is pasted into                 *)
(* drivers/CAN/CPP/SocketCAN.h): a deque behind a mutex and a condition    *)
(* variable.  Everything a call does while it holds mutex_ is one step;    *)
(* what it does outside the mutex is a step of its own: push_back()        *)
(* notifies only after it has unlocked, and the reference front() returns  *)
(* is read by the caller after front() has unlocked.                       *)
(*                                                                         *)
(* Producers call push_back().  Consumers call front(), copy the element   *)
(* through the returned reference, and then call pop_front(), which is how *)
(* SocketCAN::ReadFrame, the only client in the repository, reads a frame. *)
(***************************************************************************)
EXTENDS Integers, Sequences, FiniteSets

CONSTANTS
  Producers, Consumers,     \* the client threads
  Items,                    \* the values of T that are pushed
  Garbage,                  \* what the storage of a popped element may hold
  MaxPushed                 \* bound: number of elements ever pushed

ASSUME QueueAssumption ==
  /\ Producers \cap Consumers = {}
  /\ IsFiniteSet(Producers) /\ IsFiniteSet(Consumers)
  /\ Garbage \notin Items
  /\ MaxPushed \in Nat

VARIABLES
  queue_,                   \* the deque
  cond_,                    \* the threads asleep in cond_.wait()
  pc,                       \* where each thread is
  ref,                      \* ordinal of the element front() returned
  pushed,                   \* history: every element pushed, in order
  received                  \* history: what each consumer copied, in order

vars == <<queue_, cond_, pc, ref, pushed, received>>

Threads == Producers \cup Consumers

(* The number of elements pop_front() has removed since the start.         *)
popped == Len(pushed) - Len(queue_)

GoTo(t, label) == pc' = [pc EXCEPT ![t] = label]

Init ==
  /\ queue_ = <<>>
  /\ cond_ = {}
  /\ pc = [t \in Threads |-> "idle"]
  /\ ref = [c \in Consumers |-> 0]
  /\ pushed = <<>>
  /\ received = [c \in Consumers |-> <<>>]

-----------------------------------------------------------------------------
(* Faulty variants of the operations, Bug<n>_..., stand before the          *)
(* operation they replace: the properties below tell them apart.           *)

(* a push_back() that inserts at the wrong end                             *)
Bug1_PushBack(p, item) ==
  /\ pc[p] = "idle"
  /\ Len(pushed) < MaxPushed
  /\ queue_' = <<item>> \o queue_
  /\ pushed' = Append(pushed, item)
  /\ GoTo(p, "notify")
  /\ UNCHANGED <<cond_, ref, received>>

(* a push_back() that does not notify                                      *)
Bug2_PushBack(p, item) ==
  /\ pc[p] = "idle"
  /\ Len(pushed) < MaxPushed
  /\ queue_' = Append(queue_, item)
  /\ pushed' = Append(pushed, item)
  /\ UNCHANGED <<pc, cond_, ref, received>>

(* push_back(item), both overloads: append under the lock, unlock ...      *)
PushBack(p, item) ==
  /\ pc[p] = "idle"
  /\ Len(pushed) < MaxPushed
  /\ queue_' = Append(queue_, item)
  /\ pushed' = Append(pushed, item)
  /\ GoTo(p, "notify")
  /\ UNCHANGED <<cond_, ref, received>>

(* a notification only for a queue that was empty before the push          *)
Bug1_NotifyOne(p) ==
  /\ pc[p] = "notify"
  /\ \/ (cond_ = {} \/ Len(queue_) # 1) /\ UNCHANGED cond_
     \/ Len(queue_) = 1 /\ \E t \in cond_ : cond_' = cond_ \ {t}
  /\ GoTo(p, "idle")
  /\ UNCHANGED <<queue_, ref, pushed, received>>

(* ... and wake one sleeping thread, if there is any.                      *)
NotifyOne(p) ==
  /\ pc[p] = "notify"
  /\ \/ cond_ = {} /\ UNCHANGED cond_
     \/ \E t \in cond_ : cond_' = cond_ \ {t}
  /\ GoTo(p, "idle")
  /\ UNCHANGED <<queue_, ref, pushed, received>>

(* cond_.wait(mlock): release the mutex and sleep.                         *)
Wait(c) == cond_' = cond_ \cup {c}

(* a front() that returns the last element                                 *)
Bug1_Front(c) ==
  /\ pc[c] \in {"idle", "front"} /\ c \notin cond_
  /\ \/ /\ queue_ = <<>>
        /\ Wait(c)
        /\ GoTo(c, "front")
        /\ UNCHANGED ref
     \/ /\ queue_ # <<>>
        /\ ref' = [ref EXCEPT ![c] = Len(pushed)]
        /\ GoTo(c, "copy")
        /\ UNCHANGED cond_
  /\ UNCHANGED <<queue_, pushed, received>>

(* front(): called from "idle", or awake again inside its while loop.      *)
Front(c) ==
  /\ pc[c] \in {"idle", "front"} /\ c \notin cond_
  /\ \/ /\ queue_ = <<>>
        /\ Wait(c)
        /\ GoTo(c, "front")
        /\ UNCHANGED ref
     \/ /\ queue_ # <<>>
        /\ ref' = [ref EXCEPT ![c] = popped + 1]
        /\ GoTo(c, "copy")
        /\ UNCHANGED cond_
  /\ UNCHANGED <<queue_, pushed, received>>

(* The bytes behind a reference: the element while it is in the deque.      *)
(* Once it has been popped its storage may be freed or reused: undefined.   *)
Referent(r) ==
  IF r > popped THEN {queue_[r - popped]} ELSE Items \cup {Garbage}

(* The caller copies the element out of the returned reference, unlocked.  *)
Copy(c) ==
  /\ pc[c] = "copy"
  /\ \E x \in Referent(ref[c]) : received' = [received EXCEPT ![c] = Append(@, x)]
  /\ GoTo(c, "pop")
  /\ UNCHANGED <<queue_, cond_, ref, pushed>>

(* pop_front(): the same loop, then the removal.                           *)
PopFront(c) ==
  /\ pc[c] = "pop" /\ c \notin cond_
  /\ \/ /\ queue_ = <<>>
        /\ Wait(c)
        /\ UNCHANGED <<queue_, pc>>
     \/ /\ queue_ # <<>>
        /\ queue_' = Tail(queue_)
        /\ GoTo(c, "idle")
        /\ UNCHANGED cond_
  /\ UNCHANGED <<ref, pushed, received>>

(* std::condition_variable may wake a waiter that nobody notified.         *)
SpuriousWakeup(c) ==
  /\ c \in cond_
  /\ cond_' = cond_ \ {c}
  /\ UNCHANGED <<queue_, pc, ref, pushed, received>>

-----------------------------------------------------------------------------
Producer(p) == NotifyOne(p) \/ \E item \in Items : PushBack(p, item)

Consumer(c) == Front(c) \/ Copy(c) \/ PopFront(c)

Next ==
  \/ \E p \in Producers : Producer(p)
  \/ \E c \in Consumers : Consumer(c) \/ SpuriousWakeup(c)

Spec == Init /\ [][Next]_vars

(* A thread that is not asleep is scheduled, gets the mutex in the end and *)
(* finishes its call; a consumer reads for ever.  Nobody has to push, and  *)
(* no wake-up comes by itself.                                             *)
Fairness ==
  /\ \A p \in Producers : WF_vars(NotifyOne(p))
  /\ \A c \in Consumers : WF_vars(Consumer(c))

FairSpec == Spec /\ Fairness

-----------------------------------------------------------------------------
TypeOK ==
  /\ queue_ \in Seq(Items)
  /\ cond_ \subseteq Consumers
  /\ pc \in [Threads -> {"idle", "notify", "front", "copy", "pop"}]
  /\ ref \in [Consumers -> Nat]
  /\ pushed \in Seq(Items)
  /\ received \in [Consumers -> Seq(Items \cup {Garbage})]

(* The threads on their way to serve the queue: a push whose notification  *)
(* is still to come, and the consumers awake inside front() ... pop_front() *)
Active ==
  {p \in Producers : pc[p] = "notify"} \cup
  {c \in Consumers \ cond_ : pc[c] \in {"front", "copy", "pop"}}

(* No lost wake-up: elements never lie in the queue while a consumer       *)
(* sleeps and nobody is on the way to wake one or to take an element, in   *)
(* spite of the notification that comes after the unlock and of the        *)
(* notifications a waiter in front() takes without popping.                *)
NoLostWakeup == queue_ # <<>> /\ cond_ # {} => Active # {}

(* Why: while somebody sleeps, each element has a thread of its own that   *)
(* is on its way.                                                          *)
EnoughActive == cond_ # {} => Len(queue_) <= Cardinality(Active)

(* The deque is what was pushed and not yet popped.                        *)
Contents ==
  /\ Len(queue_) <= Len(pushed)
  /\ \A i \in 1..Len(queue_) : queue_[i] = pushed[popped + i]

(* A reference designates an element that was pushed at some time.         *)
RefInRange == \A c \in Consumers : pc[c] = "copy" => ref[c] \in 1..Len(pushed)

(* Only the two loops sleep, so a woken thread goes on to serve the queue. *)
Sleepers == \A c \in cond_ : pc[c] \in {"front", "pop"}

(* The inductive invariant that makes wake-ups safe: the wake-up argument  *)
(* holds in every state together with the facts its proof needs.           *)
WakeupInv == Contents /\ RefInRange /\ Sleepers /\ EnoughActive

(* Every element pushed is popped in the end, whoever the consumers are    *)
(* and whichever waiter notify_one() picks.                                *)
EveryItemPopped == \A n \in 1..MaxPushed : Len(pushed) >= n ~> popped >= n

(* With one consumer, a reference returned by front() still designates the *)
(* head of the deque when the caller copies it.                            *)
RefIsHead == \A c \in Consumers : pc[c] = "copy" => ref[c] = popped + 1

(* With one consumer: what lies in the deque while it is between front()   *)
(* and pop_front() is still there, and it has copied one element for each  *)
(* it has popped or is about to pop.                                       *)
OneReader ==
  \A c \in Consumers :
    /\ pc[c] \in {"copy", "pop"} => queue_ # <<>>
    /\ Len(received[c]) = IF pc[c] = "pop" THEN popped + 1 ELSE popped

(* With one consumer, the queue is a FIFO channel: it delivers each pushed *)
(* element once, in order, and (FairSpec) each in the end.                 *)
TheConsumer == CHOOSE c \in Consumers : TRUE

Channel == INSTANCE FrameChannel WITH
             sent <- pushed, delivered <- received[TheConsumer]

ChannelSpec == Channel!FairSpec
=============================================================================
