-------------------------- MODULE SharedQueueProofs --------------------------
(***************************************************************************)
(* Proofs about SharedQueue, for any threads, any elements and any number  *)
(* of pushes.                                                              *)
(***************************************************************************)
EXTENDS SharedQueue, FiniteSetTheorems, SequenceTheorems, TLAPS

(* Part of the inductive invariant that does not count threads.            *)
TypeInv == TypeOK /\ Contents /\ RefInRange

LEMMA InitTypeInv == Init => TypeInv
BY DEF Init, TypeInv, TypeOK, Threads, Contents, RefInRange, popped

LEMMA NextTypeInv == TypeInv /\ [Next]_vars => TypeInv'
<1> SUFFICES ASSUME TypeInv, [Next]_vars PROVE TypeInv'
  OBVIOUS
<1> USE DEF TypeInv, TypeOK, Contents, RefInRange, GoTo, Threads, popped
<1>1. ASSUME NEW p \in Producers, NEW item \in Items, PushBack(p, item)
      PROVE  TypeInv'
  <2>1. /\ queue_' \in Seq(Items) /\ pushed' \in Seq(Items)
        /\ Len(queue_') = Len(queue_) + 1 /\ Len(pushed') = Len(pushed) + 1
        /\ \A i \in 1..Len(queue_) : queue_'[i] = queue_[i]
        /\ \A i \in 1..Len(pushed) : pushed'[i] = pushed[i]
        /\ queue_'[Len(queue_) + 1] = item /\ pushed'[Len(pushed) + 1] = item
    BY <1>1, AppendProperties DEF PushBack
  <2>2. Len(queue_) \in Nat /\ Len(pushed) \in Nat
    BY LenProperties
  <2>3. TypeOK'
    BY <1>1, <2>1 DEF PushBack
  <2>4. Contents'
    <3> SUFFICES ASSUME NEW i \in 1..Len(queue_')
                 PROVE  queue_'[i] = pushed'[Len(pushed') - Len(queue_') + i]
      BY <2>1, <2>2
    <3>1. CASE i = Len(queue_) + 1
      BY <3>1, <2>1, <2>2
    <3>2. CASE i # Len(queue_) + 1
      <4>1. i \in 1..Len(queue_)
            /\ Len(pushed) - Len(queue_) + i \in 1..Len(pushed)
        BY <3>2, <2>1, <2>2
      <4>2. queue_[i] = pushed[Len(pushed) - Len(queue_) + i]
        BY <4>1
      <4>3. Len(pushed') - Len(queue_') + i = Len(pushed) - Len(queue_) + i
        BY <2>1, <2>2
      <4>4. QED
        BY <4>1, <4>2, <4>3, <2>1
    <3>3. QED
      BY <3>1, <3>2
  <2>5. RefInRange'
    BY <1>1, <2>1, <2>2 DEF PushBack
  <2>6. QED
    BY <2>3, <2>4, <2>5
<1>2. ASSUME NEW p \in Producers, NotifyOne(p)
      PROVE  TypeInv'
  BY <1>2 DEF NotifyOne
<1>3. ASSUME NEW c \in Consumers, Front(c)
      PROVE  TypeInv'
  <2>1. Len(queue_) \in Nat /\ Len(pushed) \in Nat
        /\ (queue_ # <<>> => Len(queue_) > 0)
    BY LenProperties, EmptySeq
  <2>2. CASE queue_ = <<>>
    BY <1>3, <2>2 DEF Front, Wait
  <2>3. CASE queue_ # <<>>
    <3>1. Len(pushed) - Len(queue_) + 1 \in 1..Len(pushed)
      BY <2>1, <2>3
    <3>2. /\ ref' = [ref EXCEPT ![c] = Len(pushed) - Len(queue_) + 1]
          /\ pc' = [pc EXCEPT ![c] = "copy"]
          /\ UNCHANGED <<queue_, cond_, pushed, received>>
      BY <1>3, <2>3 DEF Front
    <3>3. TypeOK'
      BY <2>1, <3>1, <3>2
    <3>4. RefInRange'
      BY <3>1, <3>2
    <3>5. QED
      BY <3>2, <3>3, <3>4
  <2>4. QED
    BY <2>2, <2>3
<1>4. ASSUME NEW c \in Consumers, Copy(c)
      PROVE  TypeInv'
  <2>1. PICK x \in Referent(ref[c]) :
          received' = [received EXCEPT ![c] = Append(@, x)]
    BY <1>4 DEF Copy
  <2>2. ref[c] \in 1..Len(pushed)
    BY <1>4 DEF Copy
  <2>3. x \in Items \cup {Garbage}
    <3>1. Len(queue_) \in Nat /\ Len(pushed) \in Nat
      BY LenProperties
    <3>2. CASE ref[c] > Len(pushed) - Len(queue_)
      <4>1. ref[c] - (Len(pushed) - Len(queue_)) \in 1..Len(queue_)
        BY <3>1, <3>2, <2>2
      <4>2. queue_[ref[c] - (Len(pushed) - Len(queue_))] \in Items
        BY <4>1, ElementOfSeq
      <4>3. QED
        BY <3>2, <4>2 DEF Referent
    <3>3. QED
      BY <3>2 DEF Referent
  <2>4. Append(received[c], x) \in Seq(Items \cup {Garbage})
    BY <2>3, AppendProperties
  <2>5. QED
    BY <1>4, <2>1, <2>4 DEF Copy
<1>5. ASSUME NEW c \in Consumers, PopFront(c)
      PROVE  TypeInv'
  <2>1. CASE queue_ = <<>>
    BY <1>5, <2>1 DEF PopFront, Wait
  <2>2. CASE queue_ # <<>>
    <3>1. /\ queue_' \in Seq(Items)
          /\ Len(queue_') = Len(queue_) - 1
          /\ \A i \in 1..Len(queue_') : queue_'[i] = queue_[i + 1]
      <4>1. queue_' = Tail(queue_)
        BY <1>5, <2>2 DEF PopFront
      <4>2. queue_ \in Seq(Items)
        OBVIOUS
      <4>3. QED
        BY <4>1, <4>2, <2>2, HeadTailProperties
    <3>2. Len(queue_) \in Nat /\ Len(pushed) \in Nat /\ Len(queue_') \in Nat
      BY <3>1, LenProperties
    <3>3. pushed' = pushed /\ ref' = ref /\ cond_' = cond_
          /\ received' = received
          /\ pc' = [pc EXCEPT ![c] = "idle"]
      BY <1>5, <2>2 DEF PopFront
    <3>4. Contents'
      <4> SUFFICES ASSUME NEW i \in 1..Len(queue_')
                   PROVE  queue_'[i] = pushed[Len(pushed) - Len(queue_') + i]
        BY <3>1, <3>2, <3>3
      <4>1. i + 1 \in 1..Len(queue_)
        BY <3>1, <3>2
      <4>2. queue_[i + 1] = pushed[Len(pushed) - Len(queue_) + (i + 1)]
        BY <4>1
      <4>3. Len(pushed) - Len(queue_) + (i + 1) = Len(pushed) - Len(queue_') + i
        BY <3>1, <3>2
      <4>4. QED
        BY <3>1, <4>2, <4>3
    <3>5. TypeOK'
      BY <3>1, <3>3
    <3>6. RefInRange'
      BY <3>3
    <3>7. QED
      BY <3>4, <3>5, <3>6
  <2>3. QED
    BY <2>1, <2>2
<1>6. ASSUME NEW c \in Consumers, SpuriousWakeup(c)
      PROVE  TypeInv'
  BY <1>6 DEF SpuriousWakeup
<1>7. CASE UNCHANGED vars
  BY <1>7 DEF vars
<1>8. QED
  BY <1>1, <1>2, <1>3, <1>4, <1>5, <1>6, <1>7
  DEF Next, Producer, Consumer

(* The variables always have their types, whatever the threads do: every   *)
(* step of push_back(), front(), pop_front() and of the condition variable *)
(* keeps them.                                                             *)
THEOREM TypeCorrect == Spec => []TypeOK
<1>1. TypeInv => TypeOK
  BY DEF TypeInv
<1>2. QED
  BY InitTypeInv, NextTypeInv, <1>1, PTL DEF Spec

-----------------------------------------------------------------------------
(* A set of threads is finite, so it can be counted.                       *)
LEMMA ThreadsFinite ==
  ASSUME NEW S \in SUBSET Threads
  PROVE  IsFiniteSet(S) /\ Cardinality(S) \in Nat
BY QueueAssumption, FS_Union, FS_Subset, FS_CardinalityType DEF Threads

LEMMA InitWakeup == Init => Sleepers /\ EnoughActive
BY DEF Init, Sleepers, EnoughActive

LEMMA NextWakeup ==
  TypeInv /\ Sleepers /\ EnoughActive /\ [Next]_vars
    => Sleepers' /\ EnoughActive'
<1> SUFFICES ASSUME TypeInv, Sleepers, EnoughActive, [Next]_vars
             PROVE  Sleepers' /\ EnoughActive'
  OBVIOUS
<1> USE DEF TypeInv, TypeOK, Sleepers, EnoughActive, GoTo, Threads
<1>a. /\ IsFiniteSet(Active) /\ Cardinality(Active) \in Nat
      /\ IsFiniteSet(Active') /\ Cardinality(Active') \in Nat
  <2>1. Active \in SUBSET Threads /\ Active' \in SUBSET Threads
    BY DEF Active
  <2>2. QED
    BY <2>1, ThreadsFinite
<1>b. Len(queue_) \in Nat
  BY LenProperties
<1>1. ASSUME NEW p \in Producers, NEW item \in Items, PushBack(p, item)
      PROVE  Sleepers' /\ EnoughActive'
  <2>1. cond_' = cond_ /\ pc[p] = "idle" /\ pc' = [pc EXCEPT ![p] = "notify"]
    BY <1>1 DEF PushBack
  <2>2. Len(queue_') = Len(queue_) + 1
    BY <1>1, AppendProperties DEF PushBack
  <2>3. Active' = Active \cup {p} /\ p \notin Active
    BY <2>1, QueueAssumption DEF Active
  <2>4. Cardinality(Active') = Cardinality(Active) + 1
    BY <2>3, <1>a, FS_AddElement
  <2>5. EnoughActive'
    BY <2>1, <2>2, <2>4, <1>a, <1>b
  <2>6. Sleepers'
    BY <2>1, QueueAssumption
  <2>7. QED
    BY <2>5, <2>6
<1>2. ASSUME NEW p \in Producers, NotifyOne(p)
      PROVE  Sleepers' /\ EnoughActive'
  <2>1. /\ pc[p] = "notify" /\ pc' = [pc EXCEPT ![p] = "idle"]
        /\ queue_' = queue_
    BY <1>2 DEF NotifyOne
  <2>2. CASE cond_ = {} /\ cond_' = cond_
    BY <2>2
  <2>3. ASSUME NEW t \in cond_, cond_' = cond_ \ {t}
        PROVE  Sleepers' /\ EnoughActive'
    <3>1. /\ t \in Consumers /\ pc[t] \in {"front", "pop"} /\ t # p
          /\ t \notin Producers /\ p \notin Consumers
      BY <2>3, QueueAssumption
    <3>2. Active' = (Active \ {p}) \cup {t}
      BY <2>1, <2>3, <3>1, QueueAssumption DEF Active
    <3>3. p \in Active /\ t \notin Active
      BY <2>1, <2>3, <3>1, QueueAssumption DEF Active
    <3>4. /\ IsFiniteSet(Active \ {p})
          /\ Cardinality(Active \ {p}) = Cardinality(Active) - 1
      BY <3>3, <1>a, FS_RemoveElement
    <3>5. Cardinality(Active') = Cardinality(Active)
      <4>1. t \notin Active \ {p}
        BY <3>3
      <4>2. Cardinality((Active \ {p}) \cup {t}) = Cardinality(Active \ {p}) + 1
        BY <3>4, <4>1, FS_AddElement
      <4>3. QED
        BY <3>2, <3>4, <4>2, <1>a
    <3>6. EnoughActive'
      BY <2>1, <3>5, <2>3
    <3>7. Sleepers'
      BY <2>1, <2>3, <3>1, QueueAssumption
    <3>8. QED
      BY <3>6, <3>7
  <2>4. QED
    BY <1>2, <2>2, <2>3 DEF NotifyOne
<1>3. ASSUME NEW c \in Consumers, Front(c)
      PROVE  Sleepers' /\ EnoughActive'
  <2>1. CASE queue_ = <<>>
    <3>1. /\ cond_' = cond_ \cup {c} /\ queue_' = <<>>
          /\ pc' = [pc EXCEPT ![c] = "front"]
      BY <1>3, <2>1 DEF Front, Wait
    <3>2. Len(queue_') = 0
      BY <3>1
    <3>3. QED
      BY <3>1, <3>2, <1>a
  <2>2. CASE queue_ # <<>>
    <3>1. /\ cond_' = cond_ /\ queue_' = queue_ /\ c \notin cond_
          /\ pc' = [pc EXCEPT ![c] = "copy"]
      BY <1>3, <2>2 DEF Front
    <3>2. Active \subseteq Active'
      BY <3>1, QueueAssumption DEF Active
    <3>3. Cardinality(Active) <= Cardinality(Active')
      BY <3>2, <1>a, FS_Subset
    <3>4. QED
      BY <3>1, <3>3, <1>a, <1>b
  <2>3. QED
    BY <2>1, <2>2
<1>4. ASSUME NEW c \in Consumers, Copy(c)
      PROVE  Sleepers' /\ EnoughActive'
  <2>1. /\ cond_' = cond_ /\ queue_' = queue_ /\ pc[c] = "copy"
        /\ pc' = [pc EXCEPT ![c] = "pop"]
    BY <1>4 DEF Copy
  <2>2. Active \subseteq Active'
    BY <2>1, QueueAssumption DEF Active
  <2>3. Cardinality(Active) <= Cardinality(Active')
    BY <2>2, <1>a, FS_Subset
  <2>4. QED
    BY <2>1, <2>3, <1>a, <1>b
<1>5. ASSUME NEW c \in Consumers, PopFront(c)
      PROVE  Sleepers' /\ EnoughActive'
  <2>1. CASE queue_ = <<>>
    <3>1. /\ cond_' = cond_ \cup {c} /\ queue_' = <<>> /\ pc' = pc
          /\ pc[c] = "pop"
      BY <1>5, <2>1 DEF PopFront, Wait
    <3>2. Len(queue_') = 0
      BY <3>1
    <3>3. QED
      BY <3>1, <3>2, <1>a
  <2>2. CASE queue_ # <<>>
    <3>1. /\ cond_' = cond_ /\ queue_' = Tail(queue_)
          /\ c \notin cond_ /\ pc[c] = "pop"
          /\ pc' = [pc EXCEPT ![c] = "idle"]
      BY <1>5, <2>2 DEF PopFront
    <3>2. queue_ \in Seq(Items)
      OBVIOUS
    <3>3. Len(queue_') = Len(queue_) - 1
      BY <3>1, <3>2, <2>2, HeadTailProperties
    <3>4. Active' = Active \ {c} /\ c \in Active
      BY <3>1, QueueAssumption DEF Active
    <3>5. Cardinality(Active') = Cardinality(Active) - 1
      BY <3>4, <1>a, FS_RemoveElement
    <3>6. EnoughActive'
      BY <3>1, <3>3, <3>5, <1>a, <1>b
    <3>7. Sleepers'
      BY <3>1
    <3>8. QED
      BY <3>6, <3>7
  <2>3. QED
    BY <2>1, <2>2
<1>6. ASSUME NEW c \in Consumers, SpuriousWakeup(c)
      PROVE  Sleepers' /\ EnoughActive'
  <2>1. /\ c \in cond_ /\ cond_' = cond_ \ {c}
        /\ queue_' = queue_ /\ pc' = pc
    BY <1>6 DEF SpuriousWakeup
  <2>2. Active \subseteq Active'
    BY <2>1 DEF Active
  <2>3. Cardinality(Active) <= Cardinality(Active')
    BY <2>2, <1>a, FS_Subset
  <2>4. QED
    BY <2>1, <2>3, <1>a, <1>b
<1>7. CASE UNCHANGED vars
  <2>1. Active' = Active
    BY <1>7 DEF vars, Active
  <2>2. QED
    BY <1>7, <2>1 DEF vars
<1>8. QED
  BY <1>1, <1>2, <1>3, <1>4, <1>5, <1>6, <1>7
  DEF Next, Producer, Consumer

(* The wake-up argument holds in every reachable state.                    *)
THEOREM WakeupInvariant == Spec => []WakeupInv
<1>1. TypeInv /\ Sleepers /\ EnoughActive => WakeupInv
  BY DEF TypeInv, WakeupInv
<1>2. QED
  BY InitTypeInv, NextTypeInv, InitWakeup, NextWakeup, <1>1, PTL DEF Spec

(* No wake-up is lost, with any number of producers and consumers: the     *)
(* notification push_back() sends after unlocking is never missed by the   *)
(* last sleeping reader while elements are waiting.                        *)
THEOREM WakeupSafe == Spec => []NoLostWakeup
<1>1. TypeInv /\ EnoughActive => NoLostWakeup
  <2> SUFFICES ASSUME TypeInv, EnoughActive, queue_ # <<>>, cond_ # {},
                      Active = {}
               PROVE  FALSE
    BY DEF NoLostWakeup
  <2>1. Len(queue_) \in Nat \ {0}
    BY EmptySeq DEF TypeInv, TypeOK
  <2>2. Cardinality(Active) = 0
    BY FS_EmptySet
  <2>3. QED
    BY <2>1, <2>2 DEF EnoughActive
<1>2. QED
  BY InitTypeInv, NextTypeInv, InitWakeup, NextWakeup, <1>1, PTL DEF Spec

-----------------------------------------------------------------------------
(* With one consumer a SharedQueue implements a FIFO channel, for any      *)
(* producers, any elements and any number of pushes.                       *)
OneConsumer == Consumers = {TheConsumer}

(* The queue's types and contents, and what only one consumer can rely on. *)
FifoInv == TypeInv /\ RefIsHead /\ OneReader

LEMMA InitFifo == OneConsumer /\ Init => FifoInv
<1> SUFFICES ASSUME OneConsumer, Init PROVE FifoInv
  OBVIOUS
<1>1. TypeInv
  BY InitTypeInv
<1>2. RefIsHead /\ OneReader
  BY DEF Init, RefIsHead, OneReader, Threads, popped
<1> QED BY <1>1, <1>2 DEF FifoInv

LEMMA NextFifo == OneConsumer /\ FifoInv /\ [Next]_vars => FifoInv'
<1> SUFFICES ASSUME OneConsumer, FifoInv, [Next]_vars
             PROVE  RefIsHead' /\ OneReader'
  BY NextTypeInv DEF FifoInv
<1> DEFINE me == TheConsumer
<1>0. /\ Consumers = {me} /\ TypeInv
      /\ pc[me] = "copy" => ref[me] = popped + 1
      /\ pc[me] \in {"copy", "pop"} => queue_ # <<>>
      /\ Len(received[me]) = IF pc[me] = "pop" THEN popped + 1 ELSE popped
  BY DEF OneConsumer, FifoInv, RefIsHead, OneReader
<1> HIDE DEF me
<1>a. /\ queue_ \in Seq(Items) /\ pushed \in Seq(Items) /\ popped \in Nat
      /\ pc \in [Threads -> {"idle", "notify", "front", "copy", "pop"}]
      /\ ref \in [Consumers -> Nat]
      /\ received \in [Consumers -> Seq(Items \cup {Garbage})]
      /\ me \in Threads
  BY <1>0 DEF TypeInv, TypeOK, Contents, popped, Threads
<1>b. ASSUME /\ pc'[me] = "copy" => ref'[me] = popped' + 1
             /\ pc'[me] \in {"copy", "pop"} => queue_' # <<>>
             /\ Len(received'[me]) = IF pc'[me] = "pop" THEN popped' + 1
                                                       ELSE popped'
      PROVE  RefIsHead' /\ OneReader'
  BY <1>0, <1>b DEF RefIsHead, OneReader, popped
<1>1. ASSUME NEW p \in Producers, NEW item \in Items, PushBack(p, item)
      PROVE  RefIsHead' /\ OneReader'
  <2>1. p # me /\ p \in Threads
    BY <1>0, QueueAssumption DEF Threads
  <2>2. pc'[me] = pc[me] /\ ref' = ref /\ received' = received
    BY <1>1, <1>a, <2>1 DEF PushBack, GoTo
  <2>3. queue_' # <<>> /\ popped' = popped
    BY <1>1, <1>a DEF PushBack, popped
  <2> QED BY <1>0, <1>b, <2>2, <2>3
<1>2. ASSUME NEW p \in Producers, NotifyOne(p) PROVE RefIsHead' /\ OneReader'
  <2>1. p # me /\ p \in Threads
    BY <1>0, QueueAssumption DEF Threads
  <2>2. /\ pc'[me] = pc[me] /\ ref' = ref /\ received' = received
        /\ queue_' = queue_ /\ popped' = popped
    BY <1>2, <1>a, <2>1 DEF NotifyOne, GoTo, popped
  <2> QED BY <1>0, <1>b, <2>2
<1>3. CASE Front(me)
  <2>1. CASE queue_ = <<>>
    <3>1. /\ pc'[me] = "front" /\ pc[me] # "pop"
          /\ queue_' = queue_ /\ popped' = popped /\ received' = received
      BY <1>3, <1>a, <2>1 DEF Front, GoTo, popped
    <3> QED BY <1>0, <1>b, <3>1
  <2>2. CASE queue_ # <<>>
    <3>1. /\ pc'[me] = "copy" /\ pc[me] # "pop" /\ ref'[me] = popped + 1
          /\ queue_' = queue_ /\ popped' = popped /\ received' = received
      BY <1>0, <1>3, <1>a, <2>2 DEF Front, GoTo, popped
    <3> QED BY <1>0, <1>b, <2>2, <3>1
  <2> QED BY <2>1, <2>2
<1>4. CASE Copy(me)
  <2>1. /\ pc[me] = "copy" /\ pc'[me] = "pop"
        /\ queue_' = queue_ /\ popped' = popped
    BY <1>4, <1>a DEF Copy, GoTo, popped
  <2>2. PICK x \in Referent(ref[me]) :
          received' = [received EXCEPT ![me] = Append(@, x)]
    BY <1>4 DEF Copy
  <2>3. x \in Items \cup {Garbage}
    BY <1>0, <1>a, <2>1 DEF Referent, popped
  <2>4. Len(received'[me]) = Len(received[me]) + 1
    BY <1>0, <1>a, <2>2, <2>3
  <2> QED BY <1>0, <1>b, <2>1, <2>4
<1>5. CASE PopFront(me)
  <2>1. pc[me] = "pop" /\ queue_ # <<>>
    BY <1>0, <1>5 DEF PopFront
  <2>2. queue_' = Tail(queue_) /\ pc'[me] = "idle" /\ received' = received
        /\ pushed' = pushed
    BY <1>5, <1>a, <2>1 DEF PopFront, GoTo
  <2>3. popped' = popped + 1
    BY <1>a, <2>1, <2>2 DEF popped
  <2> QED BY <1>0, <1>b, <2>1, <2>2, <2>3
<1>6. ASSUME NEW c \in Consumers, SpuriousWakeup(c)
      PROVE  RefIsHead' /\ OneReader'
  <2>1. UNCHANGED <<queue_, pc, ref, pushed, received>> /\ popped' = popped
    BY <1>6 DEF SpuriousWakeup, popped
  <2> QED BY <1>0, <1>b, <2>1
<1>7. CASE UNCHANGED vars
  <2>1. UNCHANGED <<queue_, pc, ref, pushed, received>> /\ popped' = popped
    BY <1>7 DEF vars, popped
  <2> QED BY <1>0, <1>b, <2>1
<1>8. \A c \in Consumers : c = me
  BY <1>0
<1> QED BY <1>1, <1>2, <1>3, <1>4, <1>5, <1>6, <1>7, <1>8
        DEF Next, Producer, Consumer

(* What the one consumer has copied is the beginning of what was pushed.   *)
InOrder ==
  /\ Len(received[TheConsumer]) <= Len(pushed)
  /\ \A i \in 1..Len(received[TheConsumer]) : received[TheConsumer][i] = pushed[i]

(* The initial state maps to that of the channel.                          *)
LEMMA InitRefines == OneConsumer /\ Init => Channel!Init
BY DEF OneConsumer, Init, Channel!Init

(* What one consumer copies is the element after those it has copied.      *)
LEMMA CopyIsNext ==
  ASSUME OneConsumer, FifoInv, Copy(TheConsumer)
  PROVE  /\ pushed' = pushed /\ Len(received[TheConsumer]) < Len(pushed)
         /\ received'[TheConsumer] =
              Append(received[TheConsumer], pushed[Len(received[TheConsumer]) + 1])
<1> DEFINE me == TheConsumer
<1>0. /\ Consumers = {me} /\ TypeInv
      /\ pc[me] = "copy" => ref[me] = popped + 1
      /\ pc[me] \in {"copy", "pop"} => queue_ # <<>>
      /\ Len(received[me]) = IF pc[me] = "pop" THEN popped + 1 ELSE popped
  BY DEF OneConsumer, FifoInv, RefIsHead, OneReader
<1>a. /\ queue_ \in Seq(Items) /\ pushed \in Seq(Items) /\ popped \in Nat
      /\ received \in [Consumers -> Seq(Items \cup {Garbage})]
      /\ \A i \in 1..Len(queue_) : queue_[i] = pushed[popped + i]
  BY <1>0 DEF TypeInv, TypeOK, Contents, popped
<1>1. pc[me] = "copy" /\ ref[me] = popped + 1 /\ pushed' = pushed
      /\ Len(received[me]) = popped
  BY <1>0 DEF Copy
<1>2. 1 \in 1..Len(queue_) /\ popped < Len(pushed)
  BY <1>0, <1>a, <1>1 DEF popped
<1>3. Referent(ref[me]) = {queue_[1]} /\ queue_[1] = pushed[popped + 1]
  BY <1>a, <1>1, <1>2 DEF Referent
<1>4. received' = [received EXCEPT ![me] = Append(@, pushed[popped + 1])]
  BY <1>3 DEF Copy
<1>5. received'[me] = Append(received[me], pushed[popped + 1])
  BY <1>0, <1>a, <1>4
<1> QED BY <1>1, <1>2, <1>5

(* Only a push and a copy change what was pushed and copied.               *)
LEMMA PushOrCopy ==
  ASSUME OneConsumer, [Next]_vars
  PROVE  \/ \E p \in Producers, item \in Items : PushBack(p, item)
         \/ Copy(TheConsumer)
         \/ UNCHANGED <<pushed, received>>
BY DEF OneConsumer, Next, Producer, Consumer, NotifyOne, Front, PopFront,
       SpuriousWakeup, vars

LEMMA InitInOrder == OneConsumer /\ Init => InOrder
<1> SUFFICES ASSUME OneConsumer, Init PROVE InOrder
  OBVIOUS
<1>1. received[TheConsumer] = <<>> /\ pushed = <<>>
  BY DEF OneConsumer, Init
<1> QED BY <1>1 DEF InOrder

LEMMA NextInOrder == OneConsumer /\ FifoInv /\ InOrder /\ [Next]_vars => InOrder'
<1> SUFFICES ASSUME OneConsumer, FifoInv, InOrder, [Next]_vars PROVE InOrder'
  OBVIOUS
<1> DEFINE got == received[TheConsumer]
<1>1. pushed \in Seq(Items) /\ got \in Seq(Items \cup {Garbage})
  BY DEF OneConsumer, FifoInv, TypeInv, TypeOK
<1>2. Len(pushed) \in Nat /\ Len(got) \in Nat
  BY <1>1, LenProperties
<1>3. Len(got) <= Len(pushed) /\ \A i \in 1..Len(got) : got[i] = pushed[i]
  BY DEF InOrder
<1>4. ASSUME NEW p \in Producers, NEW item \in Items, PushBack(p, item)
      PROVE  InOrder'
  <2>1. got' = got /\ pushed' = Append(pushed, item)
    BY <1>4 DEF PushBack
  <2>2. Len(pushed') = Len(pushed) + 1 /\ \A i \in 1..Len(pushed) : pushed'[i] = pushed[i]
    BY <1>1, <2>1, AppendProperties
  <2> HIDE DEF got
  <2>3. Len(got') <= Len(pushed') /\ \A i \in 1..Len(got') : got'[i] = pushed'[i]
    BY <1>2, <1>3, <2>1, <2>2
  <2> QED BY <2>3 DEF InOrder, got
<1>5. CASE Copy(TheConsumer)
  <2>1. /\ pushed' = pushed /\ Len(got) < Len(pushed)
        /\ got' = Append(got, pushed[Len(got) + 1])
    BY <1>5, CopyIsNext
  <2>2. pushed[Len(got) + 1] \in Items \cup {Garbage}
    BY <1>1, <1>2, <2>1, ElementOfSeq
  <2> HIDE DEF got
  <2>3. /\ Len(got') = Len(got) + 1 /\ got'[Len(got) + 1] = pushed[Len(got) + 1]
        /\ \A i \in 1..Len(got) : got'[i] = got[i]
    BY <1>1, <2>1, <2>2, AppendProperties
  <2>4. Len(got') <= Len(pushed') /\ \A i \in 1..Len(got') : got'[i] = pushed'[i]
    <3>1. Len(got') <= Len(pushed')
      BY <1>2, <2>1, <2>3
    <3>2. \A i \in 1..Len(got') : i \in 1..Len(got) \/ i = Len(got) + 1
      BY <1>2, <2>3
    <3> QED BY <1>3, <2>1, <2>3, <3>1, <3>2
  <2> QED BY <2>4 DEF InOrder, got
<1>6. CASE UNCHANGED <<pushed, received>>
  BY <1>6 DEF InOrder
<1> QED BY <1>4, <1>5, <1>6, PushOrCopy

(* Copying the head is the delivery, a push is the sending, and every      *)
(* other step leaves the channel alone.                                    *)
LEMMA StepRefines ==
  OneConsumer /\ FifoInv /\ [Next]_vars => [Channel!Next]_(Channel!vars)
<1> SUFFICES ASSUME OneConsumer, FifoInv, [Next]_vars
             PROVE  [Channel!Next]_(Channel!vars)
  OBVIOUS
<1>1. ASSUME NEW p \in Producers, NEW item \in Items, PushBack(p, item)
      PROVE  Channel!Send(item)
  BY <1>1 DEF PushBack, Channel!Send
<1>2. CASE Copy(TheConsumer)
  <2>1. Channel!Deliver
    BY <1>2, CopyIsNext DEF Channel!Deliver
  <2> QED BY <2>1 DEF Channel!Next
<1>3. ASSUME UNCHANGED <<pushed, received>> PROVE UNCHANGED Channel!vars
  BY <1>3 DEF Channel!vars
<1> QED BY <1>1, <1>2, <1>3, PushOrCopy DEF Channel!Next

(* RefIsHead: the reference front() returned still designates the head of  *)
(* the deque when the one consumer copies it.                              *)
THEOREM RefIsHeadSafe == OneConsumer => (Spec => []RefIsHead)
<1> SUFFICES ASSUME OneConsumer PROVE Spec => []RefIsHead
  OBVIOUS
<1>1. Init => FifoInv
  BY InitFifo
<1>2. FifoInv /\ [Next]_vars => FifoInv'
  BY NextFifo
<1>3. FifoInv => RefIsHead
  BY DEF FifoInv
<1> QED BY <1>1, <1>2, <1>3, PTL DEF Spec

(* OneReader: what the one consumer found in the deque is still there, and *)
(* it copies one element for each that it pops.                            *)
THEOREM OneReaderSafe == OneConsumer => (Spec => []OneReader)
<1> SUFFICES ASSUME OneConsumer PROVE Spec => []OneReader
  OBVIOUS
<1>1. Init => FifoInv
  BY InitFifo
<1>2. FifoInv /\ [Next]_vars => FifoInv'
  BY NextFifo
<1>3. FifoInv => OneReader
  BY DEF FifoInv
<1> QED BY <1>1, <1>2, <1>3, PTL DEF Spec

(* The safety part of ChannelSpec: with one consumer every element pushed  *)
(* is read once, whole and in order.                                       *)
THEOREM Refinement == OneConsumer => (Spec => Channel!Spec)
<1> SUFFICES ASSUME OneConsumer PROVE Spec => Channel!Spec
  OBVIOUS
<1>1. Init => FifoInv /\ Channel!Init
  BY InitFifo, InitRefines
<1>2. FifoInv /\ [Next]_vars => FifoInv'
  BY NextFifo
<1>3. FifoInv /\ [Next]_vars => [Channel!Next]_(Channel!vars)
  BY StepRefines
<1> QED BY <1>1, <1>2, <1>3, PTL DEF Spec, Channel!Spec
=============================================================================
