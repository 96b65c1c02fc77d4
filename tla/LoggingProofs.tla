---------------------------- MODULE LoggingProofs -----------------------------
(***************************************************************************)
(* spdlog, for any number of items, threads, calls, files, sizes and       *)
(* times.  First the asynchronous loggers: the ring is a bounded queue,    *)
(* and, whatever the policies and whoever destroys the pool, every message *)
(* queued is accounted for when its threads are gone, and one thread       *)
(* handles them in order.  Then the sinks: the rotating file, through      *)
(* failures, crashes and restarts, and the daily file.                     *)
(***************************************************************************)
EXTENDS AsyncLog, RotatingFile, DailyFile, FiniteSetTheorems, SequenceTheorems, TLAPS

-----------------------------------------------------------------------------
(* The ring.  The slot of the i-th item, for a ring that wraps once.       *)
NextSlot(i) == IF i = MaxItems THEN 0 ELSE i + 1

Slot(h, i) == IF h + i - 1 <= MaxItems THEN h + i - 1 ELSE h + i - 1 - max_items_

LEMMA AppendIs ==
  ASSUME NEW S, NEW s \in Seq(S), NEW t \in Seq(S), NEW x \in S,
         Len(t) = Len(s) + 1,
         \A i \in 1..Len(t) : t[i] = IF i = Len(t) THEN x ELSE s[i]
  PROVE  t = Append(s, x)
<1>1. /\ Append(s, x) \in Seq(S) /\ Len(Append(s, x)) = Len(s) + 1
      /\ \A i \in 1..(Len(s) + 1) : Append(s, x)[i] = IF i = Len(s) + 1 THEN x ELSE s[i]
  BY LenProperties
<1> QED BY <1>1, SeqEqual

LEMMA Wrap ==
  ASSUME NEW i \in 0..(2 * MaxItems + 1)
  PROVE  i % max_items_ = IF i <= MaxItems THEN i ELSE i - max_items_
<1> DEFINE m == max_items_  r == i % m  q == i \div m
<1>1. m \in Nat \ {0} /\ m = MaxItems + 1 /\ i \in Nat /\ i < m + m /\ MaxItems \in Nat
  BY RingAssumption DEF max_items_
<1> HIDE DEF m
<1>2. r \in 0..(m - 1) /\ q \in Nat /\ i = m * q + r
  BY <1>1
<1> HIDE DEF r, q
<1>3. CASE q = 0
  BY <1>1, <1>2, <1>3 DEF m, r
<1>4. CASE q = 1
  BY <1>1, <1>2, <1>4 DEF m, r
<1>5. ASSUME q >= 2 PROVE FALSE
  <2>1. m * 2 <= m * q
    BY <1>1, <1>2, <1>5
  <2> QED BY <1>1, <1>2, <2>1
<1> QED BY <1>2, <1>3, <1>4, <1>5

RingOK ==
  /\ head_ \in Slots /\ tail_ \in Slots
  /\ DOMAIN v_ = Slots /\ overrun_counter_ \in Nat
  /\ \A i \in 1..Size : v_[Slot(head_, i)] \in Messages

LEMMA Steps ==
  ASSUME NEW i \in Slots
  PROVE  (i + 1) % max_items_ = NextSlot(i) /\ NextSlot(i) \in Slots
<1>1. MaxItems \in Nat /\ i \in 0..MaxItems /\ i + 1 \in 0..(2 * MaxItems + 1)
  BY RingAssumption DEF Slots
<1> QED BY <1>1, Wrap DEF NextSlot, max_items_, Slots

ContentAsSlots ==
  /\ Size \in 0..MaxItems /\ Content \in Seq(Messages) /\ Len(Content) = Size
  /\ \A i \in 1..Size : Content[i] = v_[Slot(head_, i)]

LEMMA ContentIs == RingOK => ContentAsSlots
<1> SUFFICES ASSUME RingOK PROVE ContentAsSlots
  OBVIOUS
<1>1. MaxItems \in Nat /\ head_ \in 0..MaxItems /\ tail_ \in 0..MaxItems
  BY RingAssumption DEF RingOK, Slots
<1>2. Size \in 0..MaxItems
  BY <1>1 DEF Size, max_items_
<1>3. \A i \in 1..Size : (head_ + i - 1) % max_items_ = Slot(head_, i)
  <2>1. SUFFICES ASSUME NEW i \in 1..Size PROVE (head_ + i - 1) % max_items_ = Slot(head_, i)
    OBVIOUS
  <2> DEFINE j == head_ + i - 1
  <2>2. j \in 0..(2 * MaxItems + 1)
    BY <1>1, <1>2
  <2> HIDE DEF j
  <2>3. j % max_items_ = IF j <= MaxItems THEN j ELSE j - max_items_
    BY <2>2, Wrap
  <2>4. Slot(head_, i) = IF j <= MaxItems THEN j ELSE j - max_items_
    BY <1>1, <1>2 DEF Slot, j, max_items_
  <2> QED BY <2>3, <2>4 DEF j
<1>4. Content = [i \in 1..Size |-> v_[Slot(head_, i)]]
  BY <1>3 DEF Content
<1>5. Content \in [1..Size -> Messages]
  BY <1>4 DEF RingOK
<1>6. Content \in Seq(Messages)
  BY <1>2, <1>5, SeqDef
<1>7. Len(Content) = Size
  <2>1. DOMAIN Content = 1..Len(Content) /\ Len(Content) \in Nat
    BY <1>6, LenProperties
  <2>2. DOMAIN Content = 1..Size
    BY <1>4
  <2>3. Size \in Nat
    BY <1>2
  <2>4. ASSUME NEW m \in Nat, NEW n \in Nat, 1..m = 1..n PROVE m = n
    <3>1. m >= 1 => m \in 1..n
      BY <2>4
    <3>2. n >= 1 => n \in 1..m
      BY <2>4
    <3> QED BY <3>1, <3>2
  <2> QED BY <2>1, <2>2, <2>3, <2>4
<1> QED BY <1>2, <1>4, <1>6, <1>7 DEF ContentAsSlots

LEMMA ContentNext == RingOK' => ContentAsSlots'
  BY ContentIs, PTL

-----------------------------------------------------------------------------
(* PushBack() is Push, also where a full ring loses its oldest item.       *)
LEMMA PushBackPushes ==
  ASSUME RingOK, NEW x \in Messages, PushBack(x)
  PROVE  RingOK' /\ Ring!Push(x)
<1>1. MaxItems \in Nat \ {0} /\ head_ \in 0..MaxItems /\ tail_ \in 0..MaxItems
  BY RingAssumption DEF RingOK, Slots
<1>2. /\ tail_' = NextSlot(tail_) /\ v_' = [v_ EXCEPT ![tail_] = x]
      /\ IF NextSlot(tail_) = head_
         THEN head_' = NextSlot(head_) /\ overrun_counter_' = overrun_counter_ + 1
         ELSE UNCHANGED <<head_, overrun_counter_>>
      /\ NextSlot(tail_) \in Slots /\ NextSlot(head_) \in Slots
  BY Steps DEF PushBack, RingOK
<1>3. /\ v_'[tail_] = x /\ DOMAIN v_' = Slots
      /\ \A s \in Slots \ {tail_} : v_'[s] = v_[s]
  BY <1>2 DEF RingOK
<1>4. Size \in 0..MaxItems
  BY <1>1 DEF Size, max_items_
<1>5. \A i \in 1..Size : Slot(head_, i) \in Slots \ {tail_}
  BY <1>1 DEF Size, max_items_, Slot, Slots
<1>6. CASE NextSlot(tail_) # head_
  <2>1. /\ Size' = Size + 1 /\ head_' = head_ /\ overrun_counter_' = overrun_counter_
        /\ Slot(head_, Size + 1) = tail_
    BY <1>1, <1>2, <1>6 DEF Size, max_items_, Slot, NextSlot
  <2>2. \A i \in 1..(Size + 1) :
          v_'[Slot(head_, i)] = IF i = Size + 1 THEN x ELSE v_[Slot(head_, i)]
    BY <1>3, <1>4, <1>5, <2>1
  <2>3. RingOK'
    <3>1. \A i \in 1..Size' : v_'[Slot(head_', i)] \in Messages
      BY <1>4, <2>1, <2>2 DEF RingOK
    <3> QED BY <1>2, <1>3, <2>1, <3>1 DEF RingOK
  <2>4. ContentAsSlots /\ ContentAsSlots'
    BY <2>3, ContentIs, ContentNext
  <2>5. Len(Content) # MaxItems
    BY <1>1, <1>6, <2>4 DEF ContentAsSlots, Size, max_items_, NextSlot
  <2>7. overrun_counter_' = overrun_counter_ + Len(Content) - Len(Content)
    BY <1>4, <2>1, <2>4 DEF ContentAsSlots, RingOK
  <2>6. Content' = Append(Content, x)
    <3>1. /\ Content \in Seq(Messages) /\ Len(Content) = Size
          /\ Content' \in Seq(Messages) /\ Len(Content') = Size + 1
      BY <2>1, <2>4 DEF ContentAsSlots
    <3>2. \A i \in 1..(Size + 1) : Content'[i] = IF i = Size + 1 THEN x ELSE Content[i]
      BY <1>4, <2>1, <2>2, <2>4 DEF ContentAsSlots
    <3> QED BY <3>1, <3>2, AppendIs
  <2> QED BY <2>3, <2>5, <2>6, <2>7 DEF Ring!Push
<1>7. CASE NextSlot(tail_) = head_
  <2>1. /\ Size = MaxItems /\ Size' = MaxItems /\ head_' = NextSlot(head_)
        /\ Slot(head_', MaxItems) = tail_
        /\ \A i \in 1..(MaxItems - 1) : Slot(head_', i) = Slot(head_, i + 1)
    BY <1>1, <1>2, <1>7 DEF Size, max_items_, Slot, NextSlot
  <2>2. \A i \in 1..MaxItems :
          v_'[Slot(head_', i)] = IF i = MaxItems THEN x ELSE v_[Slot(head_, i + 1)]
    BY <1>1, <1>3, <1>5, <2>1
  <2>3. RingOK'
    <3>1. \A i \in 1..Size' : v_'[Slot(head_', i)] \in Messages
      BY <1>1, <2>1, <2>2 DEF RingOK
    <3>2. overrun_counter_' \in Nat
      BY <1>2, <1>7 DEF RingOK
    <3> QED BY <1>2, <1>3, <2>1, <3>1, <3>2 DEF RingOK
  <2>4. ContentAsSlots /\ ContentAsSlots'
    BY <2>3, ContentIs, ContentNext
  <2>5. /\ Content \in Seq(Messages) /\ Len(Content) = MaxItems
        /\ Content' \in Seq(Messages) /\ Len(Content') = MaxItems
    BY <2>1, <2>4 DEF ContentAsSlots
  <2>6. /\ Tail(Content) \in Seq(Messages) /\ Len(Tail(Content)) = MaxItems - 1
        /\ \A i \in 1..(MaxItems - 1) : Tail(Content)[i] = Content[i + 1]
    <3>1. Content # <<>>
      BY <1>1, <2>5, EmptySeq
    <3> QED BY <2>5, <3>1, HeadTailProperties
  <2>7. Content' = Append(Tail(Content), x)
    <3>1. \A i \in 1..MaxItems :
            Content'[i] = IF i = MaxItems THEN x ELSE Tail(Content)[i]
      BY <1>1, <2>1, <2>2, <2>4, <2>6 DEF ContentAsSlots
    <3> QED BY <1>1, <2>5, <2>6, <3>1, AppendIs
  <2>8. overrun_counter_' = overrun_counter_ + Len(Content) - Len(Tail(Content))
    BY <1>1, <1>2, <1>7, <2>5, <2>6 DEF RingOK
  <2> QED BY <2>3, <2>5, <2>7, <2>8 DEF Ring!Push
<1> QED BY <1>6, <1>7

(* PopFront() is Pop.                                                      *)
LEMMA PopFrontPops ==
  ASSUME RingOK, ~Empty, PopFront
  PROVE  RingOK' /\ Ring!Pop /\ Front \in Messages
<1>1. MaxItems \in Nat \ {0} /\ head_ \in 0..MaxItems /\ tail_ \in 0..MaxItems
  BY RingAssumption DEF RingOK, Slots
<1>2. /\ head_' = NextSlot(head_) /\ v_' = [v_ EXCEPT ![head_] = Nothing]
      /\ UNCHANGED <<tail_, overrun_counter_>> /\ NextSlot(head_) \in Slots
      /\ head_ # tail_
  BY Steps DEF PopFront, RingOK, Empty
<1>3. /\ DOMAIN v_' = Slots
      /\ \A s \in Slots \ {head_} : v_'[s] = v_[s]
  BY <1>2 DEF RingOK
<1>4. /\ Size \in 1..MaxItems /\ Size' = Size - 1 /\ Slot(head_, 1) = head_
      /\ \A i \in 1..(Size - 1) : Slot(head_', i) = Slot(head_, i + 1)
      /\ \A i \in 2..Size : Slot(head_, i) \in Slots \ {head_}
  BY <1>1, <1>2 DEF Size, max_items_, Slot, Slots, NextSlot
<1>5. \A i \in 1..(Size - 1) : v_'[Slot(head_', i)] = v_[Slot(head_, i + 1)]
  BY <1>3, <1>4
<1>6. RingOK'
  <2>1. \A i \in 1..Size' : v_'[Slot(head_', i)] \in Messages
    BY <1>4, <1>5 DEF RingOK
  <2> QED BY <1>2, <1>3, <2>1 DEF RingOK
<1>7. ContentAsSlots /\ ContentAsSlots'
  BY <1>6, ContentIs, ContentNext
<1>8. /\ Content \in Seq(Messages) /\ Len(Content) = Size
      /\ Content' \in Seq(Messages) /\ Len(Content') = Size - 1
  BY <1>4, <1>7 DEF ContentAsSlots
<1>9. Content # <<>>
  BY <1>4, <1>8, EmptySeq
<1>10. /\ Tail(Content) \in Seq(Messages) /\ Len(Tail(Content)) = Size - 1
       /\ \A i \in 1..(Size - 1) : Tail(Content)[i] = Content[i + 1]
  BY <1>8, <1>9, HeadTailProperties
<1>11. Content' = Tail(Content)
  <2>1. \A i \in 1..(Size - 1) : Content'[i] = Tail(Content)[i]
    BY <1>4, <1>5, <1>7, <1>10 DEF ContentAsSlots
  <2> QED BY <1>8, <1>10, <2>1, SeqEqual
<1>12. Front \in Messages
  BY <1>4 DEF Front, RingOK
<1> QED BY <1>2, <1>6, <1>9, <1>11, <1>12 DEF Ring!Pop

(* The empty ring is the empty queue.                                      *)
LEMMA RingStarts == InitRing => RingOK /\ Ring!Init
<1> SUFFICES ASSUME InitRing PROVE RingOK /\ Ring!Init
  OBVIOUS
<1>1. Size = 0
  BY DEF InitRing, Size
<1>2. RingOK
  BY <1>1, RingAssumption DEF InitRing, RingOK, Slots
<1>3. Content \in Seq(Messages) /\ Len(Content) = 0
  BY <1>1, <1>2, ContentIs DEF ContentAsSlots
<1>4. Content = <<>>
  BY <1>3, EmptySeq
<1> QED BY <1>2, <1>4 DEF InitRing, Ring!Init

LEMMA RingStays ==
  ASSUME UNCHANGED ringVars
  PROVE  UNCHANGED <<Content, overrun_counter_>> /\ (RingOK => RingOK')
BY DEF ringVars, Content, Size, RingOK, Slot

-----------------------------------------------------------------------------
(* The loggers.  What is posted is a message, and a client that posts one  *)
(* has taken it from its calls.                                            *)
Places == {"idle", "post", "asleep", "notify", "join", "next", "done", "gone",
           "deactivate", "join flusher"}

AsyncTypes ==
  /\ setting \in Settings
  /\ pc \in [Posters -> Places]
  /\ item \in [Posters -> Messages \cup {Nothing}]
  /\ calls \in [Clients -> Nat] /\ accepted \in [Clients -> Nat]
  /\ toFlush \subseteq Clients

Within == \A c \in Clients : accepted[c] + calls[c] <= MaxCalls

Posting ==
  \A t \in Posters : pc[t] \in {"post", "asleep", "notify"} =>
    /\ item[t] \in Messages
    /\ item[t].type = "log" => t \in Clients /\ item[t].by = t
    /\ item[t].type = "log" /\ pc[t] # "notify" => accepted[t] + calls[t] < MaxCalls

AsyncInv == RingOK /\ AsyncTypes /\ Within /\ Posting

LEMMA Typing ==
  /\ MaxCalls \in Nat /\ Clients \subseteq Posters /\ Main \in Posters /\ Flusher \in Posters
  /\ Main \notin Clients /\ Flusher \notin Clients /\ Main # Flusher
  /\ TerminateMsg \in Messages /\ TerminateMsg.type # "log"
BY AsyncAssumption DEF Posters, TerminateMsg, Messages, Main, Flusher

LEMMA AsyncInit == InitAsync => AsyncInv
<1> SUFFICES ASSUME InitAsync PROVE AsyncInv
  OBVIOUS
<1>1. RingOK
  BY RingStarts DEF InitAsync
<1>2. setting.calls \in [Clients -> 0..MaxCalls]
  BY AsyncAssumption DEF InitAsync
<1>3. AsyncTypes /\ Within /\ Posting
  BY <1>2, Typing DEF InitAsync, AsyncTypes, Places, Within, Posting
<1> QED BY <1>1, <1>3 DEF AsyncInv

(* One thread goes on, with a message to post.                             *)
LEMMA GoesOn ==
  ASSUME AsyncTypes, Within, Posting,
         NEW t \in Posters, NEW p \in Places, NEW m \in Messages \cup {Nothing},
         pc' = [pc EXCEPT ![t] = p], item' = [item EXCEPT ![t] = m],
         UNCHANGED <<setting, accepted>>, toFlush' \subseteq Clients,
         calls' \in [Clients -> Nat], \A c \in Clients : calls'[c] <= calls[c],
         p \in {"post", "asleep", "notify"} =>
           /\ m \in Messages
           /\ m.type = "log" => t \in Clients /\ m.by = t
           /\ m.type = "log" /\ p # "notify" => accepted[t] + calls'[t] < MaxCalls
  PROVE  AsyncTypes' /\ Within' /\ Posting'
<1>1. AsyncTypes'
  BY DEF AsyncTypes
<1>2. MaxCalls \in Nat /\ \A c \in Clients : accepted[c] \in Nat /\ calls[c] \in Nat
                                              /\ calls'[c] \in Nat /\ accepted'[c] = accepted[c]
  BY Typing DEF AsyncTypes
<1>3. Within'
  BY <1>2 DEF Within
<1>4. /\ pc'[t] = p /\ item'[t] = m
      /\ \A v \in Posters \ {t} : pc'[v] = pc[v] /\ item'[v] = item[v]
  BY DEF AsyncTypes
<1>5. ASSUME NEW v \in Posters, pc'[v] \in {"post", "asleep", "notify"}
      PROVE  /\ item'[v] \in Messages
             /\ item'[v].type = "log" => v \in Clients /\ item'[v].by = v
             /\ item'[v].type = "log" /\ pc'[v] # "notify" =>
                  accepted'[v] + calls'[v] < MaxCalls
  <2>1. CASE v = t
    BY <1>4, <1>5, <2>1
  <2>2. CASE v # t
    <3>1. pc'[v] = pc[v] /\ item'[v] = item[v]
      BY <1>4, <2>2
    <3>2. item[v].type = "log" /\ pc[v] # "notify" =>
            v \in Clients /\ accepted[v] + calls[v] < MaxCalls
      BY <1>5, <3>1 DEF Posting
    <3>3. v \in Clients /\ accepted[v] + calls[v] < MaxCalls =>
            accepted'[v] + calls'[v] < MaxCalls
      BY <1>2
    <3> QED BY <1>5, <3>1, <3>2, <3>3 DEF Posting
  <2> QED BY <2>1, <2>2
<1>6. Posting'
  BY <1>5 DEF Posting
<1> QED BY <1>1, <1>3, <1>6

LEMMA SameCalls ==
  ASSUME AsyncTypes, UNCHANGED calls
  PROVE  calls' \in [Clients -> Nat] /\ \A c \in Clients : calls'[c] <= calls[c]
BY DEF AsyncTypes

(* Whoever ends a post is idle, or posts a terminate message.              *)
LEMMA ReleasesPosts ==
  ASSUME AsyncInv, NEW t \in Posters, NEW who, Releases(t, who),
         UNCHANGED <<ringVars, setting, calls, accepted, toFlush>>
  PROVE  AsyncInv'
<1> USE DEF AsyncInv
<1>1. /\ RingOK'
      /\ Returns(t) \in {"next", "done", "idle"}
  BY RingStays DEF Returns
<1>2. \E p \in {"next", "done", "idle", "post"}, m \in {TerminateMsg, Nothing} :
        /\ pc' = [pc EXCEPT ![t] = p] /\ item' = [item EXCEPT ![t] = m]
        /\ p = "post" => m = TerminateMsg
  BY <1>1 DEF Releases
<1>3. PICK p \in {"next", "done", "idle", "post"}, m \in {TerminateMsg, Nothing} :
        /\ pc' = [pc EXCEPT ![t] = p] /\ item' = [item EXCEPT ![t] = m]
        /\ p = "post" => m = TerminateMsg
  BY <1>2
<1>4. p \in Places /\ m \in Messages \cup {Nothing}
  BY Typing DEF Places
<1>5. /\ toFlush' \subseteq Clients /\ calls' \in [Clients -> Nat]
      /\ \A c \in Clients : calls'[c] <= calls[c]
  BY SameCalls DEF AsyncTypes
<1>6. p \in {"post", "asleep", "notify"} => m \in Messages /\ m.type # "log"
  BY <1>3, Typing
<1>7. AsyncTypes' /\ Within' /\ Posting'
  BY <1>3, <1>4, <1>5, <1>6, GoesOn
<1> QED BY <1>1, <1>7

LEMMA AsyncStep ==
  AsyncInv /\ [AsyncNext]_asyncVars => AsyncInv' /\ [Ring!Next]_<<Content, overrun_counter_>>
<1> SUFFICES ASSUME AsyncInv, [AsyncNext]_asyncVars
             PROVE  AsyncInv' /\ [Ring!Next]_<<Content, overrun_counter_>>
  OBVIOUS
<1> USE Typing DEF AsyncInv, threadVars, workerVars, flusherVars, historyVars
<1>0. ASSUME UNCHANGED ringVars
      PROVE  RingOK' /\ [Ring!Next]_<<Content, overrun_counter_>>
  BY <1>0, RingStays
<1>1. ASSUME NEW t \in Posters, Enqueue(t)
      PROVE  AsyncInv' /\ [Ring!Next]_<<Content, overrun_counter_>>
  <2>1. CASE UNCHANGED ringVars /\ pc' = [pc EXCEPT ![t] = "asleep"] /\ UNCHANGED accepted
    BY <1>0, <1>1, <2>1 DEF Enqueue, AsyncTypes, Places, Within, Posting
  <2>2. CASE /\ pc' = [pc EXCEPT ![t] = "notify"]
             /\ PushBack(item[t])
             /\ accepted' = IF item[t].type = "log"
                            THEN [accepted EXCEPT ![item[t].by] = @ + 1] ELSE accepted
    <3>1. /\ item[t] \in Messages /\ pc[t] = "post"
          /\ UNCHANGED <<setting, item, calls, toFlush>>
      BY <1>1 DEF Enqueue, Posting
    <3>2. RingOK' /\ Ring!Next
      BY <2>2, <3>1, PushBackPushes DEF Ring!Next
    <3>3. AsyncTypes' /\ Within' /\ Posting'
      <4>1. CASE item[t].type = "log"
        <5>1. /\ t \in Clients /\ accepted' = [accepted EXCEPT ![t] = @ + 1]
              /\ accepted[t] + calls[t] < MaxCalls
          BY <2>2, <3>1, <4>1 DEF Posting
        <5>2. AsyncTypes'
          <6>1. pc' \in [Posters -> Places]
            BY <2>2 DEF AsyncTypes, Places
          <6>2. accepted' \in [Clients -> Nat]
            BY <5>1 DEF AsyncTypes
          <6> QED BY <3>1, <6>1, <6>2 DEF AsyncTypes
        <5>4. /\ MaxCalls \in Nat /\ calls' = calls
              /\ \A c \in Clients : accepted[c] \in Nat /\ calls[c] \in Nat
              /\ \A c \in Clients : accepted'[c] = IF c = t THEN accepted[c] + 1 ELSE accepted[c]
          BY <3>1, <5>1 DEF AsyncTypes
        <5>5. Within'
          BY <5>1, <5>4 DEF Within
        <5>3. Posting'
          BY <2>2, <3>1, <5>1 DEF AsyncTypes, Posting
        <5> QED BY <5>2, <5>3, <5>5
      <4>2. CASE item[t].type # "log"
        BY <2>2, <3>1, <4>2 DEF AsyncTypes, Places, Within, Posting
      <4> QED BY <4>1, <4>2
    <3> QED BY <3>2, <3>3
  <2> QED BY <1>1, <2>1, <2>2 DEF Enqueue
<1>2. ASSUME NEW t \in Posters, Posted(t)
      PROVE  AsyncInv' /\ [Ring!Next]_<<Content, overrun_counter_>>
  BY <1>0, <1>2, ReleasesPosts DEF Posted
<1>3. ASSUME NEW t \in Posters, PostedTerminate(t)
      PROVE  AsyncInv' /\ [Ring!Next]_<<Content, overrun_counter_>>
  BY <1>0, <1>3 DEF PostedTerminate, AsyncTypes, Places, Within, Posting
<1>4. ASSUME NEW t \in Posters, Join(t)
      PROVE  AsyncInv' /\ [Ring!Next]_<<Content, overrun_counter_>>
  BY <1>0, <1>4 DEF Join, Returns, AsyncTypes, Places, Within, Posting
<1>5. ASSUME NEW t \in Posters, SpuriousWakeup(t)
      PROVE  AsyncInv' /\ [Ring!Next]_<<Content, overrun_counter_>>
  BY <1>0, <1>5 DEF SpuriousWakeup, AsyncTypes, Places, Within, Posting
<1>6. ASSUME NEW c \in Clients, Log(c)
      PROVE  AsyncInv' /\ [Ring!Next]_<<Content, overrun_counter_>>
  <2>1. /\ UNCHANGED <<ringVars, setting, accepted, toFlush>>
        /\ calls[c] > 0 /\ calls' = [calls EXCEPT ![c] = @ - 1]
    BY <1>6 DEF Log
  <2>2. /\ c \in Posters /\ accepted[c] \in Nat /\ calls[c] \in Nat
        /\ accepted[c] + calls[c] <= MaxCalls
    BY DEF AsyncTypes, Within
  <2>3. /\ LogMsg(c, accepted[c] + 1) \in Messages
        /\ LogMsg(c, accepted[c] + 1).type = "log" /\ LogMsg(c, accepted[c] + 1).by = c
    BY <2>1, <2>2 DEF LogMsg, Messages
  <2>6. /\ toFlush' \subseteq Clients /\ calls' \in [Clients -> Nat]
        /\ calls'[c] = calls[c] - 1 /\ \A v \in Clients : calls'[v] <= calls[v]
    BY <2>1 DEF AsyncTypes
  <2>4. CASE UNCHANGED <<pc, item>>
    <3>1. /\ pc' = [pc EXCEPT ![c] = pc[c]] /\ item' = [item EXCEPT ![c] = item[c]]
          /\ pc[c] \in Places /\ item[c] \in Messages \cup {Nothing} /\ pc[c] = "idle"
      BY <1>6, <2>2, <2>4 DEF Log, AsyncTypes
    <3>2. AsyncTypes' /\ Within' /\ Posting'
      BY <2>1, <2>2, <2>6, <3>1, GoesOn
    <3> QED BY <1>0, <2>1, <3>2
  <2>5. CASE /\ item' = [item EXCEPT ![c] = LogMsg(c, accepted[c] + 1)]
             /\ pc' = [pc EXCEPT ![c] = "post"]
    <3>1. accepted[c] + calls'[c] < MaxCalls
      BY <2>2, <2>6
    <3>2. AsyncTypes' /\ Within' /\ Posting'
      BY <2>1, <2>2, <2>3, <2>5, <2>6, <3>1, GoesOn DEF Places
    <3> QED BY <1>0, <2>1, <3>2
  <2> QED BY <1>6, <2>4, <2>5 DEF Log
<1>7. ASSUME NEW w \in pool, Dequeue(w)
      PROVE  AsyncInv' /\ [Ring!Next]_<<Content, overrun_counter_>>
  <2>1. UNCHANGED <<setting, pc, item, calls, accepted, toFlush>>
    BY <1>7 DEF Dequeue
  <2>2. RingOK' /\ [Ring!Next]_<<Content, overrun_counter_>>
    BY <1>0, <1>7, PopFrontPops DEF Dequeue, Ring!Next
  <2> QED BY <2>1, <2>2 DEF AsyncTypes, Places, Within, Posting
<1>8. ASSUME NEW w \in pool, NotifyPop(w)
      PROVE  AsyncInv' /\ [Ring!Next]_<<Content, overrun_counter_>>
  <2>1. /\ UNCHANGED <<ringVars, setting, item, calls, accepted, toFlush>>
        /\ \/ UNCHANGED pc
           \/ \E t \in Posters : pc[t] = "asleep" /\ pc' = [pc EXCEPT ![t] = "post"]
    BY <1>8 DEF NotifyPop
  <2> QED BY <1>0, <2>1 DEF AsyncTypes, Places, Within, Posting
<1>9. ASSUME NEW w \in pool, Process(w) \/ Timeout(w)
      PROVE  AsyncInv' /\ [Ring!Next]_<<Content, overrun_counter_>>
  <2>1. UNCHANGED <<ringVars, setting, pc, item, calls, accepted, toFlush>>
    BY <1>9 DEF Process, Timeout
  <2> QED BY <1>0, <2>1 DEF AsyncTypes, Places, Within, Posting
<1>10. ASSUME FlushAll \/ FlusherEnds \/ Shutdown \/ StopFlusher
       PROVE  AsyncInv' /\ [Ring!Next]_<<Content, overrun_counter_>>
  <2>1. UNCHANGED <<ringVars, setting, item, calls, accepted>>
    BY <1>10 DEF FlushAll, FlusherEnds, Shutdown, StopFlusher
  <2>2. toFlush' \subseteq Clients
    BY <1>10 DEF FlushAll, FlusherEnds, Shutdown, StopFlusher, AsyncTypes
  <2>3. PICK t \in {Main, Flusher}, p \in {"next", "gone", "deactivate", "join flusher"} :
          pc' = [pc EXCEPT ![t] = p]
    <3>1. CASE FlushAll BY <3>1 DEF FlushAll
    <3>2. CASE FlusherEnds BY <3>2 DEF FlusherEnds
    <3>3. CASE Shutdown BY <3>3 DEF Shutdown
    <3>4. CASE StopFlusher BY <3>4 DEF StopFlusher
    <3> QED BY <1>10, <3>1, <3>2, <3>3, <3>4
  <2>4. /\ t \in Posters /\ p \in Places /\ p \notin {"post", "asleep", "notify"}
    BY <2>3 DEF Places
  <2>6. item[t] \in Messages \cup {Nothing} /\ item' = [item EXCEPT ![t] = item[t]]
    BY <2>1, <2>4 DEF AsyncTypes
  <2>7. calls' \in [Clients -> Nat] /\ \A c \in Clients : calls'[c] <= calls[c]
    BY <2>1, SameCalls
  <2>5. AsyncTypes' /\ Within' /\ Posting'
    BY <2>1, <2>2, <2>3, <2>4, <2>6, <2>7, GoesOn
  <2> QED BY <1>0, <2>1, <2>5
<1>11. ASSUME FlushNext
       PROVE  AsyncInv' /\ [Ring!Next]_<<Content, overrun_counter_>>
  <2>1. UNCHANGED <<ringVars, setting, calls, accepted>>
    BY <1>11 DEF FlushNext
  <2>2. CASE toFlush = {} /\ pc' = [pc EXCEPT ![Flusher] = "idle"] /\ UNCHANGED <<toFlush, item>>
    BY <1>0, <2>1, <2>2 DEF AsyncTypes, Places, Within, Posting
  <2>3. ASSUME NEW c \in toFlush, toFlush' = toFlush \ {c},
               \/ UNCHANGED <<item, pc>>
               \/ /\ item' = [item EXCEPT ![Flusher] = FlushMsg(c)]
                  /\ pc' = [pc EXCEPT ![Flusher] = "post"]
        PROVE  AsyncInv' /\ [Ring!Next]_<<Content, overrun_counter_>>
    <3>1. c \in Clients /\ accepted[c] \in 0..MaxCalls
      BY DEF AsyncTypes, Within
    <3>2. FlushMsg(c) \in Messages /\ FlushMsg(c).type # "log"
      BY <3>1 DEF FlushMsg, Messages
    <3>3. CASE UNCHANGED <<item, pc>>
      BY <1>0, <2>1, <2>3, <3>3 DEF AsyncTypes, Places, Within, Posting
    <3>4. CASE /\ item' = [item EXCEPT ![Flusher] = FlushMsg(c)]
               /\ pc' = [pc EXCEPT ![Flusher] = "post"]
      <4>1. /\ toFlush' \subseteq Clients /\ calls' \in [Clients -> Nat]
            /\ \A v \in Clients : calls'[v] <= calls[v]
        BY <2>1, <2>3 DEF AsyncTypes
      <4>2. AsyncTypes' /\ Within' /\ Posting'
        BY <2>1, <3>2, <3>4, <4>1, GoesOn DEF Places
      <4> QED BY <1>0, <2>1, <4>2
    <3> QED BY <2>3, <3>3, <3>4
  <2> QED BY <1>11, <2>2, <2>3 DEF FlushNext
<1>12. ASSUME DropPool
       PROVE  AsyncInv' /\ [Ring!Next]_<<Content, overrun_counter_>>
  BY <1>0, <1>12, ReleasesPosts DEF DropPool
<1>13. CASE UNCHANGED asyncVars
  BY <1>0, <1>13 DEF asyncVars, AsyncTypes, Within, Posting
<1> QED BY <1>1, <1>2, <1>3, <1>4, <1>5, <1>6, <1>7, <1>8, <1>9, <1>10, <1>11, <1>12,
           <1>13 DEF AsyncNext, Post, Pooled

(* The ring with its overrun counter implements a bounded queue in which a *)
(* new message displaces the oldest: for any number of slots, of threads   *)
(* and of calls, and for both policies at once.                            *)
THEOREM RingImplements == AsyncSpec => RingSpec
<1>1. InitAsync => Ring!Init
  BY RingStarts DEF InitAsync
<1> QED BY <1>1, AsyncInit, AsyncStep, PTL DEF AsyncSpec, RingSpec, Ring!Spec

-----------------------------------------------------------------------------
(* What becomes of the messages.  A thread of the pool has one in hand     *)
(* from when it has taken it out of the queue until it has processed it.   *)
Busy(w) == worker[w] \in {"notify", "process"}

(* The messages of a client before a place in the queue, in the queue, and *)
(* in hand.                                                                *)
Before(c, j) == {n \in 0..MaxCalls : \E k \in 1..(j - 1) : Content[k] = LogMsg(c, n)}

QueuedOf(c) == Before(c, Len(Content) + 1)

InHandOf(c) == {n \in 0..MaxCalls : \E w \in pool : Busy(w) /\ job[w] = LogMsg(c, n)}

(* Logs and flushes are of the clients' loggers.                           *)
Addressed(m) == m \in Messages /\ (m.type # "terminate" => m.by \in Clients)

WorkTypes ==
  /\ worker \in [Workers -> {"dequeue", "asleep", "notify", "process", "gone"}]
  /\ DOMAIN job = Workers /\ \A w \in pool : Busy(w) => Addressed(job[w])
  /\ \A i \in 1..Len(Content) : Addressed(Content[i])
  /\ handled \in [Clients -> Seq(Nat)] /\ overrun \in [Clients -> SUBSET Nat]

(* Each message that was queued is somewhere.                              *)
Accounted ==
  \A c \in Clients :
    1..accepted[c] = HandledOf(c) \cup overrun[c] \cup QueuedOf(c) \cup InHandOf(c)

(* A logger's messages lie in the queue as they were posted, and a flush   *)
(* behind all that were queued before it was asked for.                    *)
InTurn ==
  \A i, j \in 1..Len(Content) :
    /\ i < j /\ Content[i].type = "log" /\ Content[j].type = "log"
         => Content[i].by # Content[j].by \/ Content[i].n < Content[j].n
    /\ Content[j].type = "flush" =>
         LET c == Content[j].by
         IN 1..Content[j].n \subseteq HandledOf(c) \cup overrun[c] \cup InHandOf(c) \cup Before(c, j)

(* One thread takes them in that order.                                    *)
OneByOne ==
  Cardinality(pool) = 1 =>
    /\ \A c \in Clients :
         /\ \A i, j \in 1..Len(handled[c]) : i < j => handled[c][i] < handled[c][j]
         /\ \A n \in HandledOf(c), m \in InHandOf(c) \cup QueuedOf(c) : n < m
         /\ \A n \in InHandOf(c), m \in QueuedOf(c) : n < m
    /\ \A w \in pool : Busy(w) /\ job[w].type = "flush" =>
         1..job[w].n \subseteq HandledOf(job[w].by) \cup overrun[job[w].by]

MessagesInv == WorkTypes /\ Accounted /\ InTurn /\ OneByOne

-----------------------------------------------------------------------------
(* How it ends.  Who posts holds the pool, unless it is destroying it.     *)
AtPost(t) == pc[t] \in {"post", "asleep", "notify"}

Posts ==
  \A t \in Posters : AtPost(t) =>
    /\ item[t].type = "log" /\ pc[t] # "notify" => item[t].n = accepted[t] + 1
    /\ item[t].type = "flush" => item[t].by \in Clients /\ item[t].n <= accepted[item[t].by]
    /\ item[t].type # "terminate" => t \in holders
    /\ item[t].type = "terminate" => item[t] = TerminateMsg /\ holders = {} /\ terminates >= 1

Holding ==
  /\ holders \subseteq Posters \cup {Registry} /\ terminates \in Nat
  /\ pc[Main] \in {"idle", "deactivate", "join flusher"} => Registry \in holders

(* While somebody holds the pool, no thread is told to end.                *)
Untold(w) == worker[w] # "gone" /\ (Busy(w) => job[w].type # "terminate")

Lives ==
  holders # {} =>
    /\ \A t \in Posters : pc[t] # "join"
    /\ \A w \in pool : Untold(w)
    /\ \A i \in 1..Len(Content) : Content[i].type # "terminate"

(* Then one thread destroys it.  There is one terminate message for each   *)
(* thread of the pool that has taken none: posted, or still to be posted.  *)
(* Those posted are behind all other messages.                             *)
ToPost ==
  IF \E t \in Posters : pc[t] = "notify" THEN terminates - 1 ELSE terminates

Left == {w \in pool : Untold(w)}

Ends ==
  holders = {} =>
    /\ \A t, u \in Posters : (AtPost(t) \/ pc[t] = "join") /\ (AtPost(u) \/ pc[u] = "join") => t = u
    /\ \E q \in 0..Len(Content) :
         /\ \A i \in 1..Len(Content) : Content[i].type = "terminate" <=> i > Len(Content) - q
         /\ ToPost + q = Cardinality(Left)
         /\ ToPost < Cardinality(pool) /\ Content # <<>> => q > 0

NoOverrun == (\A c \in Clients : policy[c] = "block") => overrun_counter_ = 0

EndInv == Posts /\ Holding /\ Lives /\ Ends /\ NoOverrun

-----------------------------------------------------------------------------
(* The pool is finite, and a message is what its fields say.               *)
LEMMA PoolIs ==
  ASSUME AsyncTypes
  PROVE  /\ pool \subseteq Workers /\ IsFiniteSet(pool)
         /\ Cardinality(pool) \in Nat \ {0}
         /\ Cardinality(pool) = 1 => \E w \in pool : pool = {w}
         /\ policy \in [Clients -> {"block", "overrun_oldest"}]
<1>1. /\ pool \in (SUBSET Workers) \ {{}}
      /\ policy \in [Clients -> {"block", "overrun_oldest"}]
  BY AsyncAssumption DEF AsyncTypes, pool, policy
<1>2. IsFiniteSet(pool)
  BY <1>1, AsyncAssumption, FS_Subset
<1>3. Cardinality(pool) \in Nat /\ Cardinality(pool) # 0
  BY <1>1, <1>2, FS_CardinalityType, FS_EmptySet
<1>4. Cardinality(pool) = 1 => \E w : pool = {w}
  BY <1>2, FS_Singleton
<1> QED BY <1>1, <1>2, <1>3, <1>4

LEMMA LogIs ==
  /\ \A m \in Messages : /\ m.type \in {"log", "flush", "terminate"} /\ m.n \in 0..MaxCalls
                         /\ m.type = "log" => m = LogMsg(m.by, m.n)
  /\ \A c, n : LogMsg(c, n).type = "log" /\ LogMsg(c, n).by = c /\ LogMsg(c, n).n = n
BY DEF Messages, LogMsg

(* The queue, place by place: what is pushed comes last, and the oldest    *)
(* leaves a full queue ...                                                 *)
LEMMA PushedLast ==
  ASSUME RingOK, NEW x \in Messages, PushBack(x)
  PROVE  LET n == Len(Content)
             d == IF Full THEN 1 ELSE 0
         IN /\ Content \in Seq(Messages) /\ n \in Nat /\ (Full => n >= 1 /\ Front = Content[1])
            /\ Len(Content') = n - d + 1 /\ Content'[n - d + 1] = x
            /\ \A i \in 1..(n - d) : Content'[i] = Content[i + d]
            /\ overrun_counter_' = overrun_counter_ + d
<1> DEFINE n == Len(Content)
           d == IF Full THEN 1 ELSE 0
<1>1. RingOK' /\ Ring!Push(x) /\ ContentAsSlots
  BY PushBackPushes, ContentIs
<1>2. /\ MaxItems \in Nat \ {0} /\ head_ \in 0..MaxItems /\ tail_ \in 0..MaxItems
      /\ Content \in Seq(Messages) /\ n = Size /\ n \in Nat
      /\ \A i \in 1..n : Content[i] = v_[Slot(head_, i)]
  BY <1>1, RingAssumption DEF RingOK, Slots, ContentAsSlots
<1>3. Full <=> NextSlot(tail_) = head_
  BY <1>2, Steps DEF Full, Slots
<1>4. Full <=> n = MaxItems
  BY <1>2, <1>3 DEF Size, max_items_, NextSlot
<1>5. n >= 1 => Front = Content[1]
  BY <1>2 DEF Front, Slot
<1>6. CASE Full
  <2>1. /\ Tail(Content) \in Seq(Messages) /\ Len(Tail(Content)) = n - 1
        /\ \A i \in 1..(n - 1) : Tail(Content)[i] = Content[i + 1]
    <3>1. Content # <<>>
      BY <1>2, <1>4, <1>6
    <3> QED BY <1>2, <3>1, HeadTailProperties
  <2>2. Content' = Append(Tail(Content), x) /\ overrun_counter_' = overrun_counter_ + n - (n - 1)
    BY <1>1, <1>4, <1>6, <2>1 DEF Ring!Push
  <2>3. /\ Len(Content') = n - 1 + 1 /\ Content'[n - 1 + 1] = x
        /\ \A i \in 1..(n - 1) : Content'[i] = Content[i + 1]
    BY <2>1, <2>2, AppendProperties
  <2>4. overrun_counter_' = overrun_counter_ + 1
    BY <1>1, <1>2, <2>2 DEF RingOK
  <2> QED BY <1>2, <1>4, <1>5, <1>6, <2>3, <2>4
<1>7. CASE ~Full
  <2>1. Content' = Append(Content, x) /\ overrun_counter_' = overrun_counter_ + n - n
    BY <1>1, <1>4, <1>7 DEF Ring!Push
  <2>2. /\ Len(Content') = n + 1 /\ Content'[n + 1] = x
        /\ \A i \in 1..n : Content'[i] = Content[i]
    BY <1>2, <2>1, AppendProperties
  <2>3. overrun_counter_' = overrun_counter_
    BY <1>1, <1>2, <2>1 DEF RingOK
  <2>4. \A i \in 1..n : i + 0 = i
    OBVIOUS
  <2> HIDE DEF n
  <2>5. n - 0 = n /\ overrun_counter_ + 0 = overrun_counter_
    BY <1>1, <1>2 DEF RingOK
  <2> QED BY <1>2, <1>7, <2>2, <2>3, <2>4, <2>5 DEF n
<1> QED BY <1>6, <1>7

(* ... and what is popped was first.                                       *)
LEMMA PoppedFirst ==
  ASSUME RingOK, ~Empty, PopFront
  PROVE  LET n == Len(Content)
         IN /\ Content \in Seq(Messages) /\ n \in Nat \ {0} /\ Front = Content[1]
            /\ Len(Content') = n - 1 /\ \A i \in 1..(n - 1) : Content'[i] = Content[i + 1]
            /\ overrun_counter_' = overrun_counter_
<1> DEFINE n == Len(Content)
<1>1. Ring!Pop /\ ContentAsSlots
  BY PopFrontPops, ContentIs
<1>2. /\ MaxItems \in Nat \ {0} /\ head_ \in 0..MaxItems /\ tail_ \in 0..MaxItems
      /\ Content \in Seq(Messages) /\ n = Size /\ n \in Nat
      /\ \A i \in 1..n : Content[i] = v_[Slot(head_, i)]
  BY <1>1, RingAssumption DEF RingOK, Slots, ContentAsSlots
<1>3. n >= 1
  BY <1>2 DEF Empty, Size, max_items_
<1>4. Front = Content[1]
  BY <1>2, <1>3 DEF Front, Slot
<1>5. Content # <<>>
  BY <1>1 DEF Ring!Pop
<1>6. Content' = Tail(Content)
  BY <1>1 DEF Ring!Pop
<1>7. Len(Tail(Content)) = n - 1 /\ \A i \in 1..(n - 1) : Tail(Content)[i] = Content[i + 1]
  BY <1>2, <1>5, HeadTailProperties
<1> QED BY <1>2, <1>3, <1>4, <1>6, <1>7 DEF PopFront

(* Messages before a place, when the queue has moved on by d places.       *)
LEMMA MovedOn ==
  ASSUME NEW d \in {0, 1}, NEW j \in Nat, NEW c,
         \A i \in 1..(j - 1) : Content'[i] = Content[i + d]
  PROVE  Before(c, j + d) = Before(c, j)' \cup
           {n \in 0..MaxCalls : d = 1 /\ j >= 1 /\ Content[1] = LogMsg(c, n)}
<1> DEFINE Lost == {n \in 0..MaxCalls : d = 1 /\ j >= 1 /\ Content[1] = LogMsg(c, n)}
<1>1. ASSUME NEW n \in 0..MaxCalls, NEW k \in 1..(j + d - 1), Content[k] = LogMsg(c, n)
      PROVE  n \in Before(c, j)' \/ n \in Lost
  <2>1. CASE d = 1 /\ k = 1
    BY <1>1, <2>1
  <2>2. CASE k - d \in 1..(j - 1)
    <3>1. Content'[k - d] = Content[k]
      BY <2>2
    <3> QED BY <1>1, <2>2, <3>1 DEF Before, LogMsg
  <2> QED BY <2>1, <2>2
<1>2. ASSUME NEW n \in 0..MaxCalls, NEW k \in 1..(j - 1), Content'[k] = LogMsg(c, n)
      PROVE  n \in Before(c, j + d)
  <2>1. k + d \in 1..(j + d - 1)
    OBVIOUS
  <2> QED BY <1>2, <2>1 DEF Before
<1>3. Lost \subseteq Before(c, j + d)
  <2>1. d = 1 /\ j >= 1 => 1 \in 1..(j + d - 1)
    OBVIOUS
  <2> QED BY <2>1 DEF Before
<1>4. Before(c, j)' \subseteq Before(c, j + d)
  BY <1>2 DEF Before, LogMsg
<1>5. Before(c, j + d) \subseteq Before(c, j)' \cup Lost
  BY <1>1 DEF Before
<1> QED BY <1>3, <1>4, <1>5

-----------------------------------------------------------------------------
(* A step that leaves the messages where they are.                         *)
LEMMA MessagesStay ==
  ASSUME MessagesInv, AsyncTypes, UNCHANGED <<ringVars, setting, job, accepted, handled, overrun>>,
         worker' \in [Workers -> {"dequeue", "asleep", "notify", "process", "gone"}],
         \A w \in pool : Busy(w)' <=> Busy(w)
  PROVE  MessagesInv'
<1>1. Content' = Content /\ pool' = pool /\ pool \subseteq Workers
  BY RingStays, PoolIs DEF pool
<1>2. \A c : /\ HandledOf(c)' = HandledOf(c) /\ InHandOf(c)' = InHandOf(c)
             /\ QueuedOf(c)' = QueuedOf(c) /\ \A j : Before(c, j)' = Before(c, j)
  BY <1>1 DEF HandledOf, InHandOf, QueuedOf, Before, LogMsg
<1>3. WorkTypes'
  BY <1>1 DEF MessagesInv, WorkTypes, Addressed
<1>4. Accounted'
  BY <1>2 DEF MessagesInv, Accounted
<1>5. InTurn'
  BY <1>1, <1>2 DEF MessagesInv, InTurn
<1>6. OneByOne'
  BY <1>1, <1>2 DEF MessagesInv, OneByOne
<1> QED BY <1>3, <1>4, <1>5, <1>6 DEF MessagesInv

(* What is posted is numbered, and belongs to a client.                    *)
LEMMA PostedIs ==
  ASSUME AsyncInv, Posts, NEW t \in Posters, pc[t] = "post"
  PROVE  /\ item[t] \in Messages /\ Addressed(item[t])
         /\ item[t].type = "log" => t \in Clients /\ item[t].by = t /\ item[t].n = accepted[t] + 1
         /\ item[t].type = "flush" => item[t].n <= accepted[item[t].by]
BY DEF AsyncInv, Posting, Posts, AtPost, Addressed, Messages

(* A message is queued, and may displace another.                          *)
LEMMA MessagesPushed ==
  ASSUME AsyncInv, MessagesInv, Posts, NEW t \in Posters, Enqueue(t), PushBack(item[t]),
         accepted' = IF item[t].type = "log"
                     THEN [accepted EXCEPT ![item[t].by] = @ + 1] ELSE accepted,
         overrun' = IF Full /\ Front.type = "log"
                    THEN [overrun EXCEPT ![Front.by] = @ \cup {Front.n}] ELSE overrun
  PROVE  MessagesInv'
<1> DEFINE x == item[t]
           n == Len(Content)
           d == IF Full THEN 1 ELSE 0
           Lost(c) == {k \in 0..MaxCalls : d = 1 /\ n >= 1 /\ Content[1] = LogMsg(c, k)}
           New(c) == IF x.type = "log" /\ x.by = c THEN {x.n} ELSE {}
<1>1. /\ pc[t] = "post" /\ UNCHANGED <<setting, worker, job, handled>>
      /\ RingOK /\ AsyncTypes /\ MaxCalls \in Nat
  BY Typing DEF Enqueue, workerVars, AsyncInv
<1>2. /\ x \in Messages /\ Addressed(x)
      /\ x.type = "log" => x.by \in Clients /\ x.n = accepted[x.by] + 1
      /\ x.type = "flush" => x.by \in Clients /\ x.n <= accepted[x.by]
  BY <1>1, PostedIs DEF Addressed
<1> HIDE DEF x
<1>3. /\ Content \in Seq(Messages) /\ n \in Nat /\ (Full => n >= 1 /\ Front = Content[1])
      /\ Len(Content') = n - d + 1 /\ Content'[n - d + 1] = x
      /\ \A i \in 1..(n - d) : Content'[i] = Content[i + d]
  BY <1>1, <1>2, PushedLast DEF x
<1>4. d \in {0, 1} /\ n - d \in Nat /\ (d = 1 <=> Full)
  BY <1>3
<1> HIDE DEF d, n
<1>5. \A i \in 1..n : Content[i] \in Messages /\ Addressed(Content[i])
  BY <1>3 DEF MessagesInv, WorkTypes, n
<1>6. pool' = pool /\ pool \subseteq Workers
  BY <1>1, PoolIs DEF pool
<1>7. \A c \in Clients : accepted[c] \in Nat /\ accepted[c] <= MaxCalls
        /\ accepted'[c] = IF x.type = "log" /\ x.by = c THEN accepted[c] + 1 ELSE accepted[c]
  <2>1. \A c \in Clients : accepted[c] \in Nat /\ calls[c] \in Nat /\ accepted[c] + calls[c] <= MaxCalls
    BY DEF AsyncInv, AsyncTypes, Within
  <2>2. \A c \in Clients : accepted'[c] = IF x.type = "log" /\ x.by = c THEN accepted[c] + 1 ELSE accepted[c]
    BY <1>1, <1>2 DEF AsyncTypes, x
  <2> QED BY <1>1, <2>1, <2>2
<1>8. \A c \in Clients : overrun'[c] = overrun[c] \cup Lost(c)
  <2>1. CASE Full /\ Front.type = "log"
    <3>1. d = 1 /\ n >= 1 /\ Content[1] \in Messages /\ Content[1].type = "log"
          /\ Content[1].by \in Clients
      BY <1>3, <1>4, <1>5, <2>1 DEF Addressed
    <3>2. Content[1] = LogMsg(Content[1].by, Content[1].n) /\ Content[1].n \in 0..MaxCalls
      BY <3>1, LogIs
    <3>3. \A c \in Clients : Lost(c) = IF c = Content[1].by THEN {Content[1].n} ELSE {}
      BY <3>1, <3>2, LogIs
    <3>4. overrun' = [overrun EXCEPT ![Content[1].by] = @ \cup {Content[1].n}]
      BY <1>3, <2>1
    <3>5. DOMAIN overrun = Clients
      BY DEF MessagesInv, WorkTypes
    <3> HIDE DEF Lost
    <3> QED BY <3>1, <3>3, <3>4, <3>5
  <2>2. CASE ~(Full /\ Front.type = "log")
    <3>1. \A c, k : d = 1 /\ n >= 1 => Content[1] # LogMsg(c, k)
      BY <1>3, <1>4, <2>2, LogIs
    <3> QED BY <2>2, <3>1
  <2> QED BY <2>1, <2>2
<1>9. \A c : HandledOf(c)' = HandledOf(c) /\ InHandOf(c)' = InHandOf(c)
  BY <1>1, <1>6 DEF HandledOf, InHandOf, Busy, LogMsg
<1>10. ASSUME NEW c, NEW j \in 1..(n - d + 1)
       PROVE  Before(c, j + d) = Before(c, j)' \cup Lost(c)
  <2>1. \A i \in 1..(j - 1) : Content'[i] = Content[i + d]
    BY <1>3, <1>4
  <2>2. Before(c, j + d) = Before(c, j)' \cup
           {k \in 0..MaxCalls : d = 1 /\ j >= 1 /\ Content[1] = LogMsg(c, k)}
    BY <1>4, <2>1, MovedOn
  <2>3. d = 1 => j >= 1 /\ n >= 1
    BY <1>3, <1>4
  <2> QED BY <2>2, <2>3
<1>11. ASSUME NEW c
       PROVE  QueuedOf(c)' \cup Lost(c) = QueuedOf(c) \cup New(c)
  <2> PICK j \in 1..(n - d + 1) : j = n - d + 1
    BY <1>4
  <2>1. QueuedOf(c) = Before(c, j)' \cup Lost(c)
    <3>1. Before(c, j + d) = Before(c, j)' \cup Lost(c)
      BY <1>10
    <3>2. j + d = n + 1
      BY <1>3, <1>4
    <3>3. QueuedOf(c) = Before(c, n + 1)
      BY DEF QueuedOf, n
    <3> QED BY <3>1, <3>2, <3>3
  <2>2. QueuedOf(c)' = Before(c, j)' \cup {k \in 0..MaxCalls : x = LogMsg(c, k)}
    <3>1. QueuedOf(c)' = {k \in 0..MaxCalls : \E i \in 1..j : Content'[i] = LogMsg(c, k)}
      <4>1. Len(Content') + 1 - 1 = j
        BY <1>3, <1>4
      <4> QED BY <4>1 DEF QueuedOf, Before, LogMsg
    <3>2. Before(c, j)' = {k \in 0..MaxCalls : \E i \in 1..(j - 1) : Content'[i] = LogMsg(c, k)}
      BY DEF Before, LogMsg
    <3>3. /\ 1..(j - 1) \subseteq 1..j /\ j \in 1..j /\ Content'[j] = x
          /\ \A i \in 1..j : i \in 1..(j - 1) \/ i = j
      BY <1>3, <1>4
    <3> QED BY <3>1, <3>2, <3>3
  <2>3. {k \in 0..MaxCalls : x = LogMsg(c, k)} = New(c)
    BY <1>2, LogIs
  <2> QED BY <2>1, <2>2, <2>3
<1>12. \A c \in Clients : HandledOf(c) \cup InHandOf(c) \cup QueuedOf(c) \subseteq 1..accepted[c]
  BY DEF MessagesInv, Accounted
<1>13. WorkTypes'
  <2>1. overrun' \in [Clients -> SUBSET Nat]
    <3>1. \A c \in Clients : Lost(c) \subseteq Nat
      OBVIOUS
    <3>2. DOMAIN overrun' = Clients
      BY DEF MessagesInv, WorkTypes
    <3>3. \A c \in Clients : overrun'[c] \in SUBSET Nat
      BY <1>8, <3>1 DEF MessagesInv, WorkTypes
    <3>4. overrun' = [c \in Clients |-> overrun'[c]]
      BY <3>2 DEF MessagesInv, WorkTypes
    <3> QED BY <3>3, <3>4
  <2>2. \A i \in 1..Len(Content') : Addressed(Content'[i])
    <3>1. \A i \in 1..Len(Content') : i = n - d + 1 \/ (i \in 1..(n - d) /\ i + d \in 1..n)
      BY <1>3, <1>4
    <3> QED BY <1>2, <1>3, <1>5, <3>1
  <2> QED BY <1>1, <1>6, <2>1, <2>2 DEF MessagesInv, WorkTypes, Busy, Addressed
<1>14. Accounted'
  <2>1. ASSUME NEW c \in Clients
        PROVE  1..accepted'[c] = 1..accepted[c] \cup New(c)
    <3>1. CASE x.type = "log" /\ x.by = c
      <4>1. accepted'[c] = accepted[c] + 1 /\ New(c) = {accepted[c] + 1} /\ accepted[c] \in Nat
        BY <1>2, <1>7, <3>1
      <4> HIDE DEF New
      <4> QED BY <4>1
    <3>2. CASE ~(x.type = "log" /\ x.by = c)
      BY <1>7, <3>2
    <3> QED BY <3>1, <3>2
  <2>2. \A c \in Clients : 1..accepted[c] = HandledOf(c) \cup overrun[c] \cup QueuedOf(c) \cup InHandOf(c)
    BY DEF MessagesInv, Accounted
  <2> HIDE DEF New, Lost
  <2> QED BY <1>8, <1>9, <1>11, <2>1, <2>2 DEF Accounted
<1>15. InTurn'
  <2>1. ASSUME NEW i \in 1..Len(Content'), NEW j \in 1..Len(Content'), i < j,
               Content'[i].type = "log", Content'[j].type = "log", Content'[i].by = Content'[j].by
        PROVE  Content'[i].n < Content'[j].n
    <3>1. /\ i \in 1..(n - d) /\ i + d \in 1..n /\ Content'[i] = Content[i + d]
          /\ j = n - d + 1 \/ (j \in 1..(n - d) /\ j + d \in 1..n /\ i + d < j + d)
      BY <1>3, <1>4, <2>1
    <3>2. CASE j = n - d + 1
      <4>1. Content'[j] = x /\ Content[i + d].by = x.by /\ x.by \in Clients
            /\ Content[i + d] = LogMsg(x.by, Content[i + d].n) /\ Content[i + d].n \in 0..MaxCalls
        BY <1>2, <1>3, <1>5, <2>1, <3>1, <3>2, LogIs
      <4>2. Content[i + d].n \in QueuedOf(x.by)
        <5>1. i + d \in 1..(n + 1 - 1)
          BY <1>3, <3>1
        <5> QED BY <4>1, <5>1 DEF QueuedOf, Before, n
      <4>3. Content[i + d].n <= accepted[x.by]
        BY <1>12, <4>1, <4>2
      <4> QED BY <1>2, <1>7, <2>1, <3>1, <4>1, <4>3
    <3>3. CASE j \in 1..(n - d) /\ j + d \in 1..n /\ i + d < j + d
      <4>1. Content'[j] = Content[j + d]
        BY <1>3, <3>3
      <4> QED BY <2>1, <3>1, <3>3, <4>1 DEF MessagesInv, InTurn, n
    <3> QED BY <3>1, <3>2, <3>3
  <2>2. ASSUME NEW j \in 1..Len(Content'), Content'[j].type = "flush", NEW c, c = Content'[j].by
        PROVE  1..Content'[j].n \subseteq
                 HandledOf(c)' \cup overrun'[c] \cup InHandOf(c)' \cup Before(c, j)'
    <3>1. j \in 1..(n - d + 1)
      BY <1>3
    <3>2. c \in Clients
      BY <1>13, <2>2 DEF WorkTypes, Addressed
    <3>3. Before(c, j + d) = Before(c, j)' \cup Lost(c) /\ overrun'[c] = overrun[c] \cup Lost(c)
      BY <1>8, <1>10, <3>1, <3>2
    <3>4. 1..Content'[j].n \subseteq HandledOf(c) \cup overrun[c] \cup InHandOf(c) \cup Before(c, j + d)
      <4>1. CASE j = n - d + 1
        <5>1. j + d = n + 1 /\ Content'[j] = x /\ x.n <= accepted[c] /\ x.n \in 0..MaxCalls
          BY <1>2, <1>3, <1>4, <2>2, <4>1, LogIs
        <5>2. 1..x.n \subseteq 1..accepted[c]
          BY <1>7, <3>2, <5>1
        <5> QED BY <3>2, <5>1, <5>2 DEF MessagesInv, Accounted, QueuedOf, n
      <4>2. CASE j # n - d + 1
        <5>1. Content'[j] = Content[j + d] /\ j + d \in 1..n
          BY <1>3, <1>4, <3>1, <4>2
        <5> QED BY <2>2, <5>1 DEF MessagesInv, InTurn, n
      <4> QED BY <4>1, <4>2
    <3> QED BY <1>9, <3>3, <3>4
  <2> QED BY <2>1, <2>2 DEF InTurn
<1>16. OneByOne'
  <2> SUFFICES ASSUME Cardinality(pool) = 1 PROVE OneByOne'
    BY <1>6 DEF OneByOne
  <2>1. ASSUME NEW c \in Clients, NEW m \in QueuedOf(c)', NEW k \in HandledOf(c) \cup InHandOf(c)
        PROVE  k < m
    <3>1. m \in QueuedOf(c) \/ (x.type = "log" /\ x.by = c /\ m = x.n)
      BY <1>11
    <3>2. CASE m \in QueuedOf(c)
      BY <2>1, <3>2 DEF MessagesInv, OneByOne
    <3>3. CASE x.type = "log" /\ x.by = c /\ m = x.n
      <4>1. k \in 1..accepted[c] /\ m = accepted[c] + 1
        BY <1>2, <1>12, <2>1, <3>3
      <4> QED BY <1>7, <4>1
    <3> QED BY <3>1, <3>2, <3>3
  <2>2. ASSUME NEW c \in Clients, NEW i \in 1..Len(handled[c]), NEW j \in 1..Len(handled[c]), i < j
        PROVE  handled[c][i] < handled[c][j]
    BY <2>2 DEF MessagesInv, OneByOne
  <2>3. ASSUME NEW c \in Clients, NEW k \in HandledOf(c), NEW m \in InHandOf(c)
        PROVE  k < m
    BY <2>3 DEF MessagesInv, OneByOne
  <2>4. ASSUME NEW w \in pool, Busy(w), job[w].type = "flush"
        PROVE  1..job[w].n \subseteq HandledOf(job[w].by) \cup overrun'[job[w].by]
    <3>1. job[w].by \in Clients
      BY <2>4 DEF MessagesInv, WorkTypes, Addressed
    <3> QED BY <1>8, <2>4, <3>1 DEF MessagesInv, OneByOne
  <2> QED BY <1>1, <1>6, <1>9, <2>1, <2>2, <2>3, <2>4 DEF OneByOne, Busy
<1> QED BY <1>13, <1>14, <1>15, <1>16 DEF MessagesInv

(* A thread of the pool takes the oldest message.                          *)
LEMMA MessagesPopped ==
  ASSUME AsyncInv, MessagesInv, NEW w \in pool, Dequeue(w), ~Empty, PopFront,
         worker' = [worker EXCEPT ![w] = "notify"], job' = [job EXCEPT ![w] = Front]
  PROVE  MessagesInv'
<1> DEFINE n == Len(Content)
           x == Content[1]
           Lost(c) == {k \in 0..MaxCalls : x = LogMsg(c, k)}
<1>1. /\ worker[w] = "dequeue" /\ UNCHANGED <<setting, accepted, handled, overrun>>
      /\ RingOK /\ AsyncTypes /\ MaxCalls \in Nat
  BY Typing DEF Dequeue, historyVars, AsyncInv
<1>2. /\ Content \in Seq(Messages) /\ n \in Nat \ {0} /\ Front = x
      /\ Len(Content') = n - 1 /\ \A i \in 1..(n - 1) : Content'[i] = Content[i + 1]
  BY <1>1, PoppedFirst
<1> HIDE DEF n
<1>3. \A i \in 1..n : Content[i] \in Messages /\ Addressed(Content[i])
  BY <1>2 DEF MessagesInv, WorkTypes, n
<1>4. x \in Messages /\ Addressed(x)
  BY <1>2, <1>3
<1>5. pool' = pool /\ pool \subseteq Workers
  BY <1>1, PoolIs DEF pool
<1>6. /\ ~Busy(w) /\ Busy(w)' /\ job'[w] = x
      /\ \A v \in pool \ {w} : (Busy(v)' <=> Busy(v)) /\ job'[v] = job[v]
  BY <1>1, <1>2, <1>5 DEF Busy, MessagesInv, WorkTypes
<1>7. \A c : HandledOf(c)' = HandledOf(c)
  BY <1>1 DEF HandledOf
<1>8. ASSUME NEW c
      PROVE  InHandOf(c)' = InHandOf(c) \cup Lost(c)
  <2>1. ASSUME NEW k
        PROVE  (\E v \in pool : Busy(v)' /\ job'[v] = LogMsg(c, k))
                 <=> (\E v \in pool : Busy(v) /\ job[v] = LogMsg(c, k)) \/ x = LogMsg(c, k)
    BY <1>6
  <2>2. InHandOf(c)' = {k \in 0..MaxCalls : \E v \in pool : Busy(v)' /\ job'[v] = LogMsg(c, k)}
    BY <1>5 DEF InHandOf, LogMsg
  <2>3. InHandOf(c) = {k \in 0..MaxCalls : \E v \in pool : Busy(v) /\ job[v] = LogMsg(c, k)}
    BY DEF InHandOf
  <2> QED BY <2>1, <2>2, <2>3
<1> HIDE DEF x
<1>9. ASSUME NEW c, NEW j \in 1..n
      PROVE  Before(c, j + 1) = Before(c, j)' \cup Lost(c)
  <2>1. \A i \in 1..(j - 1) : Content'[i] = Content[i + 1]
    BY <1>2
  <2>2. Before(c, j + 1) = Before(c, j)' \cup
           {k \in 0..MaxCalls : 1 = 1 /\ j >= 1 /\ Content[1] = LogMsg(c, k)}
    <3>1. 1 \in {0, 1} /\ j \in Nat
      OBVIOUS
    <3> QED BY ONLY <2>1, <3>1, MovedOn
  <2> QED BY <2>2 DEF x
<1>10. ASSUME NEW c
       PROVE  QueuedOf(c) = QueuedOf(c)' \cup Lost(c)
  <2> PICK j \in 1..n : j = n
    BY <1>2
  <2>1. Before(c, j + 1) = Before(c, j)' \cup Lost(c)
    BY <1>9
  <2>2. QueuedOf(c) = Before(c, j + 1)
    BY DEF QueuedOf, n
  <2>3. QueuedOf(c)' = Before(c, j)'
    <3>1. Len(Content') + 1 = j
      BY <1>2
    <3> QED BY <3>1 DEF QueuedOf, Before, LogMsg
  <2> QED BY <2>1, <2>2, <2>3
<1>11. WorkTypes'
  <2>1. \A i \in 1..Len(Content') : Addressed(Content'[i])
    <3>1. \A i \in 1..Len(Content') : i + 1 \in 1..n
      BY <1>2
    <3> QED BY <1>2, <1>3, <3>1
  <2>2. worker' \in [Workers -> {"dequeue", "asleep", "notify", "process", "gone"}]
        /\ DOMAIN job' = Workers
    BY DEF MessagesInv, WorkTypes
  <2>3. \A v \in pool : Busy(v)' => Addressed(job'[v])
    BY <1>4, <1>6 DEF MessagesInv, WorkTypes
  <2>4. \A m : Addressed(m)' <=> Addressed(m)
    BY DEF Addressed
  <2> QED BY <1>1, <1>5, <2>1, <2>2, <2>3, <2>4 DEF MessagesInv, WorkTypes, Addressed
<1>12. Accounted'
  BY <1>1, <1>7, <1>8, <1>10 DEF MessagesInv, Accounted
<1>13. \A i \in 1..Len(Content') : i + 1 \in 1..n /\ i \in 1..n /\ Content'[i] = Content[i + 1]
  BY <1>2
<1>14. InTurn'
  <2>1. ASSUME NEW i \in 1..Len(Content'), NEW j \in 1..Len(Content'), i < j,
               Content'[i].type = "log", Content'[j].type = "log", Content'[i].by = Content'[j].by
        PROVE  Content'[i].n < Content'[j].n
    <3>1. i + 1 < j + 1
      BY <2>1
    <3> QED BY <1>13, <2>1, <3>1 DEF MessagesInv, InTurn, n
  <2>2. ASSUME NEW j \in 1..Len(Content'), Content'[j].type = "flush", NEW c, c = Content'[j].by
        PROVE  1..Content'[j].n \subseteq
                 HandledOf(c)' \cup overrun'[c] \cup InHandOf(c)' \cup Before(c, j)'
    <3>1. Content'[j] = Content[j + 1] /\ j + 1 \in 1..n /\ j \in 1..n
      BY <1>13
    <3>2. 1..Content[j + 1].n \subseteq HandledOf(c) \cup overrun[c] \cup InHandOf(c) \cup Before(c, j + 1)
      BY <2>2, <3>1 DEF MessagesInv, InTurn, n
    <3>3. Before(c, j + 1) = Before(c, j)' \cup Lost(c)
      BY <1>9, <3>1
    <3> QED BY <1>1, <1>7, <1>8, <3>1, <3>2, <3>3
  <2> QED BY <2>1, <2>2 DEF InTurn
<1>15. OneByOne'
  <2> SUFFICES ASSUME Cardinality(pool) = 1 PROVE OneByOne'
    BY <1>5 DEF OneByOne
  <2>1. pool = {w}
    BY <1>1, PoolIs
  <2>2. \A c : InHandOf(c) = {}
    BY <1>6, <2>1 DEF InHandOf
  <2>3. ASSUME NEW c \in Clients, NEW k \in HandledOf(c), NEW m \in InHandOf(c)' \cup QueuedOf(c)'
        PROVE  k < m
    <3>1. m \in QueuedOf(c)
      BY <1>8, <1>10, <2>2, <2>3
    <3> QED BY <2>3, <3>1 DEF MessagesInv, OneByOne
  <2>4. ASSUME NEW c \in Clients, NEW k \in InHandOf(c)', NEW m \in QueuedOf(c)'
        PROVE  k < m
    <3>1. k \in 0..MaxCalls /\ x = LogMsg(c, k)
      BY <1>8, <2>2, <2>4
    <3>2. PICK i \in 1..(n - 1) : Content'[i] = LogMsg(c, m)
      <4>1. Len(Content') + 1 - 1 = n - 1
        BY <1>2
      <4> QED BY <2>4, <4>1 DEF QueuedOf, Before, LogMsg
    <3>3. Content[i + 1] = LogMsg(c, m) /\ i + 1 \in 1..n /\ 1 \in 1..n /\ 1 < i + 1
      BY <1>2, <3>2
    <3> QED BY <3>1, <3>3, LogIs DEF MessagesInv, InTurn, n, x
  <2>5. ASSUME x.type = "flush"
        PROVE  1..x.n \subseteq HandledOf(x.by) \cup overrun[x.by]
    <3>1. 1..x.n \subseteq HandledOf(x.by) \cup overrun[x.by] \cup InHandOf(x.by) \cup Before(x.by, 1)
      BY <1>2, <2>5 DEF MessagesInv, InTurn, n, x
    <3>2. Before(x.by, 1) = {}
      BY DEF Before
    <3> QED BY <2>2, <3>1, <3>2
  <2>6. ASSUME NEW c \in Clients, NEW i \in 1..Len(handled[c]), NEW j \in 1..Len(handled[c]), i < j
        PROVE  handled[c][i] < handled[c][j]
    BY <2>6 DEF MessagesInv, OneByOne
  <2> QED BY <1>1, <1>5, <1>6, <1>7, <2>1, <2>3, <2>4, <2>5, <2>6 DEF OneByOne
<1> QED BY <1>11, <1>12, <1>14, <1>15 DEF MessagesInv

(* The message is handled: its number goes from the hand to the history.   *)
LEMMA HandsOver ==
  ASSUME AsyncInv, MessagesInv, NEW w \in pool, Process(w), NEW c \in Clients
  PROVE  /\ Len(handled[c]) \in Nat
         /\ \/ UNCHANGED <<handled[c], HandledOf(c)>> /\ InHandOf(c)' = InHandOf(c)
            \/ /\ job[w] = LogMsg(c, job[w].n) /\ job[w].n \in InHandOf(c)
               /\ Len(handled'[c]) = Len(handled[c]) + 1
               /\ \A i \in 1..Len(handled[c]) : handled'[c][i] = handled[c][i]
               /\ handled'[c][Len(handled[c]) + 1] = job[w].n
               /\ HandledOf(c)' = HandledOf(c) \cup {job[w].n}
               /\ InHandOf(c)' \subseteq InHandOf(c)
               /\ InHandOf(c) \subseteq InHandOf(c)' \cup {job[w].n}
<1> DEFINE x == job[w]
<1>1. /\ worker[w] = "process" /\ UNCHANGED setting /\ AsyncTypes
      /\ worker' = [worker EXCEPT ![w] = IF x.type = "terminate" THEN "gone" ELSE "dequeue"]
      /\ IF x.type = "log" THEN handled' = [handled EXCEPT ![x.by] = Append(@, x.n)]
         ELSE UNCHANGED handled
      /\ job' = [job EXCEPT ![w] = Nothing]
  BY DEF Process, BackendLog, AsyncInv
<1>2. pool' = pool /\ pool \subseteq Workers
  BY <1>1, PoolIs DEF pool
<1>3. Busy(w) /\ ~Busy(w)' /\ \A v \in pool \ {w} : (Busy(v)' <=> Busy(v)) /\ job'[v] = job[v]
  <2>1. \A v \in pool \ {w} : worker'[v] = worker[v] /\ job'[v] = job[v]
    BY <1>1, <1>2 DEF MessagesInv, WorkTypes
  <2>2. worker'[w] \in {"gone", "dequeue"}
    BY <1>1, <1>2 DEF MessagesInv, WorkTypes
  <2> QED BY <1>1, <2>1, <2>2 DEF Busy
<1>4. x \in Messages /\ (x.type = "log" => x.by \in Clients)
  BY <1>3 DEF MessagesInv, WorkTypes, Addressed
<1>5. handled[c] \in Seq(Nat) /\ Len(handled[c]) \in Nat
  BY LenProperties DEF MessagesInv, WorkTypes
<1>6. InHandOf(c)' = {k \in 0..MaxCalls : \E v \in pool \ {w} : Busy(v) /\ job[v] = LogMsg(c, k)}
  <2>1. InHandOf(c)' = {k \in 0..MaxCalls : \E v \in pool : Busy(v)' /\ job'[v] = LogMsg(c, k)}
    BY <1>2 DEF InHandOf, LogMsg
  <2>2. ASSUME NEW k
        PROVE  (\E v \in pool : Busy(v)' /\ job'[v] = LogMsg(c, k))
                 <=> \E v \in pool \ {w} : Busy(v) /\ job[v] = LogMsg(c, k)
    BY <1>3
  <2> QED BY <2>1, <2>2
<1>7. CASE x.type = "log" /\ x.by = c
  <2>1. x = LogMsg(c, x.n) /\ x.n \in 0..MaxCalls /\ x.n \in Nat
    BY <1>4, <1>7, Typing, LogIs
  <2>2. handled'[c] = Append(handled[c], x.n)
    BY <1>1, <1>7 DEF MessagesInv, WorkTypes
  <2>3. /\ Len(handled'[c]) = Len(handled[c]) + 1
        /\ \A i \in 1..Len(handled[c]) : handled'[c][i] = handled[c][i]
        /\ handled'[c][Len(handled[c]) + 1] = x.n
    BY <1>5, <2>1, <2>2, AppendProperties
  <2>4. HandledOf(c)' = HandledOf(c) \cup {x.n}
    <3>1. \A i \in 1..Len(handled'[c]) : i \in 1..Len(handled[c]) \/ i = Len(handled[c]) + 1
      BY <1>5, <2>3
    <3>2. /\ 1..Len(handled[c]) \subseteq 1..Len(handled'[c])
          /\ Len(handled[c]) + 1 \in 1..Len(handled'[c])
      BY <1>5, <2>3
    <3> HIDE DEF x
    <3> QED BY <2>3, <3>1, <3>2 DEF HandledOf
  <2>5. x.n \in InHandOf(c)
    BY <1>3, <2>1 DEF InHandOf
  <2>6. \A k : LogMsg(c, k) = x => k = x.n
    BY <2>1, LogIs
  <2>7. InHandOf(c)' \subseteq InHandOf(c) /\ InHandOf(c) \subseteq InHandOf(c)' \cup {x.n}
    BY <1>6, <2>6 DEF InHandOf
  <2> QED BY <1>5, <2>1, <2>3, <2>4, <2>5, <2>7
<1>8. CASE ~(x.type = "log" /\ x.by = c)
  <2>1. handled'[c] = handled[c]
    BY <1>1, <1>4, <1>8 DEF MessagesInv, WorkTypes
  <2>2. HandledOf(c)' = HandledOf(c)
    BY <2>1 DEF HandledOf
  <2>3. \A k : x # LogMsg(c, k)
    BY <1>8, LogIs
  <2>4. InHandOf(c)' = InHandOf(c)
    BY <1>6, <2>3 DEF InHandOf
  <2> QED BY <1>5, <2>1, <2>2, <2>4
<1> QED BY <1>7, <1>8

LEMMA MessagesProcessed ==
  ASSUME AsyncInv, MessagesInv, NEW w \in pool, Process(w)
  PROVE  MessagesInv'
<1>1. /\ UNCHANGED <<ringVars, setting, accepted, overrun>> /\ AsyncTypes
      /\ worker[w] = "process"
      /\ worker' = [worker EXCEPT ![w] = IF job[w].type = "terminate" THEN "gone" ELSE "dequeue"]
      /\ IF job[w].type = "log" THEN BackendLog(job[w]) ELSE UNCHANGED handled
      /\ job' = [job EXCEPT ![w] = Nothing]
  BY DEF Process, AsyncInv
<1>2. Content' = Content /\ pool' = pool /\ pool \subseteq Workers
  BY <1>1, RingStays, PoolIs DEF pool
<1>3. ~Busy(w)' /\ \A v \in pool \ {w} : (Busy(v)' <=> Busy(v)) /\ job'[v] = job[v]
  <2>1. \A v \in pool \ {w} : worker'[v] = worker[v] /\ job'[v] = job[v]
    BY <1>1, <1>2 DEF MessagesInv, WorkTypes
  <2>2. worker'[w] \in {"gone", "dequeue"}
    BY <1>1, <1>2 DEF MessagesInv, WorkTypes
  <2> QED BY <1>1, <2>1, <2>2 DEF Busy
<1>4. \A c : QueuedOf(c)' = QueuedOf(c) /\ \A j : Before(c, j)' = Before(c, j)
  BY <1>2 DEF QueuedOf, Before, LogMsg
<1>5. \A c \in Clients : /\ HandledOf(c) \subseteq HandledOf(c)'
                         /\ HandledOf(c)' \cup InHandOf(c)' = HandledOf(c) \cup InHandOf(c)
  BY HandsOver
<1>6. WorkTypes'
  <2>1. handled' \in [Clients -> Seq(Nat)]
    <3>1. CASE job[w].type = "log"
      <4>1. job[w].n \in Nat
        BY <1>1, <3>1, LogIs, Typing DEF MessagesInv, WorkTypes, Addressed, Busy
      <4>2. handled \in [Clients -> Seq(Nat)]
        BY DEF MessagesInv, WorkTypes
      <4>3. \A c \in Clients : Append(handled[c], job[w].n) \in Seq(Nat)
        BY <4>1, <4>2, AppendProperties
      <4>4. handled' = [handled EXCEPT ![job[w].by] = Append(handled[job[w].by], job[w].n)]
        BY <1>1, <3>1 DEF BackendLog
      <4> QED BY <4>2, <4>3, <4>4
    <3>2. CASE job[w].type # "log"
      BY <1>1, <3>2 DEF MessagesInv, WorkTypes
    <3> QED BY <3>1, <3>2
  <2>2. worker' \in [Workers -> {"dequeue", "asleep", "notify", "process", "gone"}]
        /\ DOMAIN job' = Workers
    BY <1>1 DEF MessagesInv, WorkTypes
  <2>3. \A v \in pool : Busy(v)' => Addressed(job'[v])
    BY <1>3 DEF MessagesInv, WorkTypes
  <2> QED BY <1>1, <1>2, <2>1, <2>2, <2>3 DEF MessagesInv, WorkTypes, Addressed
<1>7. Accounted'
  <2>1. ASSUME NEW c \in Clients
        PROVE  1..accepted[c] = HandledOf(c)' \cup overrun[c] \cup QueuedOf(c)' \cup InHandOf(c)'
    BY <1>4, <1>5 DEF MessagesInv, Accounted
  <2> QED BY <1>1, <2>1 DEF Accounted
<1>8. InTurn'
  <2>1. ASSUME NEW j \in 1..Len(Content), Content[j].type = "flush", NEW c, c = Content[j].by
        PROVE  1..Content[j].n \subseteq HandledOf(c)' \cup overrun[c] \cup InHandOf(c)' \cup Before(c, j)'
    <3>1. c \in Clients
      BY <2>1 DEF MessagesInv, WorkTypes, Addressed
    <3>2. 1..Content[j].n \subseteq HandledOf(c) \cup overrun[c] \cup InHandOf(c) \cup Before(c, j)
      BY <2>1 DEF MessagesInv, InTurn
    <3> QED BY <1>4, <1>5, <3>1, <3>2
  <2>2. ASSUME NEW i \in 1..Len(Content), NEW j \in 1..Len(Content), i < j,
               Content[i].type = "log", Content[j].type = "log"
        PROVE  Content[i].by # Content[j].by \/ Content[i].n < Content[j].n
    BY <2>2 DEF MessagesInv, InTurn
  <2> QED BY <1>1, <1>2, <2>1, <2>2 DEF InTurn
<1>9. OneByOne'
  <2> SUFFICES ASSUME Cardinality(pool) = 1 PROVE OneByOne'
    BY <1>2 DEF OneByOne
  <2>1. pool = {w}
    BY <1>1, PoolIs
  <2>2. \A c : InHandOf(c)' = {}
    BY <1>2, <1>3, <2>1 DEF InHandOf
  <2>3. ASSUME NEW c \in Clients, NEW k \in HandledOf(c)', NEW m \in QueuedOf(c)'
        PROVE  k < m
    BY <1>4, <1>5, <2>2, <2>3 DEF MessagesInv, OneByOne
  <2>4. ASSUME NEW c \in Clients, NEW i \in 1..Len(handled'[c]), NEW j \in 1..Len(handled'[c]), i < j
        PROVE  handled'[c][i] < handled'[c][j]
    <3>1. CASE handled'[c] = handled[c]
      BY <2>4, <3>1 DEF MessagesInv, OneByOne
    <3>2. CASE /\ job[w].n \in InHandOf(c)
               /\ Len(handled'[c]) = Len(handled[c]) + 1
               /\ \A k \in 1..Len(handled[c]) : handled'[c][k] = handled[c][k]
               /\ handled'[c][Len(handled[c]) + 1] = job[w].n
      <4>1. /\ Len(handled[c]) \in Nat /\ i \in 1..Len(handled[c])
            /\ j \in 1..Len(handled[c]) \/ j = Len(handled[c]) + 1
        BY <2>4, <3>2, HandsOver
      <4>2. handled[c][i] \in HandledOf(c)
        BY <4>1 DEF HandledOf
      <4>3. handled[c][i] < job[w].n
        BY <3>2, <4>2 DEF MessagesInv, OneByOne
      <4>4. j \in 1..Len(handled[c]) => handled[c][i] < handled[c][j]
        BY <2>4, <4>1 DEF MessagesInv, OneByOne
      <4> QED BY <3>2, <4>1, <4>3, <4>4
    <3> QED BY <3>1, <3>2, HandsOver
  <2> QED BY <1>2, <1>3, <2>1, <2>2, <2>3, <2>4 DEF OneByOne
<1> QED BY <1>6, <1>7, <1>8, <1>9 DEF MessagesInv

-----------------------------------------------------------------------------
(* The end.  A step that is nobody's first or last in a post.              *)
LEMMA EndStays ==
  ASSUME AsyncTypes, EndInv, UNCHANGED <<ringVars, setting, holders, terminates, accepted>>,
         \A w \in pool : Untold(w)' <=> Untold(w),
         \A t \in Posters : /\ AtPost(t)' <=> AtPost(t)
                            /\ AtPost(t) => item'[t] = item[t] /\ (pc'[t] = "notify" <=> pc[t] = "notify")
                            /\ pc'[t] = "join" => pc[t] = "join",
         pc'[Main] \in {"idle", "deactivate", "join flusher"}
           => pc[Main] \in {"idle", "deactivate", "join flusher"}
  PROVE  EndInv'
<1>1. Content' = Content /\ pool' = pool
  BY RingStays DEF pool
<1>2. Posts'
  <2>1. \A t \in Posters : AtPost(t)' => /\ AtPost(t) /\ item'[t] = item[t]
                                         /\ pc'[t] # "notify" => pc[t] # "notify"
    OBVIOUS
  <2> QED BY <2>1 DEF EndInv, Posts, TerminateMsg
<1>3. Holding'
  BY DEF EndInv, Holding
<1>4. Left' = Left
  BY <1>1 DEF Left
<1>5. Lives'
  BY <1>1 DEF EndInv, Lives
<1>6. ToPost' = ToPost
  <2>1. \A t \in Posters : pc'[t] = "notify" <=> pc[t] = "notify"
    BY DEF AtPost
  <2> QED BY <2>1 DEF ToPost
<1>7. Ends'
  <2> HIDE DEF EndInv
  <2>1. ASSUME holders = {}
        PROVE  /\ \A t, u \in Posters : (AtPost(t) \/ pc[t] = "join") /\ (AtPost(u) \/ pc[u] = "join") => t = u
               /\ \E q \in 0..Len(Content) :
                    /\ \A i \in 1..Len(Content) : Content[i].type = "terminate" <=> i > Len(Content) - q
                    /\ ToPost + q = Cardinality(Left)
                    /\ ToPost < Cardinality(pool) /\ Content # <<>> => q > 0
    BY <2>1 DEF EndInv, Ends
  <2> QED BY <1>1, <1>4, <1>6, <2>1 DEF Ends
<1>8. NoOverrun'
  <2>1. overrun_counter_' = overrun_counter_ /\ policy' = policy
    BY DEF ringVars, policy
  <2> QED BY <2>1 DEF EndInv, NoOverrun
<1> QED BY <1>2, <1>3, <1>5, <1>7, <1>8 DEF EndInv

(* A thread enters a post while somebody holds the pool.                   *)
LEMMA EndEnters ==
  ASSUME AsyncTypes, EndInv, UNCHANGED <<ringVars, setting, workerVars, terminates, accepted>>,
         NEW t \in Posters \ {Main}, NEW m, holders # {}, holders' = holders \cup {t},
         item' = [item EXCEPT ![t] = m], pc' = [pc EXCEPT ![t] = "post"],
         m.type = "log" => m.n = accepted[t] + 1,
         m.type = "flush" => m.by \in Clients /\ m.n <= accepted[m.by],
         m.type # "terminate"
  PROVE  EndInv'
<1>1. Content' = Content /\ pool' = pool
  BY RingStays DEF pool
<1>2. /\ pc'[t] = "post" /\ item'[t] = m
      /\ \A u \in Posters \ {t} : pc'[u] = pc[u] /\ item'[u] = item[u]
  BY DEF AsyncTypes
<1>3. ASSUME NEW u \in Posters, AtPost(u)'
      PROVE  /\ item'[u].type = "log" /\ pc'[u] # "notify" => item'[u].n = accepted[u] + 1
             /\ item'[u].type = "flush" => item'[u].by \in Clients /\ item'[u].n <= accepted[item'[u].by]
             /\ item'[u].type # "terminate" /\ u \in holders'
  <2>1. CASE u = t
    BY <1>2, <2>1
  <2>2. CASE u # t
    <3>1. pc'[u] = pc[u] /\ item'[u] = item[u] /\ AtPost(u)
      BY <1>2, <1>3, <2>2 DEF AtPost
    <3> QED BY <3>1 DEF EndInv, Posts
  <2> QED BY <2>1, <2>2
<1>4. Posts'
  BY <1>3 DEF Posts
<1>5. Holding'
  <2>1. pc'[Main] = pc[Main]
    BY <1>2, Typing
  <2> QED BY <2>1 DEF EndInv, Holding
<1>6. Lives'
  <2>1. \A w \in pool : Untold(w)' <=> Untold(w)
    BY DEF Untold, Busy, workerVars
  <2> QED BY <1>1, <1>2, <2>1 DEF EndInv, Lives
<1>7. Ends' /\ NoOverrun'
  BY DEF EndInv, Ends, NoOverrun, policy, ringVars
<1> QED BY <1>4, <1>5, <1>6, <1>7 DEF EndInv

(* A message is pushed.                                                    *)
LEMMA EndPushed ==
  ASSUME AsyncInv, MessagesInv, EndInv, NEW t \in Posters, Enqueue(t), ~(Waits(t) /\ Full),
         PushBack(item[t]), pc' = [pc EXCEPT ![t] = "notify"],
         accepted' = IF item[t].type = "log"
                     THEN [accepted EXCEPT ![item[t].by] = @ + 1] ELSE accepted
  PROVE  EndInv'
<1> DEFINE x == item[t]
           n == Len(Content)
           d == IF Full THEN 1 ELSE 0
<1>1. /\ pc[t] = "post" /\ UNCHANGED <<setting, holders, item, terminates, worker, job>>
      /\ RingOK /\ AsyncTypes
  BY DEF Enqueue, workerVars, AsyncInv
<1>2. /\ x \in Messages /\ Addressed(x)
      /\ x.type = "log" => t \in Clients /\ x.by = t /\ x.n = accepted[t] + 1
  BY <1>1, PostedIs DEF EndInv
<1>3. /\ Content \in Seq(Messages) /\ n \in Nat /\ (Full => n >= 1)
      /\ Len(Content') = n - d + 1 /\ Content'[n - d + 1] = x
      /\ \A i \in 1..(n - d) : Content'[i] = Content[i + d]
      /\ overrun_counter_' = overrun_counter_ + d
  BY <1>1, <1>2, PushedLast
<1>4. d \in {0, 1} /\ n - d \in Nat /\ (d = 1 <=> Full)
  BY <1>3
<1> HIDE DEF x, n, d
<1>5. pool' = pool /\ policy' = policy
  BY <1>1 DEF pool, policy
<1>6. pc'[t] = "notify" /\ \A u \in Posters \ {t} : pc'[u] = pc[u]
  BY <1>1 DEF AsyncTypes
<1>7. \A u \in Posters : (AtPost(u)' <=> AtPost(u)) /\ (pc'[u] = "join" <=> pc[u] = "join")
  BY <1>1, <1>6 DEF AtPost
<1>8. \A c \in Clients : accepted[c] \in Nat /\ accepted'[c] \in Nat /\ accepted[c] <= accepted'[c]
                         /\ (c # t => accepted'[c] = accepted[c])
  <2>1. \A c \in Clients : accepted[c] \in Nat
    BY <1>1 DEF AsyncTypes
  <2>2. \A c \in Clients : accepted'[c] = IF x.type = "log" /\ c = t THEN accepted[c] + 1 ELSE accepted[c]
    BY <1>1, <1>2 DEF AsyncTypes, x
  <2> QED BY <2>1, <2>2
<1>9. Posts'
  <2>1. ASSUME NEW u \in Posters, AtPost(u)
        PROVE  /\ item[u].type = "log" /\ pc'[u] # "notify" => item[u].n = accepted'[u] + 1
               /\ item[u].type = "flush" => item[u].by \in Clients /\ item[u].n <= accepted'[item[u].by]
    <3>1. item[u] \in Messages /\ (item[u].type = "log" => u \in Clients)
      BY <2>1 DEF AsyncInv, Posting, AtPost
    <3>2. item[u].type = "log" /\ pc'[u] # "notify" => item[u].n = accepted'[u] + 1
      BY <1>6, <1>8, <2>1, <3>1 DEF EndInv, Posts
    <3>3. item[u].type = "flush" => item[u].by \in Clients /\ item[u].n <= accepted[item[u].by]
      BY <2>1 DEF EndInv, Posts
    <3>4. item[u].n \in Nat
      BY <3>1, LogIs, Typing
    <3> QED BY <1>8, <3>2, <3>3, <3>4
  <2>2. ASSUME NEW u \in Posters, AtPost(u)
        PROVE  /\ item[u].type # "terminate" => u \in holders
               /\ item[u].type = "terminate" => item[u] = TerminateMsg /\ holders = {} /\ terminates >= 1
    BY <2>2 DEF EndInv, Posts
  <2> QED BY <1>1, <1>7, <2>1, <2>2 DEF Posts, TerminateMsg
<1>10. Holding'
  <2>1. pc'[Main] \in {"idle", "deactivate", "join flusher"} => pc'[Main] = pc[Main]
    BY <1>6, Typing
  <2> QED BY <1>1, <2>1 DEF EndInv, Holding
<1>11. \A w : Untold(w)' <=> Untold(w)
  BY <1>1 DEF Untold, Busy
<1>12. \A i \in 1..Len(Content') : i = n - d + 1 \/ (i \in 1..(n - d) /\ i + d \in 1..n)
  BY <1>3, <1>4
<1>13. AtPost(t)
  BY <1>1 DEF AtPost
<1>14. Lives'
  <2>1. holders # {} => x.type # "terminate"
    BY <1>13 DEF EndInv, Posts, x
  <2>2. holders # {} => \A i \in 1..Len(Content') : Content'[i].type # "terminate"
    BY <1>3, <1>12, <2>1 DEF EndInv, Lives, n
  <2> QED BY <1>1, <1>5, <1>7, <1>11, <2>2 DEF EndInv, Lives
<1>15. Ends'
  <2> SUFFICES ASSUME holders = {} PROVE Ends'
    BY <1>1 DEF Ends
  <2>1. x.type = "terminate" /\ terminates >= 1 /\ terminates \in Nat
    BY <1>13 DEF EndInv, Posts, Holding, x
  <2>2. d = 0
    BY <1>4, <2>1 DEF Waits, x
  <2>3. \A u, v \in Posters : (AtPost(u) \/ pc[u] = "join") /\ (AtPost(v) \/ pc[v] = "join") => u = v
    BY DEF EndInv, Ends
  <2>4. \A u \in Posters : pc[u] # "notify"
    <3>1. \A u \in Posters : pc[u] = "notify" => u = t
      BY <1>13, <2>3 DEF AtPost
    <3> QED BY <1>1, <3>1
  <2>5. ToPost = terminates /\ ToPost' = terminates - 1
    BY <1>1, <1>6, <2>4 DEF ToPost
  <2>6. Left' = Left
    BY <1>5, <1>11 DEF Left
  <2>7. PICK q \in 0..n :
          /\ \A i \in 1..n : Content[i].type = "terminate" <=> i > n - q
          /\ ToPost + q = Cardinality(Left)
    BY DEF EndInv, Ends, n
  <2>8. q + 1 \in 0..Len(Content') /\ Len(Content') = n + 1 /\ Len(Content') - (q + 1) = n - q
    BY <1>3, <2>2, <2>7
  <2>9. \A i \in 1..Len(Content') : Content'[i].type = "terminate" <=> i > Len(Content') - (q + 1)
    <3> TAKE i \in 1..Len(Content')
    <3>1. CASE i = n + 1
      BY <1>3, <2>1, <2>2, <2>7, <2>8, <3>1
    <3>2. CASE i \in 1..n
      BY <1>3, <2>2, <2>7, <2>8, <3>2
    <3> QED BY <1>3, <2>8, <3>1, <3>2
  <2>10. ToPost' + (q + 1) = Cardinality(Left')
    BY <2>1, <2>5, <2>6, <2>7
  <2>11. q + 1 > 0
    BY <2>7
  <2>12. \E p \in 0..Len(Content') :
           /\ \A i \in 1..Len(Content') : Content'[i].type = "terminate" <=> i > Len(Content') - p
           /\ ToPost' + p = Cardinality(Left') /\ p > 0
    BY <2>8, <2>9, <2>10, <2>11
  <2> QED BY <1>7, <2>3, <2>12 DEF Ends
<1>16. NoOverrun'
  <2> SUFFICES ASSUME \A c \in Clients : policy[c] = "block" PROVE overrun_counter_' = 0
    BY <1>5 DEF NoOverrun
  <2>1. Waits(t)
    BY <1>2 DEF Waits, Addressed, x
  <2>2. d = 0 /\ overrun_counter_ = 0
    BY <1>4, <2>1 DEF EndInv, NoOverrun
  <2> QED BY <1>3, <2>2
<1> QED BY <1>9, <1>10, <1>14, <1>15, <1>16 DEF EndInv

(* A message is taken out of the queue.                                    *)
LEMMA EndPopped ==
  ASSUME AsyncInv, MessagesInv, EndInv, NEW w \in pool, Dequeue(w), ~Empty, PopFront,
         worker' = [worker EXCEPT ![w] = "notify"], job' = [job EXCEPT ![w] = Front]
  PROVE  EndInv'
<1> DEFINE x == Content[1]
           n == Len(Content)
<1>1. /\ worker[w] = "dequeue" /\ UNCHANGED <<setting, holders, pc, item, terminates, accepted>>
      /\ RingOK /\ AsyncTypes
  BY DEF Dequeue, threadVars, historyVars, AsyncInv
<1>2. /\ Content \in Seq(Messages) /\ n \in Nat \ {0} /\ Front = x
      /\ Len(Content') = n - 1 /\ \A i \in 1..(n - 1) : Content'[i] = Content[i + 1]
      /\ overrun_counter_' = overrun_counter_
  BY <1>1, PoppedFirst
<1> HIDE DEF x, n
<1>3. pool' = pool /\ policy' = policy /\ pool \subseteq Workers /\ IsFiniteSet(pool)
  BY <1>1, PoolIs DEF pool, policy
<1>4. /\ Untold(w) /\ (Untold(w)' <=> x.type # "terminate")
      /\ \A v \in pool \ {w} : Untold(v)' <=> Untold(v)
  <2>1. worker'[w] = "notify" /\ job'[w] = x
    BY <1>2, <1>3 DEF MessagesInv, WorkTypes
  <2>2. \A v \in pool \ {w} : worker'[v] = worker[v] /\ job'[v] = job[v]
    BY <1>3 DEF MessagesInv, WorkTypes
  <2> QED BY <1>1, <2>1, <2>2 DEF Untold, Busy
<1>5. \A i \in 1..Len(Content') : i + 1 \in 1..n /\ Content'[i] = Content[i + 1]
  BY <1>2
<1>6. Posts' /\ Holding'
  BY <1>1 DEF EndInv, Posts, Holding, AtPost, TerminateMsg
<1>7. Lives'
  <2> SUFFICES ASSUME holders # {} PROVE Lives'
    BY <1>1 DEF Lives
  <2>1. \A i \in 1..n : Content[i].type # "terminate"
    BY DEF EndInv, Lives, n
  <2>2. x.type # "terminate"
    BY <1>2, <2>1 DEF x
  <2>3. \A v \in pool : Untold(v)'
    BY <1>4, <2>2 DEF EndInv, Lives
  <2>4. \A i \in 1..Len(Content') : Content'[i].type # "terminate"
    BY <1>5, <2>1
  <2> QED BY <1>1, <1>3, <2>3, <2>4 DEF EndInv, Lives
<1>8. Ends'
  <2> SUFFICES ASSUME holders = {} PROVE Ends'
    BY <1>1 DEF Ends
  <2>1. \A u, v \in Posters : (AtPost(u) \/ pc[u] = "join") /\ (AtPost(v) \/ pc[v] = "join") => u = v
    BY DEF EndInv, Ends
  <2>2. ToPost' = ToPost
    BY <1>1 DEF ToPost
  <2>3. ToPost \in Int
    <3>1. terminates \in Nat
      BY DEF EndInv, Holding
    <3>2. terminates \in Int /\ terminates - 1 \in Int
      BY <3>1
    <3> QED BY <3>2 DEF ToPost
  <2>4. PICK q \in 0..n :
          /\ \A i \in 1..n : Content[i].type = "terminate" <=> i > n - q
          /\ ToPost + q = Cardinality(Left)
          /\ ToPost < Cardinality(pool) /\ Content # <<>> => q > 0
    BY DEF EndInv, Ends, n
  <2>5. /\ \A i \in 1..Len(Content') : Content'[i].type = "terminate" <=> i + 1 > n - q
        /\ x.type = "terminate" <=> 1 > n - q
    <3>1. 1 \in 1..n
      BY <1>2
    <3>2. x.type = "terminate" <=> 1 > n - q
      BY <2>4, <3>1 DEF x
    <3>3. ASSUME NEW i \in 1..Len(Content')
          PROVE  Content'[i].type = "terminate" <=> i + 1 > n - q
      BY <1>5, <2>4
    <3> QED BY <3>2, <3>3
  <2>6. CASE x.type = "terminate"
    <3>1. q = n
      BY <1>2, <2>4, <2>5, <2>6
    <3>2. Left' = Left \ {w} /\ w \in Left
      BY <1>3, <1>4, <2>6 DEF Left
    <3>3. Cardinality(Left') = Cardinality(Left) - 1
      <4>1. IsFiniteSet(Left)
        BY <1>3, FS_Subset DEF Left
      <4> QED BY <3>2, <4>1, FS_RemoveElement
    <3>4. n - 1 \in 0..Len(Content') /\ ToPost' + (n - 1) = Cardinality(Left')
      BY <1>2, <2>2, <2>3, <2>4, <3>1, <3>3
    <3>5. \A i \in 1..Len(Content') : Content'[i].type = "terminate" <=> i > Len(Content') - (n - 1)
      BY <1>2, <2>5, <3>1
    <3>6. Content' # <<>> => n - 1 > 0
      <4>1. n - 1 = 0 => Content' = <<>>
        <5>1. Content' \in Seq(Messages)
          BY <1>1, PopFrontPops, ContentNext DEF ContentAsSlots
        <5> QED BY <1>2, <5>1, EmptySeq
      <4> QED BY <1>2, <4>1
    <3>7. \E p \in 0..Len(Content') :
            /\ \A i \in 1..Len(Content') : Content'[i].type = "terminate" <=> i > Len(Content') - p
            /\ ToPost' + p = Cardinality(Left') /\ (Content' # <<>> => p > 0)
      <4> HIDE DEF ToPost, Left
      <4> QED BY <1>2, <3>4, <3>5, <3>6
    <3> QED BY <1>1, <2>1, <3>7 DEF Ends, AtPost
  <2>7. CASE x.type # "terminate"
    <3>1. q < n /\ q \in 0..Len(Content')
      BY <1>2, <2>4, <2>5, <2>7
    <3>2. Left' = Left
      BY <1>3, <1>4, <2>7 DEF Left
    <3>3. \A i \in 1..Len(Content') : Content'[i].type = "terminate" <=> i > Len(Content') - q
      BY <1>2, <2>4, <2>5
    <3>4. Content # <<>>
      BY <1>2 DEF n
    <3>5. \E p \in 0..Len(Content') :
            /\ \A i \in 1..Len(Content') : Content'[i].type = "terminate" <=> i > Len(Content') - p
            /\ ToPost' + p = Cardinality(Left') /\ (ToPost < Cardinality(pool) => p > 0)
      BY <2>2, <2>4, <3>1, <3>2, <3>3, <3>4
    <3> QED BY <1>1, <1>3, <2>1, <2>2, <3>5 DEF Ends, AtPost
  <2> QED BY <2>6, <2>7
<1>9. NoOverrun'
  BY <1>2, <1>3 DEF EndInv, NoOverrun
<1> QED BY <1>6, <1>7, <1>8, <1>9 DEF EndInv

(* A post ends, and whoever held the pool as the last begins to destroy it.*)
LEMMA EndReleases ==
  ASSUME AsyncInv, EndInv, NEW t \in Posters, NEW who, Releases(t, who), who \in holders,
         UNCHANGED <<ringVars, setting, accepted>>,
         \A w \in pool : Untold(w)' <=> Untold(w),
         who = t \/ (who = Registry /\ t = Main /\ ~AtPost(t)),
         t = Main => pc[Main] \notin {"idle", "deactivate"}
  PROVE  EndInv'
<1>1. Content' = Content /\ pool' = pool /\ policy' = policy /\ AsyncTypes
  BY RingStays DEF pool, policy, AsyncInv
<1>2. /\ holders' = holders \ {who} /\ holders # {} /\ Registry \notin Posters
      /\ Returns(t) \in {"next", "done", "idle"} /\ Returns(Main) = "done"
  BY AsyncAssumption, Typing DEF Releases, Posters, Registry, Main, Flusher, Returns
<1>3. \A u \in Posters \ {t} : pc'[u] = pc[u] /\ item'[u] = item[u]
  BY <1>1 DEF Releases, AsyncTypes
<1>4. \A u \in Posters : pc[u] # "join" /\ (AtPost(u) => u \in holders /\ item[u].type # "terminate")
  BY <1>2 DEF EndInv, Lives, Posts
<1>5. /\ \A w \in pool : Untold(w)'
      /\ \A i \in 1..Len(Content) : Content[i].type # "terminate"
  BY <1>2 DEF EndInv, Lives
<1>6. NoOverrun'
  BY <1>1 DEF EndInv, NoOverrun, ringVars
<1>7. CASE holders' # {}
  <2>1. /\ pc'[t] = Returns(t) /\ UNCHANGED terminates
    BY <1>1, <1>7 DEF Releases, AsyncTypes
  <2>2. ASSUME NEW u \in Posters, AtPost(u)'
        PROVE  u # t /\ AtPost(u) /\ pc'[u] = pc[u] /\ item'[u] = item[u] /\ u \in holders'
    <3>1. u # t
      BY <1>2, <2>1, <2>2 DEF AtPost
    <3>2. AtPost(u) /\ pc'[u] = pc[u] /\ item'[u] = item[u]
      BY <1>3, <2>2, <3>1 DEF AtPost
    <3>3. u # who
      BY <1>2, <3>1
    <3> QED BY <1>2, <1>4, <3>1, <3>2, <3>3
  <2>3. Posts'
    BY <1>4, <2>2 DEF EndInv, Posts
  <2>4. Holding'
    <3>1. CASE t = Main
      BY <1>2, <2>1, <3>1 DEF EndInv, Holding
    <3>2. CASE t # Main
      BY <1>2, <1>3, <2>1, <3>2, Typing DEF EndInv, Holding
    <3> QED BY <3>1, <3>2
  <2>5. Lives'
    BY <1>1, <1>2, <1>3, <1>4, <1>5, <2>1 DEF Lives
  <2>6. Ends'
    BY <1>7 DEF Ends
  <2> QED BY <1>6, <2>3, <2>4, <2>5, <2>6 DEF EndInv
<1>8. CASE holders' = {}
  <2>1. /\ pc'[t] = "post" /\ item'[t] = TerminateMsg /\ terminates' = Cardinality(pool)
    BY <1>1, <1>8 DEF Releases, AsyncTypes
  <2>2. \A u \in Posters \ {t} : ~AtPost(u)' /\ pc'[u] # "join" /\ pc'[u] # "notify"
    <3>1. ASSUME NEW u \in Posters \ {t}
          PROVE  ~AtPost(u)
      <4>1. u # who
        BY <1>2
      <4> QED BY <1>2, <1>4, <1>8, <4>1
    <3> QED BY <1>3, <1>4, <3>1 DEF AtPost
  <2>3. Cardinality(pool) \in Nat \ {0}
    BY <1>1, PoolIs
  <2>4. TerminateMsg.type = "terminate"
    BY DEF TerminateMsg
  <2>5. Posts'
    BY <1>8, <2>1, <2>2, <2>3, <2>4 DEF Posts, TerminateMsg
  <2>6. Holding'
    <3>1. pc'[Main] \notin {"idle", "deactivate", "join flusher"}
      <4>1. CASE t = Main
        BY <2>1, <4>1
      <4>2. CASE t # Main
        <5>1. who # Registry /\ pc'[Main] = pc[Main]
          BY <1>2, <1>3, <4>2, Typing
        <5> QED BY <1>2, <1>8, <5>1 DEF EndInv, Holding
      <4> QED BY <4>1, <4>2
    <3> QED BY <1>8, <2>1, <2>3, <3>1 DEF Holding
  <2>7. Lives'
    BY <1>8 DEF Lives
  <2>8. Ends'
    <3>1. \A u, v \in Posters : (AtPost(u)' \/ pc'[u] = "join") /\ (AtPost(v)' \/ pc'[v] = "join") => u = v
      BY <2>2
    <3>2. \A u \in Posters : pc'[u] # "notify"
      BY <2>1, <2>2
    <3>3. ToPost' = Cardinality(pool)
      BY <2>1, <3>2 DEF ToPost
    <3>4. Left' = pool
      BY <1>1, <1>5 DEF Left
    <3>5. Len(Content) \in Nat
      BY ContentIs DEF AsyncInv, ContentAsSlots
    <3>6. 0 \in 0..Len(Content) /\ \A i \in 1..Len(Content) : ~(i > Len(Content) - 0)
      BY <3>5
    <3>7. ToPost' + 0 = Cardinality(pool) /\ ~(ToPost' < Cardinality(pool))
      BY <2>3, <3>3
    <3>8. \E q \in 0..Len(Content) :
            /\ \A i \in 1..Len(Content) : Content[i].type = "terminate" <=> i > Len(Content) - q
            /\ ToPost' + q = Cardinality(pool)
      BY <1>5, <3>6, <3>7
    <3> QED BY <1>1, <3>1, <3>4, <3>7, <3>8 DEF Ends
  <2> QED BY <1>6, <2>5, <2>6, <2>7, <2>8 DEF EndInv
<1> QED BY <1>7, <1>8

(* One terminate message has been posted.                                  *)
LEMMA EndPostedTerminate ==
  ASSUME AsyncInv, EndInv, NEW t \in Posters, PostedTerminate(t),
         \A w \in pool : Untold(w)' <=> Untold(w)
  PROVE  EndInv'
<1>1. /\ pc[t] = "notify" /\ item[t] = TerminateMsg /\ terminates' = terminates - 1
      /\ pc' = [pc EXCEPT ![t] = IF terminates = 1 THEN "join" ELSE "post"]
      /\ UNCHANGED <<ringVars, setting, holders, item, accepted>> /\ AsyncTypes
  BY DEF PostedTerminate, historyVars, AsyncInv
<1>2. Content' = Content /\ pool' = pool /\ policy' = policy
  BY <1>1, RingStays DEF pool, policy
<1>3. AtPost(t) /\ TerminateMsg.type = "terminate"
  BY <1>1 DEF AtPost, TerminateMsg
<1>4. holders = {} /\ terminates \in Nat /\ terminates >= 1
  BY <1>1, <1>3 DEF EndInv, Posts, Holding
<1>5. \A u, v \in Posters : (AtPost(u) \/ pc[u] = "join") /\ (AtPost(v) \/ pc[v] = "join") => u = v
  BY <1>4 DEF EndInv, Ends
<1>6. /\ pc'[t] = (IF terminates = 1 THEN "join" ELSE "post") /\ ~(pc'[t] = "notify")
      /\ \A u \in Posters \ {t} : pc'[u] = pc[u] /\ ~AtPost(u) /\ pc[u] # "join" /\ pc[u] # "notify"
  <2>1. \A u \in Posters \ {t} : ~AtPost(u) /\ pc[u] # "join"
    BY <1>3, <1>5
  <2> QED BY <1>1, <2>1 DEF AsyncTypes, AtPost
<1>7. \A u \in Posters \ {t} : ~AtPost(u)'
  BY <1>6 DEF AtPost
<1>8. Posts'
  <2>1. AtPost(t)' => terminates' >= 1
    BY <1>1, <1>4, <1>6 DEF AtPost
  <2> QED BY <1>1, <1>3, <1>4, <1>7, <2>1 DEF Posts, TerminateMsg
<1>9. Holding'
  <2>1. terminates' \in Nat
    BY <1>1, <1>4
  <2>2. pc'[Main] \notin {"idle", "deactivate", "join flusher"}
    BY <1>4, <1>6, Typing DEF EndInv, Holding
  <2> QED BY <1>1, <2>1, <2>2 DEF EndInv, Holding
<1>10. Lives'
  BY <1>1, <1>4 DEF Lives
<1>11. Ends'
  <2>1. ToPost = terminates - 1
    BY <1>1 DEF ToPost
  <2>2. ToPost' = terminates'
    BY <1>6 DEF ToPost
  <2>3. Left' = Left /\ ToPost' = ToPost
    BY <1>1, <1>2, <2>1, <2>2 DEF Left
  <2>4. \A u, v \in Posters : (AtPost(u)' \/ pc'[u] = "join") /\ (AtPost(v)' \/ pc'[v] = "join") => u = v
    BY <1>6, <1>7
  <2>5. \E q \in 0..Len(Content) :
          /\ \A i \in 1..Len(Content) : Content[i].type = "terminate" <=> i > Len(Content) - q
          /\ ToPost + q = Cardinality(Left)
          /\ ToPost < Cardinality(pool) /\ Content # <<>> => q > 0
    BY <1>4 DEF EndInv, Ends
  <2> QED BY <1>2, <2>3, <2>4, <2>5 DEF Ends
<1>12. NoOverrun'
  BY <1>1, <1>2 DEF EndInv, NoOverrun, ringVars
<1> QED BY <1>8, <1>9, <1>10, <1>11, <1>12 DEF EndInv

-----------------------------------------------------------------------------
(* All of it together: every step keeps the account of the messages and    *)
(* the count of those that end the threads.                                *)
FateInv == AsyncInv /\ MessagesInv /\ EndInv

LEMMA FateInit == InitAsync => FateInv
<1> SUFFICES ASSUME InitAsync PROVE FateInv
  OBVIOUS
<1> USE DEF InitAsync
<1>1. AsyncInv /\ RingOK /\ Size = 0
  BY AsyncInit DEF AsyncInv, InitRing, Size
<1>2. Len(Content) = 0
  BY <1>1, ContentIs DEF ContentAsSlots
<1>3. AsyncTypes /\ MaxCalls \in Nat
  BY <1>1, Typing DEF AsyncInv
<1>4. \A w \in Workers : worker[w] = "dequeue"
  OBVIOUS
<1>5. \A w \in pool : ~Busy(w) /\ Untold(w)
  BY <1>3, <1>4, PoolIs DEF Busy, Untold
<1>6. \A c \in Clients : /\ handled[c] = <<>> /\ Len(handled[c]) = 0 /\ overrun[c] = {}
                         /\ HandledOf(c) = {} /\ QueuedOf(c) = {} /\ InHandOf(c) = {}
  <2>1. \A c \in Clients : handled[c] = <<>> /\ Len(handled[c]) = 0 /\ overrun[c] = {}
    OBVIOUS
  <2>2. \A c \in Clients : HandledOf(c) = {}
    BY <2>1 DEF HandledOf
  <2>3. \A c : QueuedOf(c) = {}
    BY <1>2 DEF QueuedOf, Before
  <2>4. \A c : InHandOf(c) = {}
    BY <1>5 DEF InHandOf
  <2> QED BY <2>1, <2>2, <2>3, <2>4
<1>7. WorkTypes
  BY <1>2, <1>5 DEF WorkTypes
<1>8. Accounted
  <2>1. \A c \in Clients : accepted[c] = 0 /\ 1..accepted[c] = {}
    OBVIOUS
  <2> QED BY <1>6, <2>1 DEF Accounted
<1>9. InTurn /\ OneByOne
  BY <1>2, <1>5, <1>6 DEF InTurn, OneByOne
<1>10. \A t \in Posters : pc[t] = "idle" /\ ~AtPost(t)
  BY DEF AtPost
<1>11. Posts /\ Holding
  BY <1>10 DEF Posts, Holding
<1>12. Lives /\ Ends /\ NoOverrun
  BY <1>2, <1>5, <1>10 DEF Lives, Ends, NoOverrun, InitRing
<1> QED BY <1>1, <1>7, <1>8, <1>9, <1>11, <1>12 DEF FateInv, MessagesInv, EndInv

(* A notification wakes a thread of the pool, or none.                     *)
LEMMA WorkerWoken ==
  ASSUME AsyncInv, MessagesInv, WakeWorker, UNCHANGED <<setting, job>>
  PROVE  /\ worker' \in [Workers -> {"dequeue", "asleep", "notify", "process", "gone"}]
         /\ \A w \in pool : (Busy(w)' <=> Busy(w)) /\ (Untold(w)' <=> Untold(w))
<1>1. pool \subseteq Workers /\ worker \in [Workers -> {"dequeue", "asleep", "notify", "process", "gone"}]
  BY PoolIs DEF AsyncInv, MessagesInv, WorkTypes
<1>2. CASE UNCHANGED worker
  BY <1>1, <1>2 DEF Busy, Untold
<1>3. ASSUME NEW v \in pool, worker[v] = "asleep", worker' = [worker EXCEPT ![v] = "dequeue"]
      PROVE  /\ worker' \in [Workers -> {"dequeue", "asleep", "notify", "process", "gone"}]
             /\ \A w \in pool : (Busy(w)' <=> Busy(w)) /\ (Untold(w)' <=> Untold(w))
  <2>1. worker'[v] = "dequeue" /\ \A w \in pool \ {v} : worker'[w] = worker[w]
    BY <1>1, <1>3
  <2> QED BY <1>1, <1>3, <2>1 DEF Busy, Untold
<1> QED BY <1>2, <1>3 DEF WakeWorker

(* The steps of the posting threads ...                                    *)
LEMMA FatePost ==
  ASSUME FateInv, NEW t \in Posters, Post(t) \/ SpuriousWakeup(t)
  PROVE  MessagesInv' /\ EndInv'
<1> USE DEF FateInv, threadVars, workerVars, flusherVars, historyVars
<1>0. /\ AsyncTypes /\ pool \subseteq Workers
      /\ worker \in [Workers -> {"dequeue", "asleep", "notify", "process", "gone"}]
  BY PoolIs DEF AsyncInv, MessagesInv, WorkTypes
<1>1. CASE Enqueue(t) /\ ~(Waits(t) /\ Full)
  <2>1. /\ pc' = [pc EXCEPT ![t] = "notify"] /\ PushBack(item[t])
        /\ accepted' = IF item[t].type = "log"
                       THEN [accepted EXCEPT ![item[t].by] = @ + 1] ELSE accepted
        /\ overrun' = IF Full /\ Front.type = "log"
                      THEN [overrun EXCEPT ![Front.by] = @ \cup {Front.n}] ELSE overrun
    BY <1>1 DEF Enqueue
  <2>2. Posts
    BY DEF EndInv
  <2>3. MessagesInv'
    BY <1>1, <2>1, <2>2, MessagesPushed
  <2>4. EndInv'
    BY <1>1, <2>1, EndPushed
  <2> QED BY <2>3, <2>4
<1>2. CASE (Enqueue(t) /\ Waits(t) /\ Full) \/ SpuriousWakeup(t)
  <2>1. /\ UNCHANGED <<ringVars, setting, holders, item, terminates, worker, job, accepted, handled, overrun>>
        /\ \/ pc[t] = "post" /\ pc' = [pc EXCEPT ![t] = "asleep"]
           \/ pc[t] = "asleep" /\ pc' = [pc EXCEPT ![t] = "post"]
    BY <1>2 DEF Enqueue, SpuriousWakeup
  <2>2. \A w \in pool : (Busy(w)' <=> Busy(w)) /\ (Untold(w)' <=> Untold(w))
    BY <2>1 DEF Busy, Untold
  <2>3. MessagesInv'
    BY <1>0, <2>1, <2>2, MessagesStay
  <2>4. /\ AtPost(t) /\ AtPost(t)' /\ pc[t] # "notify" /\ pc'[t] \in {"post", "asleep"}
        /\ \A u \in Posters \ {t} : pc'[u] = pc[u]
    BY <1>0, <2>1 DEF AsyncTypes, AtPost
  <2>5. \A u \in Posters : /\ AtPost(u)' <=> AtPost(u)
                           /\ AtPost(u) => item'[u] = item[u] /\ (pc'[u] = "notify" <=> pc[u] = "notify")
                           /\ pc'[u] = "join" => pc[u] = "join"
    BY <2>1, <2>4 DEF AtPost
  <2>6. pc'[Main] \in {"idle", "deactivate", "join flusher"}
          => pc[Main] \in {"idle", "deactivate", "join flusher"}
    BY <2>4, Typing
  <2>7. EndInv'
    BY <1>0, <2>1, <2>2, <2>5, <2>6, EndStays
  <2> QED BY <2>3, <2>7
<1>3. CASE Posted(t)
  <2>1. /\ UNCHANGED <<ringVars, setting, job, accepted, handled, overrun>>
        /\ WakeWorker /\ Releases(t, t) /\ pc[t] = "notify" /\ item[t] # TerminateMsg
    BY <1>3 DEF Posted
  <2>2. MessagesInv'
    BY <1>0, <2>1, WorkerWoken, MessagesStay
  <2>3. t \in holders
    BY <2>1 DEF EndInv, Posts, AtPost
  <2>4. \A w \in pool : Untold(w)' <=> Untold(w)
    BY <2>1, WorkerWoken
  <2>5. t = Main => pc[Main] \notin {"idle", "deactivate"}
    BY <2>1
  <2>6. EndInv'
    BY <2>1, <2>3, <2>4, <2>5, EndReleases
  <2> QED BY <2>2, <2>6
<1>4. CASE PostedTerminate(t)
  <2>1. UNCHANGED <<ringVars, setting, job, accepted, handled, overrun>> /\ WakeWorker
    BY <1>4 DEF PostedTerminate
  <2>2. MessagesInv'
    BY <1>0, <2>1, WorkerWoken, MessagesStay
  <2>3. \A w \in pool : Untold(w)' <=> Untold(w)
    BY <2>1, WorkerWoken
  <2>4. EndInv'
    BY <1>4, <2>3, EndPostedTerminate
  <2> QED BY <2>2, <2>4
<1>5. CASE Join(t)
  <2>1. /\ UNCHANGED <<ringVars, setting, holders, terminates, worker, job, accepted, handled, overrun>>
        /\ pc[t] = "join" /\ pc' = [pc EXCEPT ![t] = Returns(t)]
        /\ item' = [item EXCEPT ![t] = Nothing]
    BY <1>5 DEF Join
  <2>2. \A w \in pool : (Busy(w)' <=> Busy(w)) /\ (Untold(w)' <=> Untold(w))
    BY <2>1 DEF Busy, Untold
  <2>3. MessagesInv'
    BY <1>0, <2>1, <2>2, MessagesStay
  <2>4. Returns(t) \in {"next", "done", "idle"} /\ (t = Main => Returns(t) = "done")
    BY Typing DEF Returns
  <2>5. /\ pc'[t] = Returns(t)
        /\ \A u \in Posters \ {t} : pc'[u] = pc[u] /\ item'[u] = item[u]
    BY <1>0, <2>1 DEF AsyncTypes
  <2>6. \A u \in Posters : /\ AtPost(u)' <=> AtPost(u)
                           /\ AtPost(u) => item'[u] = item[u] /\ (pc'[u] = "notify" <=> pc[u] = "notify")
                           /\ pc'[u] = "join" => pc[u] = "join"
    BY <2>1, <2>4, <2>5 DEF AtPost
  <2>7. pc'[Main] \in {"idle", "deactivate", "join flusher"}
          => pc[Main] \in {"idle", "deactivate", "join flusher"}
    BY <2>4, <2>5, Typing
  <2>8. EndInv'
    BY <1>0, <2>1, <2>2, <2>6, <2>7, EndStays
  <2> QED BY <2>3, <2>8
<1> QED BY <1>1, <1>2, <1>3, <1>4, <1>5 DEF Post

(* ... of the threads of the pool ...                                      *)
LEMMA FatePooled ==
  ASSUME FateInv, NEW w \in pool, Pooled(w) \/ Timeout(w)
  PROVE  MessagesInv' /\ EndInv'
<1> USE DEF FateInv, threadVars, workerVars, flusherVars, historyVars
<1>0. /\ AsyncTypes /\ pool \subseteq Workers
      /\ worker \in [Workers -> {"dequeue", "asleep", "notify", "process", "gone"}]
  BY PoolIs DEF AsyncInv, MessagesInv, WorkTypes
<1>1. CASE Dequeue(w) /\ ~Empty
  <2>1. PopFront /\ worker' = [worker EXCEPT ![w] = "notify"] /\ job' = [job EXCEPT ![w] = Front]
    BY <1>1 DEF Dequeue
  <2> QED BY <1>1, <2>1, MessagesPopped, EndPopped
<1>2. CASE (Dequeue(w) /\ Empty) \/ Timeout(w)
  <2>1. /\ UNCHANGED <<ringVars, setting, holders, pc, item, terminates, job, accepted, handled, overrun>>
        /\ \/ worker[w] = "dequeue" /\ worker' = [worker EXCEPT ![w] = "asleep"]
           \/ worker[w] = "asleep" /\ worker' = [worker EXCEPT ![w] = "dequeue"]
    BY <1>2 DEF Dequeue, Timeout
  <2>2. worker'[w] \in {"dequeue", "asleep"} /\ \A v \in pool \ {w} : worker'[v] = worker[v]
    BY <1>0, <2>1
  <2>3. /\ worker' \in [Workers -> {"dequeue", "asleep", "notify", "process", "gone"}]
        /\ \A v \in pool : (Busy(v)' <=> Busy(v)) /\ (Untold(v)' <=> Untold(v))
    BY <1>0, <2>1, <2>2 DEF Busy, Untold
  <2>4. MessagesInv'
    BY <1>0, <2>1, <2>3, MessagesStay
  <2>5. \A u \in Posters : /\ AtPost(u)' <=> AtPost(u)
                           /\ AtPost(u) => item'[u] = item[u] /\ (pc'[u] = "notify" <=> pc[u] = "notify")
                           /\ pc'[u] = "join" => pc[u] = "join"
    BY <2>1 DEF AtPost
  <2>6. EndInv'
    BY <1>0, <2>1, <2>3, <2>5, EndStays
  <2> QED BY <2>4, <2>6
<1>3. CASE NotifyPop(w)
  <2>1. /\ UNCHANGED <<ringVars, setting, holders, item, terminates, job, accepted, handled, overrun>>
        /\ worker[w] = "notify" /\ worker' = [worker EXCEPT ![w] = "process"]
        /\ \/ UNCHANGED pc
           \/ \E t \in Posters : pc[t] = "asleep" /\ pc' = [pc EXCEPT ![t] = "post"]
    BY <1>3 DEF NotifyPop
  <2>2. worker'[w] = "process" /\ \A v \in pool \ {w} : worker'[v] = worker[v]
    BY <1>0, <2>1
  <2>3. /\ worker' \in [Workers -> {"dequeue", "asleep", "notify", "process", "gone"}]
        /\ \A v \in pool : (Busy(v)' <=> Busy(v)) /\ (Untold(v)' <=> Untold(v))
    BY <1>0, <2>1, <2>2 DEF Busy, Untold
  <2>4. MessagesInv'
    BY <1>0, <2>1, <2>3, MessagesStay
  <2>5. \A u \in Posters : pc'[u] = pc[u] \/ (pc[u] = "asleep" /\ pc'[u] = "post")
    BY <1>0, <2>1 DEF AsyncTypes
  <2>6. \A u \in Posters : /\ AtPost(u)' <=> AtPost(u)
                           /\ AtPost(u) => item'[u] = item[u] /\ (pc'[u] = "notify" <=> pc[u] = "notify")
                           /\ pc'[u] = "join" => pc[u] = "join"
    BY <2>1, <2>5 DEF AtPost
  <2>7. pc'[Main] \in {"idle", "deactivate", "join flusher"}
          => pc[Main] \in {"idle", "deactivate", "join flusher"}
    BY <2>5, Typing
  <2>8. EndInv'
    BY <1>0, <2>1, <2>3, <2>6, <2>7, EndStays
  <2> QED BY <2>4, <2>8
<1>4. CASE Process(w)
  <2>1. /\ UNCHANGED <<ringVars, setting, holders, pc, item, terminates, accepted>>
        /\ worker[w] = "process" /\ job' = [job EXCEPT ![w] = Nothing]
        /\ worker' = [worker EXCEPT ![w] = IF job[w].type = "terminate" THEN "gone" ELSE "dequeue"]
    BY <1>4 DEF Process
  <2>2. /\ worker'[w] = IF job[w].type = "terminate" THEN "gone" ELSE "dequeue"
        /\ \A v \in pool \ {w} : worker'[v] = worker[v] /\ job'[v] = job[v]
    BY <1>0, <2>1 DEF MessagesInv, WorkTypes
  <2>3. Untold(w)' <=> Untold(w)
    BY <2>1, <2>2 DEF Busy, Untold
  <2>4. \A v \in pool : Untold(v)' <=> Untold(v)
    BY <2>2, <2>3 DEF Busy, Untold
  <2>5. \A u \in Posters : /\ AtPost(u)' <=> AtPost(u)
                           /\ AtPost(u) => item'[u] = item[u] /\ (pc'[u] = "notify" <=> pc[u] = "notify")
                           /\ pc'[u] = "join" => pc[u] = "join"
    BY <2>1 DEF AtPost
  <2>6. EndInv'
    BY <1>0, <2>1, <2>4, <2>5, EndStays
  <2>7. MessagesInv'
    BY <1>4, MessagesProcessed
  <2> QED BY <2>6, <2>7
<1> QED BY <1>1, <1>2, <1>3, <1>4 DEF Pooled

(* ... and of the others: the callers, the flusher and shutdown().         *)
LEMMA FateOthers ==
  ASSUME FateInv,
         \/ \E c \in Clients : Log(c)
         \/ FlushAll \/ FlushNext \/ FlusherEnds \/ Shutdown \/ StopFlusher \/ DropPool
         \/ UNCHANGED asyncVars
  PROVE  MessagesInv' /\ EndInv'
<1> USE DEF FateInv, threadVars, workerVars, flusherVars, historyVars
<1>0. /\ AsyncTypes /\ pool \subseteq Workers
      /\ worker \in [Workers -> {"dequeue", "asleep", "notify", "process", "gone"}]
  BY PoolIs DEF AsyncInv, MessagesInv, WorkTypes
<1>1. UNCHANGED <<ringVars, setting, worker, job, accepted, handled, overrun>>
  BY DEF Log, FlushAll, FlushNext, FlusherEnds, Shutdown, StopFlusher, DropPool, asyncVars
<1>2. \A w \in pool : (Busy(w)' <=> Busy(w)) /\ (Untold(w)' <=> Untold(w))
  BY <1>1 DEF Busy, Untold
<1>3. MessagesInv'
  BY <1>0, <1>1, <1>2, MessagesStay
<1>4. ASSUME NEW t \in Posters, NEW p, ~AtPost(t), p \notin {"post", "asleep", "notify", "join"},
             t = Main => p # "idle" /\ (p \in {"deactivate", "join flusher"}
                                          => pc[Main] \in {"idle", "deactivate", "join flusher"}),
             pc' = [pc EXCEPT ![t] = p], UNCHANGED <<holders, item, terminates>>
      PROVE  EndInv'
  <2>1. pc'[t] = p /\ \A u \in Posters \ {t} : pc'[u] = pc[u]
    BY <1>0, <1>4 DEF AsyncTypes
  <2>2. \A u \in Posters : /\ AtPost(u)' <=> AtPost(u)
                           /\ AtPost(u) => item'[u] = item[u] /\ (pc'[u] = "notify" <=> pc[u] = "notify")
                           /\ pc'[u] = "join" => pc[u] = "join"
    BY <1>4, <2>1 DEF AtPost
  <2>3. pc'[Main] \in {"idle", "deactivate", "join flusher"}
          => pc[Main] \in {"idle", "deactivate", "join flusher"}
    BY <1>4, <2>1, Typing
  <2> QED BY <1>0, <1>1, <1>2, <1>4, <2>2, <2>3, EndStays
<1>5. ASSUME UNCHANGED <<holders, pc, item, terminates>>
      PROVE  EndInv'
  <2>1. \A u \in Posters : /\ AtPost(u)' <=> AtPost(u)
                           /\ AtPost(u) => item'[u] = item[u] /\ (pc'[u] = "notify" <=> pc[u] = "notify")
                           /\ pc'[u] = "join" => pc[u] = "join"
    BY <1>5 DEF AtPost
  <2> QED BY <1>0, <1>1, <1>2, <1>5, <2>1, EndStays
<1>6. ASSUME NEW c \in Clients, Log(c)
      PROVE  EndInv'
  <2>1. CASE Expired
    BY <1>5, <1>6, <2>1 DEF Log
  <2>2. CASE ~Expired
    <3>1. /\ holders # {} /\ holders' = holders \cup {c} /\ UNCHANGED terminates
          /\ item' = [item EXCEPT ![c] = LogMsg(c, accepted[c] + 1)]
          /\ pc' = [pc EXCEPT ![c] = "post"]
      BY <1>6, <2>2 DEF Log, Expired
    <3>2. LogMsg(c, accepted[c] + 1).type = "log" /\ LogMsg(c, accepted[c] + 1).n = accepted[c] + 1
      BY LogIs
    <3>3. c \in Posters \ {Main}
      BY Typing
    <3> QED BY <1>0, <1>1, <3>1, <3>2, <3>3, EndEnters
  <2> QED BY <2>1, <2>2
<1>7. ASSUME FlushNext
      PROVE  EndInv'
  <2>1. pc[Flusher] = "next" /\ ~AtPost(Flusher) /\ Flusher \in Posters /\ Flusher # Main
    BY <1>7, Typing DEF FlushNext, AtPost
  <2>2. CASE toFlush = {} /\ pc' = [pc EXCEPT ![Flusher] = "idle"] /\ UNCHANGED <<holders, item>>
    BY <1>4, <1>7, <2>1, <2>2 DEF FlushNext
  <2>3. CASE UNCHANGED <<holders, item, pc>>
    BY <1>5, <1>7, <2>3 DEF FlushNext
  <2>4. ASSUME NEW c \in toFlush, ~Expired, holders' = holders \cup {Flusher},
               item' = [item EXCEPT ![Flusher] = FlushMsg(c)],
               pc' = [pc EXCEPT ![Flusher] = "post"]
        PROVE  EndInv'
    <3>1. c \in Clients /\ accepted[c] \in Nat
      BY <1>0 DEF AsyncTypes
    <3>2. FlushMsg(c).type = "flush" /\ FlushMsg(c).by = c /\ FlushMsg(c).n = accepted[c]
      BY DEF FlushMsg
    <3>3. holders # {} /\ UNCHANGED terminates
      BY <1>7, <2>4 DEF FlushNext, Expired
    <3>4. FlushMsg(c).by \in Clients /\ FlushMsg(c).n <= accepted[FlushMsg(c).by]
      BY <3>1, <3>2
    <3> QED BY <1>0, <1>1, <2>1, <2>4, <3>2, <3>3, <3>4, EndEnters
  <2> QED BY <1>7, <2>2, <2>3, <2>4 DEF FlushNext
<1>8. ASSUME FlushAll \/ FlusherEnds \/ Shutdown \/ StopFlusher
      PROVE  EndInv'
  <2>1. UNCHANGED <<holders, item, terminates>>
    BY <1>8 DEF FlushAll, FlusherEnds, Shutdown, StopFlusher
  <2>2. ASSUME NEW p, ~AtPost(Flusher), p \in {"next", "gone"}, pc' = [pc EXCEPT ![Flusher] = p]
        PROVE  EndInv'
    <3>1. Flusher \in Posters /\ Flusher # Main
      BY Typing
    <3>2. p \notin {"post", "asleep", "notify", "join"}
      BY <2>2
    <3> QED BY <1>4, <2>1, <2>2, <3>1, <3>2
  <2>3. ASSUME NEW p, pc[Main] \in {"idle", "deactivate"}, p \in {"deactivate", "join flusher"},
               pc' = [pc EXCEPT ![Main] = p]
        PROVE  EndInv'
    <3>1. Main \in Posters /\ ~AtPost(Main)
      BY <2>3, Typing DEF AtPost
    <3>2. p \notin {"post", "asleep", "notify", "join"} /\ p # "idle"
      BY <2>3
    <3>3. pc[Main] \in {"idle", "deactivate", "join flusher"}
      BY <2>3
    <3> QED BY <1>4, <2>1, <2>3, <3>1, <3>2, <3>3
  <2>4. CASE FlushAll \/ FlusherEnds
    <3>1. ~AtPost(Flusher)
      BY <2>4 DEF FlushAll, FlusherEnds, AtPost
    <3>2. pc' = [pc EXCEPT ![Flusher] = "next"] \/ pc' = [pc EXCEPT ![Flusher] = "gone"]
      BY <2>4 DEF FlushAll, FlusherEnds
    <3> QED BY <2>2, <3>1, <3>2
  <2>5. CASE Shutdown
    <3>1. pc[Main] \in {"idle", "deactivate"} /\ pc' = [pc EXCEPT ![Main] = "deactivate"]
      BY <2>5 DEF Shutdown
    <3>2. "deactivate" \in {"deactivate", "join flusher"}
      OBVIOUS
    <3> QED BY ONLY <2>3, <3>1, <3>2
  <2>6. CASE StopFlusher
    <3>1. pc[Main] \in {"idle", "deactivate"} /\ pc' = [pc EXCEPT ![Main] = "join flusher"]
      BY <2>6 DEF StopFlusher
    <3>2. Main \in Posters /\ ~AtPost(Main)
      BY <3>1, Typing DEF AtPost
    <3> QED BY <1>4, <2>1, <3>1, <3>2
  <2> QED BY <1>8, <2>4, <2>5, <2>6
<1>9. ASSUME DropPool
      PROVE  EndInv'
  <2>1. pc[Main] = "join flusher" /\ Releases(Main, Registry) /\ Main \in Posters
    BY <1>9, Typing DEF DropPool
  <2>2. ~AtPost(Main) /\ (Main = Main => pc[Main] \notin {"idle", "deactivate"})
    BY <2>1 DEF AtPost
  <2>3. Registry \in holders
    BY <2>1 DEF EndInv, Holding
  <2>4. Registry = Main \/ (Registry = Registry /\ Main = Main /\ ~AtPost(Main))
    BY <2>2
  <2>5. \A w \in pool : Untold(w)' <=> Untold(w)
    BY <1>2
  <2>6. AsyncInv /\ EndInv
    OBVIOUS
  <2>7. UNCHANGED <<ringVars, setting, accepted>>
    BY <1>1
  <2> HIDE DEF FateInv
  <2> QED BY ONLY <2>1, <2>2, <2>3, <2>4, <2>5, <2>6, <2>7, EndReleases
<1>10. ASSUME UNCHANGED asyncVars
       PROVE  EndInv'
  <2>1. UNCHANGED <<holders, pc, item, terminates>>
    BY <1>10 DEF asyncVars
  <2> QED BY <1>5, <2>1
<1> QED BY <1>3, <1>6, <1>7, <1>8, <1>9, <1>10

LEMMA FateStep == FateInv /\ [AsyncNext]_asyncVars => FateInv'
<1> SUFFICES ASSUME FateInv, [AsyncNext]_asyncVars PROVE FateInv'
  OBVIOUS
<1>1. AsyncInv'
  BY AsyncStep DEF FateInv
<1>2. MessagesInv' /\ EndInv'
  BY FatePost, FatePooled, FateOthers DEF AsyncNext
<1> QED BY <1>1, <1>2 DEF FateInv

-----------------------------------------------------------------------------
(* When the threads of the pool are gone, so are the messages: each that   *)
(* was queued has been handled, or overrun by its logger's policy.         *)
THEOREM NothingLeftSafe == AsyncSpec => []NothingLeft
<1>1. FateInv => NothingLeft
  <2> SUFFICES ASSUME FateInv PROVE NothingLeft
    OBVIOUS
  <2>1. (\A c \in Clients : policy[c] = "block") => overrun_counter_ = 0
    BY DEF FateInv, EndInv, NoOverrun
  <2>2. ASSUME \A w \in pool : worker[w] = "gone"
        PROVE  Empty /\ \A c \in Clients : HandledOf(c) \cup overrun[c] = 1..accepted[c]
    <3>1. Cardinality(pool) \in Nat \ {0} /\ pool # {}
      BY PoolIs, FS_EmptySet DEF FateInv, AsyncInv
    <3>2. holders = {}
      BY <2>2, <3>1 DEF FateInv, EndInv, Lives, Untold
    <3>3. Cardinality(Left) = 0
      <4>1. Left = {}
        BY <2>2 DEF Left, Untold
      <4> QED BY <4>1, FS_EmptySet
    <3>4. PICK q \in 0..Len(Content) :
            /\ ToPost + q = Cardinality(Left)
            /\ ToPost < Cardinality(pool) /\ Content # <<>> => q > 0
      BY <3>2 DEF FateInv, EndInv, Ends
    <3>5. ToPost \in Nat
      <4>1. CASE \E t \in Posters : pc[t] = "notify"
        <5>1. PICK t \in Posters : pc[t] = "notify"
          BY <4>1
        <5>2. AtPost(t) /\ t \notin holders
          BY <3>2, <5>1 DEF AtPost
        <5>3. terminates >= 1 /\ terminates \in Nat
          BY <5>2 DEF FateInv, EndInv, Posts, Holding
        <5>4. terminates - 1 \in Nat
          BY <5>3
        <5> QED BY <4>1, <5>4 DEF ToPost
      <4>2. CASE ~ \E t \in Posters : pc[t] = "notify"
        BY <4>2 DEF ToPost, FateInv, EndInv, Holding
      <4> QED BY <4>1, <4>2
    <3>6. ToPost = 0 /\ q = 0
      <4>1. q \in Nat
        BY ContentIs DEF FateInv, AsyncInv, ContentAsSlots
      <4> QED BY <3>3, <3>4, <3>5, <4>1
    <3>7. Content = <<>>
      BY <3>1, <3>4, <3>6
    <3>8. Empty
      <4>1. Size = 0 /\ head_ \in 0..MaxItems /\ tail_ \in 0..MaxItems /\ MaxItems \in Nat
        BY <3>7, ContentIs, RingAssumption DEF FateInv, AsyncInv, ContentAsSlots, RingOK, Slots
      <4> QED BY <4>1 DEF Size, Empty, max_items_
    <3>9. \A c : QueuedOf(c) = {} /\ InHandOf(c) = {}
      <4>1. Len(Content) = 0
        BY <3>7
      <4>2. \A w \in pool : ~Busy(w)
        BY <2>2 DEF Busy
      <4> QED BY <4>1, <4>2 DEF QueuedOf, Before, InHandOf
    <3> QED BY <3>8, <3>9 DEF FateInv, MessagesInv, Accounted
  <2> QED BY <2>1, <2>2 DEF NothingLeft
<1> QED BY FateInit, FateStep, <1>1, PTL DEF AsyncSpec

(* With one thread in the pool, messages are handled in the order of the   *)
(* calls, and flushes after what was queued before them.                   *)
THEOREM OneThreadSafe == AsyncSpec => []OneThreadInOrder
<1>1. FateInv => OneThreadInOrder
  BY DEF FateInv, MessagesInv, OneByOne, OneThreadInOrder, Busy
<1> QED BY FateInit, FateStep, <1>1, PTL DEF AsyncSpec

-----------------------------------------------------------------------------
(* The rotating file sink.  While it rotates, log.txt is closed.            *)
Rotating == {"next", "rename", "give up"}
Calling == Rotating \cup {"close", "write"}

(* The message of the call under way is in no file yet, older ones may be. *)
Fresh ==
  /\ \A j \in Indexes : file[j] \subseteq 1..msg
  /\ step \in Calling => msg \in 1..MaxMessages /\ \A j \in Indexes : msg \notin file[j]

(* A closed log.txt has nothing in a buffer; an open one exists.           *)
Stream ==
  /\ step \in Rotating \cup {"down"} => ~open
  /\ ~open => buffered = {} /\ onDisk = bytes[0]
  /\ open => 0 \in present

(* current_size_ is never behind an open file, and beyond the limit for as *)
(* long as there is none.                                                  *)
Counted ==
  /\ step = "idle" => IF open THEN bytes[0] <= current_size_ ELSE current_size_ > MaxSize
  /\ step \in Rotating \cup {"close"} => current_size_ > MaxSize
  /\ step = "write" => /\ open
                       /\ bytes[0] + size <= current_size_
                       /\ current_size_ <= MaxSize \/ file[0] = {}

(* What would be in log.txt after a crash is within the limit, too.        *)
DiskBounded == onDisk > MaxSize => \E m \in file[0] : file[0] \ buffered = {m}

(* The higher the index, the older the messages.                           *)
Ordered ==
  \A j, k \in Indexes : j < k => \A m \in file[j], n \in file[k] : n < m

(* A rotation that has come to an index has emptied it, but for the last.  *)
Shifted ==
  /\ \A j \in Indexes \ present : file[j] = {}
  /\ step \in Rotating /\ index < MaxFiles => file[index] = {}
  /\ step \in {"rename", "give up"} => index > 0 /\ index - 1 \in present

RotatingInv ==
  /\ RotatingTypeOK /\ Fresh /\ Stream /\ Counted
  /\ SizeBounded /\ DiskBounded /\ Ordered /\ Shifted

LEMMA RotatingInit == InitRotating => RotatingInv
<1> SUFFICES ASSUME InitRotating PROVE RotatingInv
  OBVIOUS
<1>1. /\ MaxFiles \in Nat /\ MaxSize \in Nat /\ MaxMessages \in Nat /\ 0 \in Indexes
      /\ \A j \in Indexes : file[j] = {} /\ bytes[j] = 0
  BY RotatingAssumption DEF InitRotating, Indexes
<1>2. RotatingTypeOK /\ Fresh /\ Stream /\ Counted
  <2>1. RotatingTypeOK
    <3>1. file \in [Indexes -> SUBSET (1..MaxMessages)] /\ bytes \in [Indexes -> Nat]
      BY DEF InitRotating
    <3>2. present \subseteq Indexes /\ buffered \subseteq file[0] /\ index \in Indexes
      BY <1>1 DEF InitRotating
    <3>3. onDisk \in Nat /\ current_size_ \in Nat /\ size \in Nat /\ msg \in 0..MaxMessages
      BY <1>1 DEF InitRotating
    <3>4. open \in BOOLEAN /\ failed \in BOOLEAN /\ step = "down"
      BY DEF InitRotating
    <3> QED BY <3>1, <3>2, <3>3, <3>4 DEF RotatingTypeOK
  <2>2. Fresh /\ Stream /\ Counted
    BY <1>1 DEF InitRotating, Fresh, Stream, Counted, Rotating, Calling
  <2> QED BY <2>1, <2>2
<1>3. SizeBounded /\ DiskBounded
  BY <1>1 DEF InitRotating, SizeBounded, DiskBounded
<1>4. Ordered /\ Shifted
  BY <1>1 DEF InitRotating, Ordered, Shifted, Rotating
<1> QED BY <1>2, <1>3, <1>4 DEF RotatingInv

(* Each step keeps each part.                                              *)
LEMMA RotatingStep == RotatingInv /\ [RotatingNext]_rotatingVars => RotatingInv'
<1> SUFFICES ASSUME RotatingInv, [RotatingNext]_rotatingVars PROVE RotatingInv'
  OBVIOUS
<1> USE DEF RotatingInv, diskVars, sinkVars, callVars, Spill, Rotating, Calling
<1>0. /\ MaxFiles \in Nat /\ MaxSize \in Nat /\ MaxMessages \in Nat /\ Sizes \subseteq Nat
      /\ 0 \in Indexes /\ index \in Indexes /\ Indexes \subseteq Nat
      /\ \A j \in Indexes : bytes[j] \in Nat /\ file[j] \subseteq 1..MaxMessages
      /\ \A j \in Indexes : j > 0 => j - 1 \in Indexes /\ j - 1 < j /\ j # j - 1
  <2>1. /\ MaxFiles \in Nat /\ MaxSize \in Nat /\ MaxMessages \in Nat /\ Sizes \subseteq Nat
    BY RotatingAssumption
  <2>2. /\ 0 \in Indexes /\ Indexes \subseteq Nat
        /\ \A j \in Indexes : j > 0 => j - 1 \in Indexes /\ j - 1 < j /\ j # j - 1
    BY <2>1 DEF Indexes
  <2>3. /\ index \in Indexes
        /\ \A j \in Indexes : bytes[j] \in Nat /\ file[j] \subseteq 1..MaxMessages
    BY DEF RotatingTypeOK
  <2> QED BY <2>1, <2>2, <2>3
<1>1. CASE Start
  BY <1>0, <1>1 DEF Start, RotatingTypeOK, Fresh, Stream, Counted, SizeBounded,
     DiskBounded, Ordered, Shifted
<1>2. CASE Flush
  <2>1. RotatingTypeOK' /\ Fresh' /\ Stream' /\ Counted' /\ Ordered' /\ Shifted'
    BY <1>0, <1>2 DEF Flush, RotatingTypeOK, Fresh, Stream, Counted, Ordered, Shifted
  <2>2. SizeBounded' /\ DiskBounded'
    BY <1>0, <1>2 DEF Flush, SizeBounded, DiskBounded
  <2> QED BY <2>1, <2>2
<1>3. CASE Write
  <2>1. CASE UNCHANGED <<file, bytes, buffered>>
    BY <1>0, <1>3, <2>1 DEF Write, RotatingTypeOK, Fresh, Stream, Counted, SizeBounded,
       DiskBounded, Ordered, Shifted
  <2>2. CASE /\ file' = [file EXCEPT ![0] = @ \cup {msg}]
             /\ bytes' = [bytes EXCEPT ![0] = @ + size]
             /\ buffered' = buffered \cup {msg}
    <3>1. /\ step = "write" /\ step' = "idle" /\ open /\ 0 \in present
          /\ UNCHANGED <<present, onDisk, open, current_size_, index, failed, msg, size>>
      BY <1>3 DEF Write, Counted, Stream
    <3>2. /\ msg \in 1..MaxMessages /\ \A k \in Indexes : msg \notin file[k]
          /\ bytes[0] + size <= current_size_
          /\ current_size_ <= MaxSize \/ file[0] = {}
          /\ size \in Nat /\ current_size_ \in Nat
      BY <3>1 DEF Fresh, Counted, RotatingTypeOK
    <3>3. /\ file' \in [Indexes -> SUBSET (1..MaxMessages)] /\ bytes' \in [Indexes -> Nat]
          /\ file'[0] = file[0] \cup {msg} /\ bytes'[0] = bytes[0] + size
          /\ \A k \in Indexes \ {0} : file'[k] = file[k] /\ bytes'[k] = bytes[k]
      <4>1. file \in [Indexes -> SUBSET (1..MaxMessages)] /\ bytes \in [Indexes -> Nat]
        BY DEF RotatingTypeOK
      <4>2. bytes[0] + size \in Nat /\ file[0] \cup {msg} \in SUBSET (1..MaxMessages)
        BY <1>0, <3>2, <4>1
      <4> QED BY <1>0, <2>2, <4>1, <4>2
    <3>4. RotatingTypeOK'
      BY <1>0, <2>2, <3>1, <3>2, <3>3 DEF RotatingTypeOK
    <3>5. Fresh' /\ Stream' /\ Counted'
      BY <1>0, <3>1, <3>2, <3>3 DEF Fresh, Stream, Counted
    <3>6. SizeBounded'
      <4>1. bytes'[0] > MaxSize => file'[0] = {msg} /\ msg \in file'[0]
        BY <1>0, <3>2, <3>3
      <4> QED BY <1>0, <3>3, <4>1 DEF SizeBounded
    <3>7. DiskBounded'
      <4>1. file'[0] \ buffered' = file[0] \ buffered
        BY <1>0, <2>2, <3>2, <3>3
      <4> QED BY <3>1, <3>3, <4>1 DEF DiskBounded
    <3>8. Ordered'
      <4>1. \A k \in Indexes : \A n \in file[k] : n \in 1..msg /\ n # msg
        BY <3>2 DEF Fresh
      <4>2. \A k \in Indexes : \A n \in file[k] : n < msg
        BY <3>2, <4>1
      <4>3. \A k \in Indexes : 0 < k => k # 0
        OBVIOUS
      <4>4. \A l, k \in Indexes : l < k => k \in Indexes \ {0}
        BY <1>0
      <4> QED BY <1>0, <3>3, <4>2, <4>4 DEF Ordered
    <3>9. Shifted'
      BY <1>0, <3>1, <3>3 DEF Shifted
    <3> QED BY <3>4, <3>5, <3>6, <3>7, <3>8, <3>9
  <2> QED BY <1>3, <2>1, <2>2 DEF Write
<1>4. CASE Exit
  <2>1. RotatingTypeOK' /\ Fresh' /\ Stream' /\ Counted' /\ Ordered' /\ Shifted'
    BY <1>0, <1>4 DEF Exit, RotatingTypeOK, Fresh, Stream, Counted, Ordered, Shifted
  <2>2. SizeBounded' /\ DiskBounded'
    BY <1>0, <1>4 DEF Exit, SizeBounded, DiskBounded
  <2> QED BY <2>1, <2>2
<1>5. CASE Crash
  <2>1. /\ file' \in [Indexes -> SUBSET (1..MaxMessages)] /\ bytes' \in [Indexes -> Nat]
        /\ file'[0] = file[0] \ buffered /\ bytes'[0] = onDisk
        /\ \A k \in Indexes \ {0} : file'[k] = file[k] /\ bytes'[k] = bytes[k]
        /\ buffered' = {} /\ onDisk' = onDisk
    BY <1>0, <1>5 DEF Crash, RotatingTypeOK
  <2>2. RotatingTypeOK' /\ Fresh' /\ Stream' /\ Counted' /\ Shifted'
    BY <1>0, <1>5, <2>1 DEF Crash, RotatingTypeOK, Fresh, Stream, Counted, Shifted
  <2>3. SizeBounded'
    BY <1>0, <2>1 DEF SizeBounded, DiskBounded
  <2>4. DiskBounded'
    BY <1>0, <2>1 DEF DiskBounded
  <2>5. Ordered'
    <3>1. \A k \in Indexes : file'[k] \subseteq file[k]
      BY <2>1
    <3> QED BY <3>1 DEF Ordered
  <2> QED BY <2>2, <2>3, <2>4, <2>5
<1>6. ASSUME NEW s \in Sizes, SinkIt(s) PROVE RotatingInv'
  <2>1. /\ step = "idle" /\ msg < MaxMessages /\ msg' = msg + 1 /\ size' = s
        /\ current_size_' = current_size_ + s /\ s \in Nat
        /\ step' = IF current_size_ + s > MaxSize THEN "close" ELSE "write"
        /\ UNCHANGED <<present, file, bytes, buffered, onDisk, open, index, failed>>
    BY <1>0, <1>6 DEF SinkIt
  <2>2. msg \in Nat /\ current_size_ \in Nat
    <3>1. msg \in 0..MaxMessages /\ current_size_ \in Nat
      BY DEF RotatingTypeOK
    <3>2. MaxMessages \in Nat
      BY <1>0
    <3> QED BY <3>1, <3>2
  <2>3. RotatingTypeOK'
    BY <1>0, <2>1, <2>2 DEF RotatingTypeOK
  <2>4. Fresh'
    BY <1>0, <2>1, <2>2 DEF Fresh
  <2>5. Stream' /\ Counted'
    BY <1>0, <2>1, <2>2 DEF Stream, Counted
  <2>6. SizeBounded' /\ DiskBounded' /\ Ordered' /\ Shifted'
    BY <2>1 DEF SizeBounded, DiskBounded, Ordered, Shifted
  <2> QED BY <2>3, <2>4, <2>5, <2>6
<1>7. CASE Close
  <2>1. /\ step = "close" /\ step' = "next" /\ index' = MaxFiles /\ open' = FALSE
        /\ buffered' = {} /\ onDisk' = bytes[0] /\ failed' = FALSE
        /\ UNCHANGED <<present, file, bytes, current_size_, msg, size>>
    BY <1>7 DEF Close, Stream
  <2>2. MaxFiles \in Indexes
    BY <1>0 DEF Indexes
  <2>3. RotatingTypeOK' /\ Fresh' /\ Stream' /\ Counted'
    BY <1>0, <2>1, <2>2 DEF RotatingTypeOK, Fresh, Stream, Counted
  <2>4. SizeBounded' /\ DiskBounded'
    BY <1>0, <2>1 DEF SizeBounded, DiskBounded
  <2>5. Ordered' /\ Shifted'
    BY <1>0, <2>1 DEF Ordered, Shifted
  <2> QED BY <2>3, <2>4, <2>5
<1>8. CASE Skip
  <2>1. /\ step = "next" /\ index > 0 /\ index - 1 \notin present
        /\ index' = index - 1 /\ index' \in Indexes
        /\ UNCHANGED <<present, file, bytes, buffered, onDisk, open, current_size_,
                       step, failed, msg, size>>
    BY <1>0, <1>8 DEF Skip
  <2>2. RotatingTypeOK' /\ Fresh' /\ Stream' /\ Counted'
    BY <2>1 DEF RotatingTypeOK, Fresh, Stream, Counted
  <2>3. SizeBounded' /\ DiskBounded' /\ Ordered' /\ Shifted'
    BY <2>1 DEF SizeBounded, DiskBounded, Ordered, Shifted
  <2> QED BY <2>2, <2>3
<1>9. CASE Remove
  <2>1. /\ step = "next" /\ step' = "rename" /\ index > 0 /\ index - 1 \in present
        /\ UNCHANGED <<buffered, onDisk, open, current_size_, index, failed, msg, size>>
    BY <1>9 DEF Remove
  <2>2. CASE UNCHANGED <<present, file, bytes>>
    BY <2>1, <2>2 DEF RotatingTypeOK, Fresh, Stream, Counted, SizeBounded, DiskBounded,
       Ordered, Shifted
  <2>3. CASE /\ present' = present \ {index}
             /\ file' = [file EXCEPT ![index] = {}]
             /\ bytes' = [bytes EXCEPT ![index] = 0]
    <3>1. /\ file' \in [Indexes -> SUBSET (1..MaxMessages)] /\ bytes' \in [Indexes -> Nat]
          /\ file'[index] = {} /\ bytes'[index] = 0
          /\ \A k \in Indexes \ {index} : file'[k] = file[k] /\ bytes'[k] = bytes[k]
          /\ file'[0] = file[0] /\ bytes'[0] = bytes[0]
      BY <1>0, <2>1, <2>3 DEF RotatingTypeOK
    <3>2. RotatingTypeOK'
      BY <2>1, <2>3, <3>1 DEF RotatingTypeOK
    <3>3. Fresh' /\ Stream' /\ Counted' /\ DiskBounded'
      BY <1>0, <2>1, <2>3, <3>1 DEF Fresh, Stream, Counted, DiskBounded
    <3>4. SizeBounded'
      BY <1>0, <3>1 DEF SizeBounded
    <3>5. Ordered'
      <4>1. \A k \in Indexes : file'[k] \subseteq file[k]
        BY <3>1
      <4> QED BY <4>1 DEF Ordered
    <3>6. Shifted'
      BY <1>0, <2>1, <2>3, <3>1 DEF Shifted
    <3> QED BY <3>2, <3>3, <3>4, <3>5, <3>6
  <2> QED BY <1>9, <2>2, <2>3 DEF Remove
<1>10. CASE Rename
  <2>1. /\ step = "rename" /\ step' = "next" /\ index > 0 /\ index - 1 \in present
        /\ index' = index - 1 /\ index - 1 \in Indexes /\ failed' = FALSE
        /\ present' = (present \ {index - 1}) \cup {index}
        /\ onDisk' = IF index = 1 THEN 0 ELSE onDisk
        /\ ~open /\ UNCHANGED <<buffered, open, current_size_, msg, size>>
    BY <1>0, <1>10 DEF Rename, Shifted, Stream
  <2>2. /\ file' \in [Indexes -> SUBSET (1..MaxMessages)] /\ bytes' \in [Indexes -> Nat]
        /\ file'[index] = file[index - 1] /\ bytes'[index] = bytes[index - 1]
        /\ file'[index - 1] = {} /\ bytes'[index - 1] = 0
        /\ \A k \in Indexes \ {index, index - 1} : file'[k] = file[k] /\ bytes'[k] = bytes[k]
    BY <1>0, <1>10, <2>1 DEF Rename, RotatingTypeOK
  <2>3. buffered = {} /\ onDisk' = bytes'[0]
    BY <1>0, <2>1, <2>2 DEF Stream
  <2>4. RotatingTypeOK'
    BY <1>0, <2>1, <2>2, <2>3 DEF RotatingTypeOK
  <2>5. Fresh' /\ Stream' /\ Counted'
    BY <1>0, <2>1, <2>2, <2>3 DEF Fresh, Stream, Counted
  <2>6. SizeBounded'
    <3>1. ASSUME NEW k \in Indexes, bytes'[k] > MaxSize
          PROVE  \E m \in file'[k] : file'[k] = {m}
      <4>1. CASE k = index
        BY <2>1, <2>2, <3>1, <4>1 DEF SizeBounded
      <4>2. CASE k = index - 1
        BY <1>0, <2>2, <3>1, <4>2
      <4>3. CASE k \notin {index, index - 1}
        BY <2>2, <3>1, <4>3 DEF SizeBounded
      <4> QED BY <4>1, <4>2, <4>3
    <3> QED BY <3>1 DEF SizeBounded
  <2>7. DiskBounded'
    BY <1>0, <2>1, <2>3, <2>6 DEF SizeBounded, DiskBounded
  <2>8. Ordered'
    <3>1. ASSUME NEW j \in Indexes, NEW k \in Indexes, j < k,
                 NEW m \in file'[j], NEW n \in file'[k]
          PROVE  n < m
      <4>1. j # index - 1 /\ k # index - 1
        BY <2>2, <3>1
      <4>2. CASE j = index
        BY <1>0, <2>1, <2>2, <3>1, <4>1, <4>2 DEF Ordered
      <4>3. CASE k = index
        <5>1. j \in Nat /\ index \in Nat /\ j < index /\ j # index - 1
          BY <1>0, <3>1, <4>1, <4>3
        <5>2. j < index - 1
          BY <5>1
        <5>3. j \in Indexes \ {index, index - 1}
          BY <5>1
        <5>4. m \in file[j] /\ n \in file[index - 1]
          BY <2>2, <3>1, <4>3, <5>3
        <5> QED BY <2>1, <5>2, <5>4 DEF Ordered
      <4>4. CASE j # index /\ k # index
        BY <2>2, <3>1, <4>1, <4>4 DEF Ordered
      <4> QED BY <4>2, <4>3, <4>4
    <3> QED BY <3>1 DEF Ordered
  <2>9. Shifted'
    BY <1>0, <2>1, <2>2 DEF Shifted
  <2> QED BY <2>4, <2>5, <2>6, <2>7, <2>8, <2>9
<1>11. CASE RenameFails
  BY <1>0, <1>11 DEF RenameFails, RotatingTypeOK, Fresh, Stream, Counted, SizeBounded,
     DiskBounded, Ordered, Shifted
<1>12. CASE Reopen
  <2>1. /\ step \in {"next", "give up"} /\ ~open /\ buffered = {} /\ current_size_ > MaxSize
        /\ present' = present \cup {0} /\ onDisk' = 0 /\ open' = TRUE
        /\ UNCHANGED <<buffered, index, failed, msg, size>>
        /\ \/ step = "give up" /\ step' = "idle" /\ UNCHANGED current_size_
           \/ step = "next" /\ step' = "write" /\ current_size_' = size
    BY <1>12 DEF Reopen, Reopens, Stream, Counted
  <2>2. /\ file' \in [Indexes -> SUBSET (1..MaxMessages)] /\ bytes' \in [Indexes -> Nat]
        /\ file'[0] = {} /\ bytes'[0] = 0
        /\ \A k \in Indexes \ {0} : file'[k] = file[k] /\ bytes'[k] = bytes[k]
    BY <1>0, <1>12 DEF Reopen, RotatingTypeOK
  <2>3. RotatingTypeOK'
    BY <1>0, <2>1, <2>2 DEF RotatingTypeOK
  <2>4. Fresh' /\ Stream'
    BY <1>0, <2>1, <2>2 DEF Fresh, Stream
  <2>5. Counted'
    <3>1. size \in Nat /\ current_size_ \in Nat
      BY DEF RotatingTypeOK
    <3>2. CASE step' = "idle"
      <4>1. current_size_' = current_size_
        BY <2>1, <3>2
      <4>2. bytes'[0] <= current_size_'
        BY <2>2, <3>1, <4>1
      <4>3. open'
        BY <2>1
      <4> QED BY <3>2, <4>2, <4>3 DEF Counted
    <3>3. CASE step' = "write"
      BY <2>1, <2>2, <3>1, <3>3 DEF Counted
    <3> QED BY <2>1, <3>2, <3>3
  <2>6. SizeBounded' /\ DiskBounded'
    <3>1. ~(0 > MaxSize)
      BY <1>0
    <3>2. ASSUME NEW k \in Indexes, bytes'[k] > MaxSize
          PROVE  \E m \in file'[k] : file'[k] = {m}
      <4>1. k # 0
        BY <2>2, <3>1, <3>2
      <4>2. file'[k] = file[k] /\ bytes'[k] = bytes[k]
        BY <2>2, <4>1
      <4> QED BY <3>2, <4>2 DEF SizeBounded
    <3> QED BY <2>1, <3>1, <3>2 DEF SizeBounded, DiskBounded
  <2>7. Ordered'
    <3>1. \A k \in Indexes : file'[k] \subseteq file[k]
      BY <2>2
    <3> QED BY <3>1 DEF Ordered
  <2>8. Shifted'
    BY <1>0, <2>1, <2>2 DEF Shifted
  <2> QED BY <2>3, <2>4, <2>5, <2>6, <2>7, <2>8
<1>13. CASE ReopenFails
  BY <1>0, <1>13 DEF ReopenFails, Reopens, RotatingTypeOK, Fresh, Stream, Counted,
     SizeBounded, DiskBounded, Ordered, Shifted
<1>14. CASE UNCHANGED rotatingVars
  BY <1>14 DEF rotatingVars, RotatingTypeOK, Fresh, Stream, Counted, SizeBounded,
     DiskBounded, Ordered, Shifted
<1> QED BY <1>1, <1>2, <1>3, <1>4, <1>5, <1>6, <1>7, <1>8, <1>9, <1>10, <1>11,
           <1>12, <1>13, <1>14 DEF RotatingNext

LEMMA RotatingInvariance == RotatingSpec => []RotatingInv
  BY RotatingInit, RotatingStep, PTL DEF RotatingSpec

-----------------------------------------------------------------------------
(* A sink without a file never writes to it.                               *)
THEOREM NeverClosedSafe == RotatingSpec => []NeverWritesClosed
<1>1. RotatingInv => NeverWritesClosed
  BY DEF RotatingInv, Counted, NeverWritesClosed
<1> QED BY <1>1, RotatingInvariance, PTL

(* No file grows beyond the limit, but for a single message.               *)
THEOREM SizeSafe == RotatingSpec => []SizeBounded
<1>1. RotatingInv => SizeBounded
  BY DEF RotatingInv
<1> QED BY <1>1, RotatingInvariance, PTL
-----------------------------------------------------------------------------
(* Written, by its elements, before and after a step.                      *)
LEMMA InWritten ==
  /\ \A m : m \in Written <=> m \notin buffered /\ \E j \in Indexes : m \in file[j]
  /\ \A m : m \in Written' <=> m \notin buffered' /\ \E j \in Indexes : m \in file'[j]
  BY DEF Written

(* What OnlyOldestLost allows a step to take from the files.               *)
OldestOrLog(m) ==
  \/ \A n \in Written' : m < n
  \/ step = "give up" /\ index - 1 \in present /\ m \in file[0]

(* A file that makes room for its predecessor is empty, or the last one.   *)
LEMMA OldestMakesRoom ==
  ASSUME RotatingInv, step \in Rotating, NEW m \in file[index]
  PROVE  \A j \in Indexes \ {index} : \A n \in file[j] : m < n
<1>1. MaxFiles \in Nat /\ index \in Indexes
  BY RotatingAssumption DEF RotatingInv, RotatingTypeOK
<1>2. ~(index < MaxFiles)
  BY DEF RotatingInv, Shifted
<1>3. \A j \in Indexes \ {index} : j < index
  BY <1>1, <1>2 DEF Indexes
<1> QED BY <1>1, <1>3 DEF RotatingInv, Ordered

LEMMA LossStep ==
  RotatingInv /\ [RotatingNext]_rotatingVars => \A m \in Written \ Written' : OldestOrLog(m)
<1> SUFFICES ASSUME RotatingInv, [RotatingNext]_rotatingVars,
                    NEW m \in Written, m \notin Written'
             PROVE  OldestOrLog(m)
  OBVIOUS
<1> USE DEF diskVars, sinkVars, callVars, Spill
<1>0. PICK j \in Indexes : m \in file[j] /\ m \notin buffered
  BY InWritten
<1>1. \A k \in Indexes : m \in file'[k] => m \in buffered'
  BY InWritten
<1>2. /\ 0 \in Indexes /\ index \in Indexes /\ Indexes \subseteq Nat
      /\ file \in [Indexes -> SUBSET (1..MaxMessages)]
  <2>1. index \in Indexes /\ file \in [Indexes -> SUBSET (1..MaxMessages)]
    BY DEF RotatingInv, RotatingTypeOK
  <2>2. 0 \in Indexes /\ Indexes \subseteq Nat
    BY RotatingAssumption DEF Indexes
  <2> QED BY <2>1, <2>2
<1>3. ~ (UNCHANGED file /\ buffered' \subseteq buffered)
  BY <1>0, <1>1
<1>4. ~ Write
  <2>1. SUFFICES ASSUME Write PROVE FALSE
    OBVIOUS
  <2>2. file' = [file EXCEPT ![0] = @ \cup {msg}] /\ buffered' = buffered \cup {msg}
    BY <1>3, <2>1 DEF Write
  <2>3. m \in file'[j]
    BY <1>0, <1>2, <2>2
  <2>4. m # msg
    BY <1>0, <2>1 DEF Write, RotatingInv, Fresh, Calling
  <2> QED BY <1>0, <1>1, <2>2, <2>3, <2>4
<1>5. ~ Crash
  BY <1>0, <1>1, <1>2 DEF Crash
<1>6. CASE Remove
  <2>1. /\ step = "next" /\ UNCHANGED buffered
        /\ file' = [file EXCEPT ![index] = {}]
    BY <1>3, <1>6 DEF Remove
  <2>2. j = index
    BY <1>0, <1>1, <1>2, <2>1
  <2>3. \A k \in Indexes \ {index} : \A n \in file[k] : m < n
    BY <1>0, <2>1, <2>2, OldestMakesRoom DEF Rotating
  <2>4. \A k \in Indexes : \A n \in file'[k] : k # index /\ n \in file[k]
    BY <1>2, <2>1
  <2>5. \A n \in Written' : m < n
    BY <2>3, <2>4, InWritten
  <2> QED BY <2>5 DEF OldestOrLog
<1>7. CASE Rename
  <2>1. /\ step = "rename" /\ UNCHANGED buffered
        /\ file' = [file EXCEPT ![index] = file[index - 1], ![index - 1] = {}]
        /\ index - 1 \in Indexes /\ index - 1 # index
    BY <1>2, <1>7 DEF Rename, RotatingInv, RotatingTypeOK
  <2>2. /\ file'[index] = file[index - 1] /\ file'[index - 1] = {}
        /\ \A k \in Indexes \ {index, index - 1} : file'[k] = file[k]
    BY <1>2, <2>1
  <2>3. j = index
    BY <1>0, <1>1, <1>2, <2>1, <2>2
  <2>4. \A k \in Indexes \ {index} : \A n \in file[k] : m < n
    BY <1>0, <2>1, <2>3, OldestMakesRoom DEF Rotating
  <2>5. \A k \in Indexes : \A n \in file'[k] : \E i \in Indexes \ {index} : n \in file[i]
    BY <2>1, <2>2
  <2>6. \A n \in Written' : m < n
    BY <2>4, <2>5, InWritten
  <2> QED BY <2>6 DEF OldestOrLog
<1>8. CASE Reopen
  <2>1. UNCHANGED buffered /\ file' = [file EXCEPT ![0] = {}]
    BY <1>8 DEF Reopen
  <2>2. j = 0
    BY <1>0, <1>1, <1>2, <2>1
  <2>3. CASE step = "give up"
    BY <1>0, <2>2, <2>3 DEF OldestOrLog, RotatingInv, Shifted
  <2>4. CASE step = "next" /\ index = 0
    <3>1. \A k \in Indexes \ {0} : \A n \in file[k] : m < n
      BY <1>0, <2>2, <2>4, OldestMakesRoom DEF Rotating
    <3>2. \A k \in Indexes : \A n \in file'[k] : k # 0 /\ n \in file[k]
      BY <1>2, <2>1
    <3>3. \A n \in Written' : m < n
      BY <3>1, <3>2, InWritten
    <3> QED BY <3>3 DEF OldestOrLog
  <2> QED BY <1>8, <2>3, <2>4 DEF Reopen, Reopens
<1>9. ~ (Start \/ Flush \/ Exit \/ Close \/ Skip \/ RenameFails \/ ReopenFails)
  BY <1>3 DEF Start, Flush, Exit, Close, Skip, RenameFails, ReopenFails
<1>10. ~ (\E s \in Sizes : SinkIt(s)) /\ ~ UNCHANGED rotatingVars
  BY <1>3 DEF SinkIt, rotatingVars
<1> QED BY <1>4, <1>5, <1>6, <1>7, <1>8, <1>9, <1>10 DEF RotatingNext

(* Messages on the disk are lost in the order of their age, whatever fails *)
(* and whenever the process is killed; the one exception is log.txt after  *)
(* two failures to rename a file that is there.                            *)
THEOREM OldestSafe == RotatingSpec => OnlyOldestLost
<1>1. RotatingInv /\ [RotatingNext]_rotatingVars
      => [\A m \in Written \ Written' :
            \/ \A n \in Written' : m < n
            \/ step = "give up" /\ index - 1 \in present /\ m \in file[0]]_rotatingVars
  BY LossStep DEF OldestOrLog
<1> QED BY <1>1, RotatingInvariance, PTL DEF RotatingSpec, OnlyOldestLost

-----------------------------------------------------------------------------
(* The daily file.  Whatever is still to be handled was logged when the    *)
(* day of the open file had begun, and the next rotation is the one that   *)
(* was reckoned for that file; without a file, everything still to be      *)
(* handled opens one.                                                      *)
Starting ==
  process = "starting" =>
    waiting = {} /\ opened \in Nat /\ opened * DayLength <= now

Opened ==
  process = "up" =>
    IF opened = None
    THEN inOrder => now >= rotation_tp_ /\ \A m \in waiting : m >= rotation_tp_
    ELSE /\ opened \in Days => rotation_tp_ = NextRotation(reckonedAt[opened])
         /\ inOrder => /\ opened * DayLength <= now
                       /\ \A m \in waiting : opened * DayLength <= m

DailyTypes ==
  /\ rotation \in 0..(DayLength - 1)
  /\ now \in Nat /\ waiting \subseteq 0..now
  /\ process = "down" => waiting = {}
  /\ opened \in Nat \cup {None} /\ rotation_tp_ \in Nat
  /\ DOMAIN contents = Days /\ \A day \in Days : contents[day] \subseteq Nat

DailyReckoned ==
  DOMAIN reckonedAt = Days /\ \A day \in Days : reckonedAt[day] \in 0..now

DailyInv == DailyTypes /\ DailyReckoned /\ Starting /\ Opened /\ EachDayItsFile

(* The day of a time is the one it lies in.                                *)
LEMMA InDay ==
  ASSUME NEW t \in Nat
  PROVE  /\ Day(t) \in Nat
         /\ Day(t) * DayLength <= t
         /\ t < (Day(t) + 1) * DayLength
<1> DEFINE d == Day(t)
<1>1. DayLength \in Nat \ {0} BY DailyAssumption
<1>2. t = DayLength * (t \div DayLength) + (t % DayLength)
      /\ t \div DayLength \in Nat /\ t % DayLength \in 0..(DayLength - 1)
  BY <1>1
<1>3. d \in Nat /\ t = DayLength * d + (t % DayLength) BY <1>2 DEF Day
<1>4. DayLength * d = d * DayLength /\ (d + 1) * DayLength = d * DayLength + DayLength
      /\ d * DayLength \in Nat
  BY <1>1, <1>3
<1>5. t % DayLength >= 0 /\ t % DayLength < DayLength /\ t % DayLength \in Nat BY <1>1, <1>2
<1> HIDE DEF d
<1>6. d * DayLength <= t /\ t < (d + 1) * DayLength BY <1>1, <1>3, <1>4, <1>5
<1> QED BY <1>3, <1>6 DEF d

(* The next rotation is in the future, and further away later on.         *)
LEMMA NextDay ==
  ASSUME NEW t \in Nat, rotation \in 0..(DayLength - 1)
  PROVE  NextRotation(t) \in Nat /\ t < NextRotation(t)
<1>1. DayLength \in Nat \ {0} BY DailyAssumption
<1>2. Day(t) \in Nat /\ t < (Day(t) + 1) * DayLength BY InDay
<1>3. (Day(t) + 1) * DayLength = Day(t) * DayLength + DayLength /\ Day(t) * DayLength \in Nat
  BY <1>1, <1>2
<1> QED BY <1>1, <1>2, <1>3 DEF NextRotation

LEMMA Times ==
  ASSUME NEW i \in Nat, NEW j \in Nat, NEW l \in Nat, i <= j
  PROVE  i * l \in Nat /\ j * l \in Nat /\ i * l <= j * l
<1>1. PICK k \in Nat : j = i + k
  <2>1. j - i \in Nat /\ j = i + (j - i) OBVIOUS
  <2> QED BY <2>1
<1>2. j * l = i * l + k * l /\ i * l \in Nat /\ k * l \in Nat BY <1>1
<1> QED BY <1>2

LEMMA NextGrows ==
  ASSUME NEW t \in Nat, NEW u \in Nat, t <= u, rotation \in 0..(DayLength - 1)
  PROVE  NextRotation(t) <= NextRotation(u)
<1> DEFINE a == Day(t) * DayLength
           b == Day(u) * DayLength
<1>1. DayLength \in Nat \ {0} /\ Day(t) \in Nat /\ Day(u) \in Nat
  BY InDay, DailyAssumption
<1>2. /\ (Day(t) + 1) * DayLength = a + DayLength /\ a \in Nat
      /\ (Day(u) + 1) * DayLength = b + DayLength /\ b \in Nat
  BY <1>1
<1>3. a <= t /\ t < a + DayLength /\ b <= u /\ u < b + DayLength
  BY <1>2, InDay
<1>4. a = b \/ a + DayLength <= b \/ b + DayLength <= a
  <2>1. CASE Day(t) = Day(u) BY <2>1
  <2>2. CASE Day(t) + 1 <= Day(u)
    <3>1. (Day(t) + 1) * DayLength <= Day(u) * DayLength BY <1>1, <2>2, Times
    <3> QED BY <1>2, <3>1
  <2>3. CASE Day(u) + 1 <= Day(t)
    <3>1. (Day(u) + 1) * DayLength <= Day(t) * DayLength BY <1>1, <2>3, Times
    <3> QED BY <1>2, <3>1
  <2> QED BY <1>1, <2>1, <2>2, <2>3
<1>5. /\ NextRotation(t) = IF a + rotation > t THEN a + rotation ELSE a + rotation + DayLength
      /\ NextRotation(u) = IF b + rotation > u THEN b + rotation ELSE b + rotation + DayLength
  BY DEF NextRotation
<1> HIDE DEF a, b
<1> QED BY <1>1, <1>2, <1>3, <1>4, <1>5

(* What is in its right file stays so when the rotation is reckoned again, *)
(* and what is added then was logged before.                               *)
LEMMA ReckonsRight ==
  ASSUME DailyTypes, DailyReckoned, EachDayItsFile, NEW d, Reckons(d),
         UNCHANGED <<argumentVars, now>>, process' # "crashed",
         NEW m \in Nat, m <= now, d * DayLength <= m,
         \A day \in Days : contents'[day] \subseteq contents[day] \cup {n \in {m} : day = d}
  PROVE  EachDayItsFile' /\ DailyReckoned' /\ (d \in Days => reckonedAt'[d] = now)
<1>1. /\ DOMAIN reckonedAt' = Days
      /\ \A day \in Days : reckonedAt'[day] = IF day = d THEN now ELSE reckonedAt[day]
  BY DEF Reckons, DailyReckoned
<1>2. now \in Nat /\ rotation \in 0..(DayLength - 1) BY DEF DailyTypes
<1>3. \A day \in Days : reckonedAt[day] \in Nat /\ reckonedAt[day] <= now
  BY <1>2 DEF DailyReckoned
<1>4. DailyReckoned' BY <1>1, <1>2, <1>3 DEF DailyReckoned
<1>5. EachDayItsFile'
  <2> SUFFICES ASSUME inOrder, NEW day \in Days, NEW n \in contents'[day]
               PROVE  day * DayLength <= n /\ n < NextRotation(reckonedAt'[day])
    BY DEF EachDayItsFile, RightFile, NextRotation, argumentVars
  <2>1. CASE n \in contents[day]
    <3>1. day * DayLength <= n /\ n < NextRotation(reckonedAt[day])
      BY <2>1 DEF EachDayItsFile, RightFile
    <3>2. CASE day # d
      <4>1. reckonedAt'[day] = reckonedAt[day] BY <1>1, <3>2
      <4> QED BY <3>1, <4>1
    <3>3. CASE day = d
      <4>1. reckonedAt'[day] = now BY <1>1, <3>3
      <4>2. NextRotation(reckonedAt[day]) <= NextRotation(now) BY <1>2, <1>3, NextGrows
      <4>3. NextRotation(reckonedAt[day]) \in Nat /\ NextRotation(now) \in Nat
        BY <1>2, <1>3, NextDay
      <4>4. n \in Nat BY <2>1 DEF DailyTypes
      <4> QED BY <3>1, <4>1, <4>2, <4>3, <4>4
    <3> QED BY <3>2, <3>3
  <2>2. CASE n = m /\ day = d
    <3>1. reckonedAt'[day] = now BY <1>1, <2>2
    <3>2. now < NextRotation(now) /\ NextRotation(now) \in Nat BY <1>2, NextDay
    <3>3. n \in Nat /\ n <= now /\ day * DayLength <= n BY <2>2
    <3> QED BY <1>2, <3>1, <3>2, <3>3
  <2> QED BY <2>1, <2>2
<1> QED BY <1>1, <1>4, <1>5

LEMMA DailyInit == InitDaily => DailyInv
<1> SUFFICES ASSUME InitDaily PROVE DailyInv OBVIOUS
<1>1. DailyTypes BY DailyAssumption DEF InitDaily, DailyTypes
<1>2. DailyReckoned /\ Starting /\ Opened /\ EachDayItsFile
  BY DEF InitDaily, DailyReckoned, Starting, Opened, EachDayItsFile
<1> QED BY <1>1, <1>2 DEF DailyInv

(* A step that reckons nothing and adds nothing to the files.              *)
LEMMA Undisturbed ==
  ASSUME EachDayItsFile, UNCHANGED <<argumentVars, reckonedAt>>,
         process' # "crashed" \/ process' = process,
         \A day \in Days : contents'[day] \subseteq contents[day]
  PROVE  EachDayItsFile'
<1>1. \A t : NextRotation(t)' = NextRotation(t)
  BY DEF NextRotation, argumentVars
<1> QED BY <1>1 DEF EachDayItsFile, RightFile, argumentVars

LEMMA StartDailyStep ==
  ASSUME DailyInv, StartDaily \/ ReckonDaily \/ ExitDaily
  PROVE  DailyInv'
<1> USE DEF DailyInv
<1>1. /\ now \in Nat /\ rotation \in 0..(DayLength - 1)
      /\ process \in {"down", "starting"} => waiting = {}
  BY DEF DailyTypes, Starting
<1>2. CASE StartDaily
  <2>1. Day(now) \in Nat /\ Day(now) * DayLength <= now BY <1>1, InDay
  <2>2. \A day \in Days : contents'[day] \subseteq contents[day]
    BY <1>2 DEF StartDaily, Reopened, DailyTypes
  <2>3. DailyTypes' BY <1>1, <1>2, <2>1, <2>2 DEF StartDaily, DailyTypes, argumentVars
  <2>4. DailyReckoned' /\ Starting' /\ Opened'
    BY <1>1, <1>2, <2>1 DEF StartDaily, DailyReckoned, Starting, Opened, argumentVars
  <2>5. EachDayItsFile' BY <1>2, <2>2, Undisturbed DEF StartDaily
  <2> QED BY <2>3, <2>4, <2>5
<1>3. CASE ReckonDaily
  <2>1. /\ Reckons(opened) /\ UNCHANGED <<argumentVars, now, waiting, opened, contents>>
        /\ process = "starting" /\ process' = "up" /\ waiting = {}
        /\ opened \in Nat /\ opened * DayLength <= now /\ opened # None
    BY <1>3 DEF ReckonDaily, Starting, None
  <2>2. EachDayItsFile' /\ DailyReckoned' /\ (opened \in Days => reckonedAt'[opened] = now)
    <3>1. \A day \in Days : contents'[day] \subseteq contents[day] \cup {n \in {now} : day = opened}
      BY <2>1
    <3>2. now \in Nat /\ now <= now BY <1>1
    <3> QED BY <2>1, <3>1, <3>2, ReckonsRight
  <2>3. rotation_tp_' = NextRotation(now) /\ NextRotation(now) \in Nat
    BY <1>1, <2>1, NextDay DEF Reckons
  <2>4. DailyTypes' BY <2>1, <2>3 DEF DailyTypes, argumentVars
  <2>5. Opened'
    <3>1. \A t : NextRotation(t)' = NextRotation(t) BY <2>1 DEF NextRotation, argumentVars
    <3> QED BY <2>1, <2>2, <2>3, <3>1 DEF Opened, argumentVars
  <2>6. Starting' BY <2>1 DEF Starting
  <2> QED BY <2>2, <2>4, <2>5, <2>6
<1>4. CASE ExitDaily
  <2>1. DailyTypes' /\ DailyReckoned' /\ Starting' /\ Opened'
    BY <1>4 DEF ExitDaily, DailyTypes, DailyReckoned, Starting, Opened, argumentVars
  <2>2. EachDayItsFile' BY <1>4, Undisturbed DEF ExitDaily
  <2> QED BY <2>1, <2>2
<1> QED BY <1>2, <1>3, <1>4

(* A message that is handled: what it finds.                               *)
LEMMA SinkFinds ==
  ASSUME DailyInv, NEW m \in waiting, SinkDaily(m)
  PROVE  /\ m \in Nat /\ m <= now /\ now \in Nat /\ rotation_tp_ \in Nat
         /\ rotation \in 0..(DayLength - 1)
         /\ waiting \subseteq 0..now /\ opened \in Nat \cup {None}
         /\ process = "up" /\ waiting' = waiting \ {m} /\ now' = now
         /\ UNCHANGED argumentVars
         /\ inOrder => \A n \in waiting : m <= n
         /\ \A t : NextRotation(t)' = NextRotation(t)
<1>1. waiting \subseteq 0..now /\ now \in Nat /\ rotation_tp_ \in Nat
  BY DEF DailyInv, DailyTypes
<1>2. rotation \in 0..(DayLength - 1) /\ opened \in Nat \cup {None}
  BY DEF DailyInv, DailyTypes
<1>3. m \in Nat /\ m <= now
  BY <1>1
<1>4. /\ process = "up" /\ waiting' = waiting \ {m} /\ now' = now
      /\ UNCHANGED argumentVars
      /\ inOrder => \A n \in waiting : m <= n
  BY DEF SinkDaily, RotateDaily, RotateDailyFails, WriteDaily, Takes
<1>5. \A t : NextRotation(t)' = NextRotation(t) BY <1>4 DEF NextRotation, argumentVars
<1> QED BY <1>1, <1>2, <1>3, <1>4, <1>5

LEMMA RotateDailyStep ==
  ASSUME DailyInv, NEW m \in waiting, RotateDaily(m)
  PROVE  DailyInv'
<1> USE DEF DailyInv
<1>1. /\ m \in Nat /\ m <= now /\ now \in Nat /\ rotation_tp_ \in Nat
      /\ rotation \in 0..(DayLength - 1)
      /\ waiting \subseteq 0..now /\ opened \in Nat \cup {None}
      /\ process = "up" /\ waiting' = waiting \ {m} /\ now' = now
      /\ UNCHANGED argumentVars
      /\ inOrder => \A n \in waiting : m <= n
      /\ \A t : NextRotation(t)' = NextRotation(t)
  BY SinkFinds DEF SinkDaily
<1>2. Day(m) \in Nat /\ Day(m) * DayLength <= m BY <1>1, InDay
<1>3. rotation_tp_' = NextRotation(now) /\ NextRotation(now) \in Nat
  BY <1>1, NextDay DEF RotateDaily, Reckons
<1>4. /\ process' = "up" /\ opened' = Day(m) /\ Reckons(Day(m))
      /\ DOMAIN contents' = DOMAIN contents
      /\ \A day \in Days : contents'[day] \subseteq contents[day] \cup {n \in {m} : day = Day(m)}
  BY <1>1 DEF RotateDaily, Reopened, DailyTypes
<1>5. EachDayItsFile' /\ DailyReckoned' /\ (Day(m) \in Days => reckonedAt'[Day(m)] = now)
  <2>1. m \in Nat /\ m <= now /\ Day(m) * DayLength <= m BY <1>1, <1>2
  <2>2. UNCHANGED <<argumentVars, now>> /\ process' # "crashed" BY <1>1, <1>4
  <2> QED BY <1>4, <2>1, <2>2, ReckonsRight
<1>6. DailyTypes' BY <1>1, <1>2, <1>3, <1>4 DEF DailyTypes, argumentVars
<1>7. Opened'
  <2>1. Day(m) # None /\ Day(m) * DayLength \in Nat BY <1>2, DailyAssumption DEF None
  <2>2. Day(m) \in Days => rotation_tp_' = NextRotation(reckonedAt'[Day(m)])
    BY <1>3, <1>5
  <2>3. inOrder => /\ Day(m) * DayLength <= now
                   /\ \A n \in waiting' : Day(m) * DayLength <= n
    BY <1>1, <1>2, <2>1
  <2> QED BY <1>1, <1>4, <2>1, <2>2, <2>3 DEF Opened, NextRotation, argumentVars
<1>8. Starting' BY <1>4 DEF Starting
<1> QED BY <1>5, <1>6, <1>7, <1>8

LEMMA RotateDailyFailsStep ==
  ASSUME DailyInv, NEW m \in waiting, RotateDailyFails(m)
  PROVE  DailyInv'
<1> USE DEF DailyInv
<1>1. /\ m \in Nat /\ m <= now /\ now \in Nat /\ rotation_tp_ \in Nat
      /\ waiting \subseteq 0..now
      /\ process = "up" /\ waiting' = waiting \ {m} /\ now' = now
      /\ UNCHANGED argumentVars
      /\ inOrder => \A n \in waiting : m <= n
  BY SinkFinds DEF SinkDaily
<1>2. /\ m >= rotation_tp_ /\ opened' = None /\ process' = "up"
      /\ UNCHANGED <<rotation_tp_, contents, reckonedAt>>
  BY <1>1 DEF RotateDailyFails
<1>3. DailyTypes' /\ DailyReckoned' /\ Starting'
  BY <1>1, <1>2 DEF DailyTypes, DailyReckoned, Starting, argumentVars
<1>4. Opened' BY <1>1, <1>2 DEF Opened, argumentVars
<1>5. EachDayItsFile' BY <1>1, <1>2, Undisturbed
<1> QED BY <1>3, <1>4, <1>5

LEMMA WriteDailyStep ==
  ASSUME DailyInv, NEW m \in waiting, WriteDaily(m)
  PROVE  DailyInv'
<1> USE DEF DailyInv
<1>1. /\ m \in Nat /\ m <= now /\ now \in Nat /\ rotation_tp_ \in Nat
      /\ waiting \subseteq 0..now /\ opened \in Nat \cup {None}
      /\ process = "up" /\ waiting' = waiting \ {m} /\ now' = now
      /\ UNCHANGED argumentVars
      /\ \A t : NextRotation(t)' = NextRotation(t)
  BY SinkFinds DEF SinkDaily
<1>2. /\ UNCHANGED <<opened, rotation_tp_, reckonedAt>> /\ m < rotation_tp_
      /\ DOMAIN contents' = DOMAIN contents
      /\ \A day \in Days : contents'[day] \subseteq contents[day] \cup {n \in {m} : day = opened}
      /\ process' = IF opened = None THEN "crashed" ELSE "up"
  BY <1>1 DEF WriteDaily, DailyTypes
<1>3. DailyTypes' /\ DailyReckoned' BY <1>1, <1>2 DEF DailyTypes, DailyReckoned, argumentVars
<1>4. Starting' BY <1>2 DEF Starting
<1>5. Opened' BY <1>1, <1>2 DEF Opened, argumentVars, Days, Day
<1>6. inOrder => opened \in Nat /\ opened # None BY <1>1, <1>2 DEF Opened
<1>7. EachDayItsFile'
  <2>1. inOrder => process' # "crashed" BY <1>2, <1>6
  <2> SUFFICES ASSUME inOrder, NEW day \in Days, NEW n \in contents'[day]
               PROVE  RightFile(n, day)
    BY <1>1, <1>2, <2>1 DEF EachDayItsFile, RightFile, argumentVars
  <2>2. CASE n \in contents[day] BY <2>2 DEF EachDayItsFile
  <2>3. CASE n = m /\ day = opened
    <3>1. opened * DayLength <= m /\ rotation_tp_ = NextRotation(reckonedAt[opened])
      BY <1>1, <1>6, <2>3 DEF Opened
    <3> QED BY <1>2, <2>3, <3>1 DEF RightFile
  <2> QED BY <1>2, <2>2, <2>3
<1> QED BY <1>3, <1>4, <1>5, <1>7

LEMMA DailyStep == DailyInv /\ [DailyNext]_dailyVars => DailyInv'
<1> SUFFICES ASSUME DailyInv, [DailyNext]_dailyVars PROVE DailyInv' OBVIOUS
<1> USE DEF DailyInv
<1>1. CASE LogDaily
  <2>1. DailyTypes' /\ DailyReckoned' /\ Starting'
    BY <1>1 DEF LogDaily, DailyTypes, DailyReckoned, Starting, argumentVars
  <2>2. \A t : NextRotation(t)' = NextRotation(t)
    BY <1>1 DEF LogDaily, NextRotation, argumentVars
  <2>3. Opened' BY <1>1, <2>2 DEF LogDaily, Opened, DailyTypes, argumentVars
  <2>4. EachDayItsFile' BY <1>1, Undisturbed DEF LogDaily
  <2> QED BY <2>1, <2>3, <2>4
<1>2. CASE Tick
  <2>1. now' = now + 1 /\ now \in Nat /\ rotation_tp_ \in Nat
        /\ (opened \in Nat => opened * DayLength \in Nat)
        /\ opened \in Nat \cup {None}
    BY <1>2, DailyAssumption DEF Tick, DailyTypes
  <2>2. DailyTypes' BY <1>2 DEF Tick, DailyTypes, argumentVars
  <2>3. DailyReckoned' /\ Starting'
    BY <1>2, <2>1 DEF Tick, DailyReckoned, Starting, Days, Day
  <2>4. \A t : NextRotation(t)' = NextRotation(t)
    BY <1>2 DEF Tick, NextRotation, argumentVars
  <2>5. Opened'
    BY <1>2, <2>1, <2>4 DEF Tick, Opened, argumentVars, Days, Day
  <2>6. EachDayItsFile'
    BY <1>2, Undisturbed DEF Tick
  <2> QED BY <2>2, <2>3, <2>5, <2>6
<1>3. CASE \E m \in waiting : SinkDaily(m)
  BY <1>3, RotateDailyStep, RotateDailyFailsStep, WriteDailyStep DEF SinkDaily
<1>4. CASE UNCHANGED dailyVars
  <2>1. \A t : NextRotation(t)' = NextRotation(t)
    BY <1>4 DEF dailyVars, NextRotation, argumentVars
  <2>2. DailyTypes' /\ DailyReckoned' /\ Starting'
    BY <1>4 DEF dailyVars, DailyTypes, DailyReckoned, Starting, argumentVars
  <2>3. Opened' /\ EachDayItsFile'
    BY <1>4, <2>1 DEF dailyVars, Opened, EachDayItsFile, RightFile, argumentVars
  <2> QED BY <2>2, <2>3
<1> QED BY <1>1, <1>2, <1>3, <1>4, StartDailyStep DEF DailyNext

(* No message handled in order goes to the file of a later day, to one     *)
(* whose rotation, as it was reckoned, has come, or to one that could not  *)
(* be opened, whatever fails and however long the messages wait.           *)
THEOREM DaysSafe == DailySpec => []EachDayItsFile
<1>1. DailyInv => EachDayItsFile BY DEF DailyInv
<1> QED BY DailyInit, DailyStep, <1>1, PTL DEF DailySpec
=============================================================================
