--------------------------- MODULE SocketCANProofs ---------------------------
(***************************************************************************)
(* What holds of class SocketCAN for any number of sockets, frames and     *)
(* writes and any room in the kernel.  Its buffer is a SharedQueue, so the *)
(* facts proved of that one are used here (Buffer).                        *)
(***************************************************************************)
EXTENDS SocketCAN, FiniteSetTheorems, SequenceTheorems, TLAPS

Buffer == INSTANCE SharedQueueProofs WITH
  Producers <- Listeners, Consumers <- Readers, Items <- Frames,
  MaxPushed <- MaxSockets * (MaxBusFrames + MaxWrites)

(* One thread reads, as in the program's own uses of the class.            *)
OneReads == Readers = {TheReader}

-----------------------------------------------------------------------------
(* The inductive invariant: first the types.                               *)
OwnerTypes ==
  /\ opc \in {"construct", "bind", "idle"} /\ sockfd \in Sockets \cup {0}
  /\ opened \in 0..MaxSockets /\ spawned \in Nat /\ bound \subseteq Sockets

FrameTypes ==
  /\ arrived \in [Sockets -> Seq(Frames)] /\ taken \in [Sockets -> Nat]
  /\ onBus \in 0..MaxBusFrames /\ writes \in 0..MaxWrites

ListenerTypes ==
  /\ lpc \in [Listeners -> {"none", "loop", "read", "push"}]
  /\ lfd \in [Listeners -> Sockets \cup {0}]
  /\ lframe \in [Listeners -> Frames \cup {Garbage}]

PollTypes == poll \in [Readers -> {"off", "ask", "told"}]

(* One listener is started for each socket that is bound.                  *)
Spawning ==
  /\ spawned <= opened
  /\ opc = "bind" => spawned < opened /\ sockfd = opened
  /\ \A l \in Listeners : lpc[l] # "none" => l <= spawned
  /\ sockfd <= opened
  /\ \A l \in Listeners : lfd[l] <= opened

(* The newest listener serves the socket the object holds.                 *)
Served ==
  isConnected /\ opc = "idle" =>
    /\ sockfd \in bound /\ spawned \in Listeners /\ lpc[spawned] # "none"
    /\ lpc[spawned] = "read" => lfd[spawned] = sockfd

(* A socket queues a frame once at most, and only frames that were sent.   *)
Once ==
  \A k \in Sockets :
    /\ taken[k] <= Len(arrived[k])
    /\ \A i, j \in 1..Len(arrived[k]) : arrived[k][i] = arrived[k][j] => i = j
    /\ \A i \in 1..Len(arrived[k]) :
         arrived[k][i] \in ({"bus"} \X (1..onBus)) \cup ({"own"} \X (1..writes))

(* Each frame pushed, or in a listener's hand, was read from a socket of   *)
(* its own.                                                                *)
PushedOf(f) == {i \in 1..Len(pushed) : pushed[i] = f}
HeldOf(f) == {l \in Listeners : lpc[l] = "push" /\ lframe[l] = f}
ReadFrom(f) == {k \in Sockets : \E i \in 1..taken[k] : arrived[k][i] = f}

FromSockets ==
  /\ \A l \in Listeners : lpc[l] = "push" => lframe[l] \in Frames
  /\ \A f \in Frames : Cardinality(PushedOf(f)) + Cardinality(HeldOf(f)) <= Cardinality(ReadFrom(f))

(* While there is one socket, the frames are pushed in the order in which  *)
(* it queued them.                                                         *)
InLine ==
  opened <= 1 =>
    /\ Len(pushed) = IF lpc[1] = "push" THEN taken[1] - 1 ELSE taken[1]
    /\ lpc[1] = "push" => lframe[1] = arrived[1][taken[1]]
    /\ \A i \in 1..Len(pushed) : pushed[i] = arrived[1][i]

CanInv ==
  /\ OwnerTypes /\ FrameTypes /\ ListenerTypes /\ PollTypes /\ Buffer!TypeInv
  /\ Spawning /\ Served /\ Once /\ FromSockets /\ InLine

(* A reader that polls calls ReadFrame() with a frame in the buffer.       *)
Polling ==
  \A r \in Readers :
    /\ poll[r] # "off" => r \notin cond_ /\ pc[r] # "front"
    /\ poll[r] = "told" => pc[r] = "idle" /\ queue_ # <<>>

ReaderInv == Buffer!FifoInv /\ Buffer!InOrder /\ Polling

-----------------------------------------------------------------------------
(* The buffer is a SharedQueue: what SharedQueue assumes is true of it.    *)
LEMMA BufferAssumption == Buffer!QueueAssumption
<1>1. MaxSockets * (MaxBusFrames + MaxWrites) \in Nat
  BY CanAssumption
<1>2. IsFiniteSet(Listeners)
  BY CanAssumption, FS_Interval DEF Listeners
<1>3. \A S : Buffer!IsFiniteSet(S) <=> IsFiniteSet(S)
  BY DEF IsFiniteSet, Buffer!IsFiniteSet
<1>4. Garbage \notin Frames
  BY CanAssumption DEF Frames, BusFrames, OwnFrames
<1> QED BY <1>1, <1>2, <1>3, <1>4, CanAssumption DEF Buffer!QueueAssumption, Listeners

(* RecvBuffer and Buffer are two names of it.                              *)
LEMMA SamePush ==
  ASSUME NEW l, NEW f
  PROVE  RecvBuffer!PushBack(l, f) <=> Buffer!PushBack(l, f)
BY DEF RecvBuffer!PushBack, Buffer!PushBack, RecvBuffer!GoTo, Buffer!GoTo

(* The same of its steps ...                                               *)
LEMMA SameNext == RecvBuffer!Next <=> Buffer!Next
BY DEF RecvBuffer!Next, Buffer!Next, RecvBuffer!Producer, Buffer!Producer,
  RecvBuffer!Consumer, Buffer!Consumer, RecvBuffer!PushBack, Buffer!PushBack,
  RecvBuffer!NotifyOne, Buffer!NotifyOne, RecvBuffer!Front, Buffer!Front,
  RecvBuffer!Copy, Buffer!Copy, RecvBuffer!PopFront, Buffer!PopFront,
  RecvBuffer!SpuriousWakeup, Buffer!SpuriousWakeup, RecvBuffer!GoTo, Buffer!GoTo,
  RecvBuffer!Wait, Buffer!Wait, RecvBuffer!Referent, Buffer!Referent,
  RecvBuffer!popped, Buffer!popped

(* ... and of its first state.                                             *)
LEMMA SameInit == RecvBuffer!Init <=> Buffer!Init
BY DEF RecvBuffer!Init, Buffer!Init, RecvBuffer!Threads, Buffer!Threads

(* Every step of the class is a step of the buffer, or leaves it alone.    *)
LEMMA StepsBuffer ==
  ASSUME FromSockets, [Next]_vars
  PROVE  [RecvBuffer!Next]_bufferVars
<1>1. ASSUME NEW l \in Listeners, Listener(l) \/ ListenerFails(l)
      PROVE  [RecvBuffer!Next]_bufferVars
  <2>1. CASE ListenerPushes(l)
    <3>1. lframe[l] \in Frames /\ RecvBuffer!PushBack(l, lframe[l])
      BY <2>1 DEF ListenerPushes, FromSockets
    <3> QED BY <3>1 DEF RecvBuffer!Next, RecvBuffer!Producer
  <2>2. CASE ListenerNotifies(l)
    BY <2>2 DEF ListenerNotifies, RecvBuffer!Next, RecvBuffer!Producer
  <2>3. CASE ListenerCallsRead(l) \/ ListenerReads(l) \/ ListenerFails(l)
    BY <2>3 DEF ListenerCallsRead, ListenerReads, ListenerFails
  <2> QED BY <1>1, <2>1, <2>2, <2>3 DEF Listener
<1>2. ASSUME NEW r \in Readers, Reader(r) \/ SpuriousWakeup(r)
      PROVE  [RecvBuffer!Next]_bufferVars
  BY <1>2 DEF Reader, IsAvailable, ReadFrame, SpuriousWakeup, RecvBuffer!Next
<1>3. CASE Owner \/ BusFrame \/ UNCHANGED vars
  BY <1>3 DEF Owner, OpenSocket, BindSocket, WriteFrame, BusFrame, vars
<1> QED BY <1>1, <1>2, <1>3 DEF Next

(* The same, of Buffer.                                                    *)
LEMMA StepsBufferToo == CanInv /\ [Next]_vars => [Buffer!Next]_(Buffer!vars)
<1> SUFFICES ASSUME CanInv, [Next]_vars PROVE [Buffer!Next]_(Buffer!vars)
  OBVIOUS
<1>1. RecvBuffer!Next \/ UNCHANGED bufferVars
  BY StepsBuffer DEF CanInv
<1>2. UNCHANGED bufferVars => UNCHANGED Buffer!vars
  BY DEF bufferVars, Buffer!vars
<1> QED BY <1>1, <1>2, SameNext

-----------------------------------------------------------------------------
(* A frame is queued at some sockets, behind what is there.                *)
LEMMA Queueing ==
  ASSUME FrameTypes, NEW ks, NEW frame \in Frames, QueueAt(ks, frame)
  PROVE  /\ arrived' \in [Sockets -> Seq(Frames)]
         /\ \A k \in Sockets :
              /\ Len(arrived[k]) \in Nat
              /\ \A i \in 1..Len(arrived[k]) : arrived'[k][i] = arrived[k][i]
              /\ \/ arrived'[k] = arrived[k]
                 \/ /\ arrived'[k] = Append(arrived[k], frame)
                    /\ Len(arrived'[k]) = Len(arrived[k]) + 1
                    /\ arrived'[k][Len(arrived[k]) + 1] = frame
<1>1. \A k \in Sockets : arrived[k] \in Seq(Frames)
  BY DEF FrameTypes
<1>2. \A k \in Sockets : arrived'[k] = arrived[k] \/ arrived'[k] = Append(arrived[k], frame)
  BY DEF QueueAt
<1>3. \A k \in Sockets :
        /\ Append(arrived[k], frame) \in Seq(Frames)
        /\ Len(Append(arrived[k], frame)) = Len(arrived[k]) + 1
        /\ \A i \in 1..Len(arrived[k]) : Append(arrived[k], frame)[i] = arrived[k][i]
        /\ Append(arrived[k], frame)[Len(arrived[k]) + 1] = frame
  BY <1>1, AppendProperties
<1>4. \A k \in Sockets : Len(arrived[k]) \in Nat
  BY <1>1, LenProperties
<1>5. arrived' = [k \in Sockets |-> arrived'[k]]
  BY DEF QueueAt
<1>6. \A k \in Sockets : arrived'[k] \in Seq(Frames)
  BY <1>1, <1>2, <1>3
<1>7. arrived' \in [Sockets -> Seq(Frames)]
  BY <1>5, <1>6
<1> QED BY <1>2, <1>3, <1>4, <1>7

(* read() gives the oldest frame that was not read.                        *)
LEMMA Oldest ==
  ASSUME FrameTypes, NEW k \in Sockets, taken[k] <= Len(arrived[k]), rx(k) # <<>>
  PROVE  /\ taken[k] + 1 \in 1..Len(arrived[k])
         /\ Head(rx(k)) = arrived[k][taken[k] + 1] /\ Head(rx(k)) \in Frames
<1>1. arrived[k] \in Seq(Frames) /\ Len(arrived[k]) \in Nat /\ taken[k] \in Nat
  BY LenProperties DEF FrameTypes
<1> DEFINE m == taken[k] + 1  n == Len(arrived[k])
<1>2. \A i \in m..n : arrived[k][i] \in Frames
  BY <1>1, ElementOfSeq
<1>3. /\ rx(k) \in Seq(Frames) /\ Len(rx(k)) = IF m <= n THEN n - m + 1 ELSE 0
      /\ \A i \in 1..n - m + 1 : rx(k)[i] = arrived[k][m + i - 1]
  <2>1. m \in Int /\ n \in Int
    BY <1>1
  <2> QED BY <1>2, <2>1, SubSeqProperties DEF rx
<1>4. Len(rx(k)) \in Nat \ {0}
  BY <1>3, EmptySeq
<1>5. m <= n
  BY <1>1, <1>3, <1>4
<1>6. Head(rx(k)) = rx(k)[1] /\ rx(k)[1] = arrived[k][m]
  BY <1>1, <1>3, <1>4, <1>5
<1> QED BY <1>1, <1>2, <1>5, <1>6

(* The sets that are counted are finite.                                   *)
LEMMA Countable ==
  ASSUME Buffer!TypeInv, NEW f
  PROVE  /\ IsFiniteSet(PushedOf(f)) /\ Cardinality(PushedOf(f)) \in Nat
         /\ IsFiniteSet(HeldOf(f)) /\ Cardinality(HeldOf(f)) \in Nat
         /\ IsFiniteSet(ReadFrom(f)) /\ Cardinality(ReadFrom(f)) \in Nat
<1>1. Len(pushed) \in Nat
  BY LenProperties DEF Buffer!TypeInv, Buffer!TypeOK
<1>2. IsFiniteSet(1..Len(pushed)) /\ IsFiniteSet(1..MaxSockets)
  BY <1>1, CanAssumption, FS_Interval
<1>3. PushedOf(f) \subseteq 1..Len(pushed) /\ HeldOf(f) \subseteq 1..MaxSockets
      /\ ReadFrom(f) \subseteq 1..MaxSockets
  BY DEF PushedOf, HeldOf, ReadFrom, Listeners, Sockets
<1> QED BY <1>2, <1>3, FS_Subset, FS_CardinalityType

(* Steps of the readers, and notifications.                                *)
LEMMA OthersKeep ==
  ASSUME CanInv, UNCHANGED <<ownerVars, kernelVars, listenerVars, isConnected, pushed>>
  PROVE  OwnerTypes' /\ FrameTypes' /\ ListenerTypes' /\ Spawning' /\ Served' /\ Once'
           /\ FromSockets' /\ InLine'
<1> USE DEF ownerVars, kernelVars, listenerVars
<1>1. OwnerTypes' /\ FrameTypes' /\ ListenerTypes'
  BY DEF CanInv, OwnerTypes, FrameTypes, ListenerTypes
<1>2. Spawning' /\ Served' /\ Once'
  BY DEF CanInv, Spawning, Served, Once
<1>3. FromSockets' /\ InLine'
  BY DEF CanInv, FromSockets, InLine, PushedOf, HeldOf, ReadFrom
<1> QED BY <1>1, <1>2, <1>3

-----------------------------------------------------------------------------
(* A frame from another node, or one of the object's own, is queued.       *)
LEMMA QueueingKeeps ==
  ASSUME CanInv, NEW ks, NEW frame \in Frames, QueueAt(ks, frame),
         \/ onBus < MaxBusFrames /\ frame = <<"bus", onBus + 1>> /\ onBus' = onBus + 1 /\ writes' = writes
         \/ writes < MaxWrites /\ frame = <<"own", writes + 1>> /\ writes' = writes + 1 /\ onBus' = onBus,
         UNCHANGED <<bound, taken, pushed, opened, lpc, lframe>>
  PROVE  FrameTypes' /\ Once' /\ FromSockets' /\ InLine'
<1>1. /\ arrived' \in [Sockets -> Seq(Frames)]
      /\ \A k \in Sockets :
           /\ Len(arrived[k]) \in Nat
           /\ \A i \in 1..Len(arrived[k]) : arrived'[k][i] = arrived[k][i]
           /\ \/ arrived'[k] = arrived[k]
              \/ /\ arrived'[k] = Append(arrived[k], frame)
                 /\ Len(arrived'[k]) = Len(arrived[k]) + 1
                 /\ arrived'[k][Len(arrived[k]) + 1] = frame
  BY Queueing DEF CanInv
<1>2. FrameTypes'
  BY <1>1, CanAssumption DEF CanInv, FrameTypes
<1>3. \A k \in Sockets : taken[k] \in Nat /\ taken[k] <= Len(arrived[k]) /\ taken[k] <= Len(arrived'[k])
  <2>1. \A k \in Sockets : taken[k] \in Nat
    BY DEF CanInv, FrameTypes
  <2>2. \A k \in Sockets : taken[k] <= Len(arrived[k])
    BY DEF CanInv, Once
  <2>3. \A k \in Sockets : Len(arrived'[k]) \in {Len(arrived[k]), Len(arrived[k]) + 1}
    BY <1>1
  <2> QED BY <1>1, <2>1, <2>2, <2>3
<1>4. Once'
  <2> DEFINE Old == ({"bus"} \X (1..onBus)) \cup ({"own"} \X (1..writes))
             New == ({"bus"} \X (1..onBus')) \cup ({"own"} \X (1..writes'))
  <2>1. onBus \in Nat /\ writes \in Nat
    BY DEF CanInv, FrameTypes
  <2>2. frame \notin Old /\ frame \in New /\ Old \subseteq New
    BY <2>1
  <2>3. ASSUME NEW k \in Sockets
        PROVE  /\ \A i, j \in 1..Len(arrived'[k]) : arrived'[k][i] = arrived'[k][j] => i = j
               /\ \A i \in 1..Len(arrived'[k]) : arrived'[k][i] \in New
    <3>1. /\ \A i, j \in 1..Len(arrived[k]) : arrived[k][i] = arrived[k][j] => i = j
          /\ \A i \in 1..Len(arrived[k]) : arrived[k][i] \in Old
      BY DEF CanInv, Once
    <3>2. CASE arrived'[k] = arrived[k]
      BY <2>2, <3>1, <3>2
    <3>3. CASE /\ Len(arrived'[k]) = Len(arrived[k]) + 1
               /\ arrived'[k][Len(arrived[k]) + 1] = frame
      <4>1. \A i \in 1..Len(arrived'[k]) : i \in 1..Len(arrived[k]) \/ i = Len(arrived[k]) + 1
        BY <1>1, <3>3
      <4>2. \A i \in 1..Len(arrived[k]) : arrived'[k][i] = arrived[k][i] /\ arrived'[k][i] # frame
        BY <1>1, <2>2, <3>1
      <4> HIDE DEF Old, New
      <4>3. \A i, j \in 1..Len(arrived'[k]) : arrived'[k][i] = arrived'[k][j] => i = j
        BY <3>1, <3>3, <4>1, <4>2
      <4>4. \A i \in 1..Len(arrived'[k]) : arrived'[k][i] \in New
        BY <2>2, <3>1, <3>3, <4>1, <4>2
      <4> QED BY <4>3, <4>4
    <3> QED BY <1>1, <3>2, <3>3
  <2> QED BY <1>3, <2>3 DEF Once
<1>5. FromSockets'
  <2>1. \A k \in Sockets, i \in Nat : i \in 1..taken[k] => arrived'[k][i] = arrived[k][i]
    BY <1>1, <1>3
  <2>2. \A f : ReadFrom(f)' = ReadFrom(f) /\ HeldOf(f)' = HeldOf(f) /\ PushedOf(f)' = PushedOf(f)
    <3>1. \A f : ReadFrom(f)' = ReadFrom(f)
      BY <1>3, <2>1 DEF ReadFrom
    <3> QED BY <3>1 DEF HeldOf, PushedOf
  <2> QED BY <2>2 DEF CanInv, FromSockets
<1>6. InLine'
  <2>1. 1 \in Sockets /\ Len(pushed) \in Nat
    BY CanAssumption, LenProperties DEF Sockets, CanInv, Buffer!TypeInv, Buffer!TypeOK
  <2>2. /\ \A i \in 1..Len(arrived[1]) : arrived'[1][i] = arrived[1][i]
        /\ taken[1] \in Nat /\ taken[1] <= Len(arrived[1]) /\ Len(arrived[1]) \in Nat
    BY <1>1, <1>3, <2>1
  <2>3. CASE opened <= 1
    <3>1. /\ Len(pushed) = IF lpc[1] = "push" THEN taken[1] - 1 ELSE taken[1]
          /\ lpc[1] = "push" => lframe[1] = arrived[1][taken[1]]
          /\ \A i \in 1..Len(pushed) : pushed[i] = arrived[1][i]
      BY <2>3 DEF CanInv, InLine
    <3>2. \A i \in 1..Len(pushed) : i \in 1..Len(arrived[1])
      BY <2>1, <2>2, <3>1
    <3>3. lpc[1] = "push" => taken[1] \in 1..Len(arrived[1])
      BY <2>1, <2>2, <3>1
    <3> QED BY <2>2, <3>1, <3>2, <3>3 DEF InLine
  <2> QED BY <2>3 DEF InLine
<1> QED BY <1>2, <1>4, <1>5, <1>6

(* The frames sent are among those the model counts.                       *)
LEMMA BusSent == CanInv /\ BusFrame => <<"bus", onBus + 1>> \in Frames
<1>1. CanInv /\ BusFrame => onBus + 1 \in 1..MaxBusFrames
  BY CanAssumption DEF BusFrame, CanInv, FrameTypes
<1> QED BY <1>1 DEF Frames, BusFrames

LEMMA OwnSent == CanInv /\ WriteFrame => <<"own", writes + 1>> \in Frames
<1>1. CanInv /\ WriteFrame => writes + 1 \in 1..MaxWrites
  BY CanAssumption DEF WriteFrame, CanInv, FrameTypes
<1> QED BY <1>1 DEF Frames, OwnFrames

LEMMA BusFrameKeeps ==
  ASSUME CanInv, BusFrame
  PROVE  OwnerTypes' /\ FrameTypes' /\ ListenerTypes' /\ PollTypes' /\ Spawning' /\ Served'
           /\ Once' /\ FromSockets' /\ InLine'
<1> USE DEF bufferVars, ownerVars, listenerVars
<1>1. <<"bus", onBus + 1>> \in Frames
  BY BusSent
<1>2. FrameTypes' /\ Once' /\ FromSockets' /\ InLine'
  BY <1>1, QueueingKeeps DEF BusFrame
<1>3. OwnerTypes' /\ ListenerTypes' /\ PollTypes' /\ Spawning' /\ Served'
  BY DEF BusFrame, CanInv, OwnerTypes, ListenerTypes, PollTypes, Spawning, Served
<1> QED BY <1>2, <1>3

LEMMA WriteFrameKeeps ==
  ASSUME CanInv, WriteFrame
  PROVE  OwnerTypes' /\ FrameTypes' /\ ListenerTypes' /\ PollTypes' /\ Spawning' /\ Served'
           /\ Once' /\ FromSockets' /\ InLine'
<1> USE DEF bufferVars, listenerVars
<1>1. <<"own", writes + 1>> \in Frames
  BY OwnSent
<1>2. ASSUME QueueAt(bound \ {sockfd}, <<"own", writes + 1>>)
      PROVE  FrameTypes' /\ Once' /\ FromSockets' /\ InLine'
  <2>1. /\ writes < MaxWrites /\ writes' = writes + 1 /\ onBus' = onBus
        /\ UNCHANGED <<bound, taken, pushed, opened, lpc, lframe>>
    BY DEF WriteFrame
  <2> QED BY <1>1, <1>2, <2>1, QueueingKeeps
<1>3. ASSUME arrived' = arrived
      PROVE  FrameTypes' /\ Once' /\ FromSockets' /\ InLine'
  <2>1. FrameTypes'
    BY <1>3, CanAssumption DEF WriteFrame, CanInv, FrameTypes
  <2>2. Once'
    <3>1. writes \in Nat /\ writes' = writes + 1 /\ onBus' = onBus
      BY DEF WriteFrame, CanInv, FrameTypes
    <3>2. 1..writes \subseteq 1..writes'
      BY <3>1
    <3>3. UNCHANGED <<arrived, taken>>
      BY <1>3 DEF WriteFrame
    <3> QED BY <3>1, <3>2, <3>3 DEF CanInv, Once
  <2>3. FromSockets' /\ InLine'
    BY <1>3 DEF WriteFrame, CanInv, FromSockets, InLine, PushedOf, HeldOf, ReadFrom
  <2> QED BY <2>1, <2>2, <2>3
<1>4. FrameTypes' /\ Once' /\ FromSockets' /\ InLine'
  BY <1>2, <1>3 DEF WriteFrame
<1>5. OwnerTypes' /\ ListenerTypes' /\ PollTypes' /\ Spawning' /\ Served'
  BY DEF WriteFrame, CanInv, OwnerTypes, ListenerTypes, PollTypes, Spawning, Served
<1> QED BY <1>4, <1>5

LEMMA OpenSocketKeeps ==
  ASSUME CanInv, OpenSocket
  PROVE  OwnerTypes' /\ FrameTypes' /\ ListenerTypes' /\ PollTypes' /\ Spawning' /\ Served'
           /\ Once' /\ FromSockets' /\ InLine'
<1> USE DEF bufferVars, kernelVars, listenerVars
<1>1. /\ opened \in Nat /\ opened < MaxSockets /\ spawned \in Nat /\ spawned <= opened
      /\ \A l \in Listeners : lfd[l] \in Nat /\ lfd[l] <= opened
  <2>1. \A l \in Listeners : lfd[l] \in Nat
    BY CanAssumption DEF CanInv, ListenerTypes, Sockets
  <2> QED BY <2>1, CanAssumption DEF OpenSocket, CanInv, OwnerTypes, Spawning
<1>2. \/ opc' = "bind" /\ opened' = opened + 1 /\ sockfd' = opened + 1
      \/ opc' = "idle" /\ opened' = opened /\ sockfd' = 0 /\ isConnected' = FALSE
  BY DEF OpenSocket, Throw
<1>3. OwnerTypes'
  <2>1. sockfd' \in Sockets \cup {0} /\ opened' \in 0..MaxSockets
    BY <1>1, <1>2, CanAssumption DEF Sockets
  <2> QED BY <1>2, <2>1 DEF OpenSocket, CanInv, OwnerTypes
<1>4. FrameTypes' /\ ListenerTypes' /\ PollTypes' /\ Once'
  BY DEF OpenSocket, CanInv, FrameTypes, ListenerTypes, PollTypes, Once
<1>5. Spawning'
  <2>1. UNCHANGED <<spawned, lpc, lfd>>
    BY DEF OpenSocket
  <2>2. \A l \in Listeners : lfd'[l] <= opened'
    BY <1>1, <1>2, <2>1
  <2>3. \A l \in Listeners : lpc'[l] # "none" => l <= spawned'
    BY <2>1 DEF CanInv, Spawning
  <2> QED BY <1>1, <1>2, <2>1, <2>2, <2>3 DEF Spawning
<1>6. Served'
  BY <1>2 DEF Served
<1>7. FromSockets'
  BY DEF OpenSocket, CanInv, FromSockets, PushedOf, HeldOf, ReadFrom
<1>8. InLine'
  <2>1. UNCHANGED <<pushed, lpc, taken, lframe, arrived>>
    BY DEF OpenSocket
  <2>2. opened' <= 1 => opened <= 1
    BY <1>1, <1>2
  <2> QED BY <2>1, <2>2 DEF CanInv, InLine
<1> QED BY <1>3, <1>4, <1>5, <1>6, <1>7, <1>8

LEMMA BindSocketKeeps ==
  ASSUME CanInv, BindSocket
  PROVE  OwnerTypes' /\ FrameTypes' /\ ListenerTypes' /\ PollTypes' /\ Spawning' /\ Served'
           /\ Once' /\ FromSockets' /\ InLine'
<1> USE DEF bufferVars
<1>1. /\ opened \in Nat /\ opened <= MaxSockets /\ spawned \in Nat /\ spawned < opened
      /\ sockfd = opened /\ opc' = "idle" /\ sockfd' = sockfd /\ opened' = opened
      /\ UNCHANGED <<lfd, lframe, pushed, arrived, taken, onBus, writes, poll>>
  <2>1. opened \in Nat /\ opened <= MaxSockets /\ spawned \in Nat
    BY CanAssumption DEF CanInv, OwnerTypes
  <2>2. spawned < opened /\ sockfd = opened
    BY DEF BindSocket, CanInv, Spawning
  <2>3. opc' = "idle" /\ sockfd' = sockfd /\ opened' = opened
        /\ UNCHANGED <<lfd, lframe, pushed, arrived, taken, onBus, writes, poll>>
    BY DEF BindSocket, Throw
  <2> QED BY <2>1, <2>2, <2>3
<1>2. spawned + 1 \in Listeners /\ sockfd \in Sockets
  BY <1>1, CanAssumption DEF Listeners, Sockets
<1>3. \A l \in Listeners : l \in Nat
  BY CanAssumption DEF Listeners
<1>4. ~(spawned + 1 <= spawned)
  BY <1>1
<1>5. lpc[spawned + 1] = "none"
  BY <1>2, <1>4 DEF CanInv, Spawning
<1>6. \/ /\ bound' = bound \cup {sockfd} /\ spawned' = spawned + 1
         /\ lpc' = [lpc EXCEPT ![spawned + 1] = "loop"]
      \/ UNCHANGED <<bound, spawned, lpc>> /\ isConnected' = FALSE
  BY DEF BindSocket, Throw
<1>7. \A l \in Listeners : lpc'[l] = lpc[l] \/ (l = spawned + 1 /\ lpc'[l] = "loop" /\ spawned' = spawned + 1)
  BY <1>6 DEF CanInv, ListenerTypes
<1>8. OwnerTypes'
  <2>1. bound' \subseteq Sockets /\ spawned' \in Nat
    <3>1. bound \subseteq Sockets
      BY DEF CanInv, OwnerTypes
    <3>2. bound' \in {bound, bound \cup {sockfd}}
      BY <1>6
    <3>3. spawned' \in {spawned, spawned + 1}
      BY <1>6
    <3>4. spawned' \in Nat
      BY <1>1, <3>3
    <3>5. bound' \subseteq Sockets
      BY <1>2, <3>1, <3>2
    <3> QED BY <3>4, <3>5
  <2> QED BY <1>1, <2>1 DEF CanInv, OwnerTypes
<1>9. ListenerTypes'
  BY <1>1, <1>6 DEF CanInv, ListenerTypes
<1>10. FrameTypes' /\ PollTypes' /\ Once'
  BY <1>1 DEF CanInv, FrameTypes, PollTypes, Once
<1>11. Spawning'
  <2>1. \A l \in Listeners : lpc[l] # "none" => l <= spawned
    BY DEF CanInv, Spawning
  <2>2. spawned' \in {spawned, spawned + 1}
    BY <1>6
  <2>3. \A l \in Listeners : lpc'[l] # "none" => l <= spawned'
    BY <1>1, <1>3, <1>7, <2>1, <2>2
  <2>4. \A l \in Listeners : lfd'[l] <= opened'
    BY <1>1 DEF CanInv, Spawning
  <2>5. spawned' <= opened' /\ sockfd' <= opened'
    BY <1>1, <2>2
  <2> QED BY <1>1, <2>3, <2>4, <2>5 DEF Spawning
<1>12. Served'
  <2>1. ASSUME isConnected' PROVE /\ sockfd' \in bound' /\ spawned' \in Listeners
                                  /\ lpc'[spawned'] = "loop"
    BY <1>1, <1>2, <1>6, <2>1 DEF CanInv, ListenerTypes
  <2> QED BY <2>1 DEF Served
<1>13. FromSockets'
  <2>1. \A l \in Listeners : lpc'[l] = "push" <=> lpc[l] = "push"
    BY <1>5, <1>7
  <2> QED BY <1>1, <2>1 DEF CanInv, FromSockets, PushedOf, HeldOf, ReadFrom
<1>14. InLine'
  <2>1. 1 \in Listeners
    BY CanAssumption DEF Listeners
  <2>2. lpc'[1] = "push" <=> lpc[1] = "push"
    BY <1>5, <1>7, <2>1
  <2> QED BY <1>1, <2>2 DEF CanInv, InLine
<1> QED BY <1>8, <1>9, <1>10, <1>11, <1>12, <1>13, <1>14

-----------------------------------------------------------------------------
(* A listener calls read() on the socket the object holds.                 *)
LEMMA CallsReadKeeps ==
  ASSUME CanInv, NEW l \in Listeners, ListenerCallsRead(l)
  PROVE  OwnerTypes' /\ FrameTypes' /\ ListenerTypes' /\ PollTypes' /\ Spawning' /\ Served'
           /\ Once' /\ FromSockets' /\ InLine'
<1> USE DEF bufferVars, ownerVars, kernelVars
<1>1. /\ lpc[l] = "loop" /\ lpc' = [lpc EXCEPT ![l] = "read"] /\ lfd' = [lfd EXCEPT ![l] = sockfd]
      /\ UNCHANGED <<pushed, ownerVars, kernelVars, spawned, lframe, isConnected, poll>>
  BY DEF ListenerCallsRead
<1>2. /\ lpc'[l] = "read" /\ lfd'[l] = sockfd
      /\ \A m \in Listeners \ {l} : lpc'[m] = lpc[m] /\ lfd'[m] = lfd[m]
  BY <1>1 DEF CanInv, ListenerTypes
<1>3. OwnerTypes' /\ FrameTypes' /\ PollTypes' /\ Once'
  BY <1>1 DEF CanInv, OwnerTypes, FrameTypes, PollTypes, Once
<1>4. ListenerTypes'
  BY <1>1 DEF CanInv, ListenerTypes, OwnerTypes
<1>5. Spawning'
  <2>1. \A m \in Listeners : lpc'[m] # "none" => m <= spawned'
    BY <1>1, <1>2 DEF CanInv, Spawning
  <2>2. \A m \in Listeners : lfd'[m] <= opened'
    BY <1>1, <1>2 DEF CanInv, Spawning
  <2> QED BY <1>1, <2>1, <2>2 DEF CanInv, Spawning
<1>6. Served'
  BY <1>1, <1>2 DEF CanInv, Served
<1>7. \A m \in Listeners : lpc'[m] = "push" <=> lpc[m] = "push"
  BY <1>1, <1>2
<1>8. FromSockets'
  BY <1>1, <1>7 DEF CanInv, FromSockets, PushedOf, HeldOf, ReadFrom
<1>9. InLine'
  BY <1>1, <1>7, CanAssumption DEF CanInv, InLine, Listeners
<1> QED BY <1>3, <1>4, <1>5, <1>6, <1>8, <1>9

(* read() returns: one more socket has given the frame, and one more       *)
(* listener has it in its hand.                                            *)
LEMMA ReadsKeeps ==
  ASSUME CanInv, NEW l \in Listeners, ListenerReads(l)
  PROVE  OwnerTypes' /\ FrameTypes' /\ ListenerTypes' /\ PollTypes' /\ Spawning' /\ Served'
           /\ Once' /\ FromSockets' /\ InLine'
<1> USE DEF bufferVars, ownerVars
<1> DEFINE k == lfd[l]  x == Head(rx(k))  n == taken[k] + 1
<1>1. /\ lpc[l] = "read" /\ k # 0 /\ rx(k) # <<>>
      /\ lframe' = [lframe EXCEPT ![l] = x] /\ taken' = [taken EXCEPT ![k] = @ + 1]
      /\ lpc' = [lpc EXCEPT ![l] = "push"]
      /\ UNCHANGED <<pushed, ownerVars, bound, arrived, onBus, spawned, lfd, isConnected, poll>>
  BY DEF ListenerReads
<1>2. k \in Sockets /\ \A s \in Sockets : taken[s] \in Nat
  BY <1>1 DEF CanInv, ListenerTypes, FrameTypes
<1>3. n \in 1..Len(arrived[k]) /\ x = arrived[k][n] /\ x \in Frames
  <2>1. taken[k] <= Len(arrived[k])
    BY <1>2 DEF CanInv, Once
  <2> QED BY <1>1, <1>2, <2>1, Oldest DEF CanInv
<1> HIDE DEF x, k
<1>4. /\ lpc'[l] = "push" /\ lframe'[l] = x /\ taken'[k] = n
      /\ \A m \in Listeners \ {l} : lpc'[m] = lpc[m] /\ lframe'[m] = lframe[m]
      /\ \A s \in Sockets \ {k} : taken'[s] = taken[s]
  BY <1>1, <1>2 DEF CanInv, ListenerTypes, FrameTypes
<1>5. OwnerTypes' /\ PollTypes'
  BY <1>1 DEF CanInv, OwnerTypes, PollTypes
<1>6. FrameTypes'
  BY <1>1, <1>2 DEF CanInv, FrameTypes
<1>7. ListenerTypes'
  BY <1>1, <1>3 DEF CanInv, ListenerTypes
<1>8. Spawning' /\ Served'
  <2>1. \A m \in Listeners : lpc'[m] = "none" <=> lpc[m] = "none"
    BY <1>1, <1>4
  <2>2. \A m \in Listeners : lpc'[m] = "read" => lpc[m] = "read"
    BY <1>1, <1>4
  <2> QED BY <1>1, <2>1, <2>2 DEF CanInv, Spawning, Served
<1>9. Once'
  <2>1. \A s \in Sockets : taken'[s] <= Len(arrived[s])
    BY <1>2, <1>3, <1>4 DEF CanInv, Once
  <2> QED BY <1>1, <2>1 DEF CanInv, Once
<1>10. FromSockets'
  <2>1. ASSUME NEW f \in Frames
        PROVE  Cardinality(PushedOf(f)') + Cardinality(HeldOf(f)') <= Cardinality(ReadFrom(f)')
    <3>1. Cardinality(PushedOf(f)) + Cardinality(HeldOf(f)) <= Cardinality(ReadFrom(f))
      BY DEF CanInv, FromSockets
    <3>2. /\ Cardinality(PushedOf(f)) \in Nat
          /\ IsFiniteSet(HeldOf(f)) /\ Cardinality(HeldOf(f)) \in Nat
          /\ IsFiniteSet(ReadFrom(f)) /\ Cardinality(ReadFrom(f)) \in Nat
      BY Countable DEF CanInv
    <3>3. PushedOf(f)' = PushedOf(f)
      BY <1>1 DEF PushedOf
    <3>4. CASE f = x
      <4>1. HeldOf(f)' = HeldOf(f) \cup {l} /\ l \notin HeldOf(f)
        BY <1>1, <1>4, <3>4 DEF HeldOf
      <4>2. k \notin ReadFrom(f)
        <5>1. \A i \in 1..taken[k] : i \in 1..Len(arrived[k]) /\ i # n
          BY <1>2, <1>3
        <5>2. \A i \in 1..taken[k] : arrived[k][i] # arrived[k][n]
          BY <1>2, <1>3, <5>1 DEF CanInv, Once
        <5> QED BY <1>3, <3>4, <5>2 DEF ReadFrom
      <4>3. ReadFrom(f)' = ReadFrom(f) \cup {k}
        <5>1. k \in ReadFrom(f)'
          BY <1>1, <1>2, <1>3, <1>4, <3>4 DEF ReadFrom
        <5>2. \A s \in Sockets \ {k} : s \in ReadFrom(f)' <=> s \in ReadFrom(f)
          BY <1>1, <1>4 DEF ReadFrom
        <5> QED BY <1>2, <5>1, <5>2 DEF ReadFrom
      <4>4. Cardinality(HeldOf(f)') = Cardinality(HeldOf(f)) + 1
        BY <3>2, <4>1, FS_AddElement
      <4>5. Cardinality(ReadFrom(f)') = Cardinality(ReadFrom(f)) + 1
        BY <3>2, <4>2, <4>3, FS_AddElement
      <4> QED BY <3>1, <3>2, <3>3, <4>4, <4>5
    <3>5. CASE f # x
      <4>1. HeldOf(f)' = HeldOf(f)
        BY <1>1, <1>4, <3>5 DEF HeldOf
      <4>2. ReadFrom(f)' = ReadFrom(f)
        <5>1. \A i \in 1..taken'[k] : i \in 1..taken[k] \/ i = n
          BY <1>2, <1>4
        <5>2. 1..taken[k] \subseteq 1..taken'[k]
          BY <1>2, <1>4
        <5>3. k \in ReadFrom(f)' <=> k \in ReadFrom(f)
          BY <1>1, <1>2, <1>3, <3>5, <5>1, <5>2 DEF ReadFrom
        <5>4. \A s \in Sockets \ {k} : s \in ReadFrom(f)' <=> s \in ReadFrom(f)
          BY <1>1, <1>4 DEF ReadFrom
        <5> QED BY <5>3, <5>4 DEF ReadFrom
      <4> QED BY <3>1, <3>3, <4>1, <4>2
    <3> QED BY <3>4, <3>5
  <2>2. \A m \in Listeners : lpc'[m] = "push" => lframe'[m] \in Frames
    BY <1>3, <1>4 DEF CanInv, FromSockets
  <2> QED BY <2>1, <2>2 DEF FromSockets
<1>11. InLine'
  <2> SUFFICES ASSUME opened <= 1 PROVE InLine'
    BY <1>1 DEF InLine
  <2>1. k = 1 /\ l = 1
    <3>1. k <= opened /\ l <= spawned /\ spawned <= opened
      BY <1>1 DEF CanInv, Spawning, k
    <3>2. k \in 1..MaxSockets /\ l \in 1..MaxSockets /\ opened \in Nat /\ spawned \in Nat
      BY <1>2, CanAssumption DEF CanInv, OwnerTypes, Sockets, Listeners
    <3> QED BY <3>1, <3>2
  <2>2. /\ Len(pushed) = taken[1] /\ \A i \in 1..Len(pushed) : pushed[i] = arrived[1][i]
    BY <1>1, <2>1 DEF CanInv, InLine
  <2>3. lpc'[1] = "push" /\ lframe'[1] = arrived[1][taken'[1]] /\ Len(pushed) = taken'[1] - 1
    BY <1>2, <1>3, <1>4, <2>1, <2>2
  <2> QED BY <1>1, <2>2, <2>3 DEF InLine
<1> QED BY <1>5, <1>6, <1>7, <1>8, <1>9, <1>10, <1>11

(* The frame in hand is pushed.                                            *)
LEMMA PushesKeeps ==
  ASSUME CanInv, NEW l \in Listeners, ListenerPushes(l)
  PROVE  OwnerTypes' /\ FrameTypes' /\ ListenerTypes' /\ PollTypes' /\ Spawning' /\ Served'
           /\ Once' /\ FromSockets' /\ InLine'
<1> USE DEF ownerVars, kernelVars
<1> DEFINE x == lframe[l]  n == Len(pushed)
<1>1. /\ lpc[l] = "push" /\ lpc' = [lpc EXCEPT ![l] = "loop"]
      /\ lframe' = [lframe EXCEPT ![l] = Garbage] /\ pushed' = Append(pushed, x)
      /\ UNCHANGED <<ownerVars, kernelVars, spawned, lfd, isConnected, poll>>
  BY DEF ListenerPushes, RecvBuffer!PushBack
<1>2. /\ lpc'[l] = "loop"
      /\ \A m \in Listeners \ {l} : lpc'[m] = lpc[m] /\ lframe'[m] = lframe[m]
  BY <1>1 DEF CanInv, ListenerTypes
<1>3. pushed \in Seq(Frames) /\ x \in Frames /\ n \in Nat
  BY <1>1, LenProperties DEF CanInv, Buffer!TypeInv, Buffer!TypeOK, FromSockets
<1> HIDE DEF x
<1>4. Len(pushed') = n + 1 /\ pushed'[n + 1] = x /\ \A i \in 1..n : pushed'[i] = pushed[i]
  BY <1>1, <1>3, AppendProperties
<1>5. OwnerTypes' /\ FrameTypes' /\ PollTypes' /\ Once'
  BY <1>1 DEF CanInv, OwnerTypes, FrameTypes, PollTypes, Once
<1>6. ListenerTypes'
  BY <1>1 DEF CanInv, ListenerTypes
<1>7. Spawning' /\ Served'
  <2>1. \A m \in Listeners : lpc'[m] = "none" <=> lpc[m] = "none"
    BY <1>1, <1>2
  <2>2. \A m \in Listeners : lpc'[m] = "read" => lpc[m] = "read"
    BY <1>1, <1>2
  <2> QED BY <1>1, <2>1, <2>2 DEF CanInv, Spawning, Served
<1>8. FromSockets'
  <2>1. ASSUME NEW f \in Frames
        PROVE  Cardinality(PushedOf(f)') + Cardinality(HeldOf(f)') <= Cardinality(ReadFrom(f)')
    <3>1. Cardinality(PushedOf(f)) + Cardinality(HeldOf(f)) <= Cardinality(ReadFrom(f))
      BY DEF CanInv, FromSockets
    <3>2. /\ IsFiniteSet(PushedOf(f)) /\ Cardinality(PushedOf(f)) \in Nat
          /\ IsFiniteSet(HeldOf(f)) /\ Cardinality(HeldOf(f)) \in Nat
      BY Countable DEF CanInv
    <3>3. ReadFrom(f)' = ReadFrom(f)
      BY <1>1 DEF ReadFrom
    <3>4. \A i \in 1..n + 1 : i \in 1..n \/ i = n + 1
      BY <1>3
    <3>5. n + 1 \notin 1..n /\ 1..n \subseteq 1..n + 1 /\ n + 1 \in 1..n + 1
      BY <1>3
    <3>6. CASE f = x
      <4>1. PushedOf(f)' = PushedOf(f) \cup {n + 1} /\ n + 1 \notin PushedOf(f)
        BY <1>4, <3>4, <3>5, <3>6 DEF PushedOf
      <4>2. HeldOf(f)' = HeldOf(f) \ {l} /\ l \in HeldOf(f)
        BY <1>1, <1>2, <3>6 DEF HeldOf, x
      <4>3. Cardinality(PushedOf(f)') = Cardinality(PushedOf(f)) + 1
        BY <3>2, <4>1, FS_AddElement
      <4>4. Cardinality(HeldOf(f)') = Cardinality(HeldOf(f)) - 1
        BY <3>2, <4>2, FS_RemoveElement
      <4> QED BY <3>1, <3>2, <3>3, <4>3, <4>4
    <3>7. CASE f # x
      <4>1. PushedOf(f)' = PushedOf(f)
        BY <1>4, <3>4, <3>5, <3>7 DEF PushedOf
      <4>2. HeldOf(f)' = HeldOf(f)
        BY <1>1, <1>2, <3>7 DEF HeldOf, x
      <4> QED BY <3>1, <3>3, <4>1, <4>2
    <3> QED BY <3>6, <3>7
  <2>2. \A m \in Listeners : lpc'[m] = "push" => lframe'[m] \in Frames
    BY <1>2 DEF CanInv, FromSockets
  <2> QED BY <2>1, <2>2 DEF FromSockets
<1>9. InLine'
  <2> SUFFICES ASSUME opened <= 1 PROVE InLine'
    BY <1>1 DEF InLine
  <2>1. l = 1
    <3>1. l <= spawned /\ spawned <= opened
      BY <1>1 DEF CanInv, Spawning
    <3>2. l \in 1..MaxSockets /\ opened \in Nat /\ spawned \in Nat
      BY CanAssumption DEF CanInv, OwnerTypes, Listeners
    <3> QED BY <3>1, <3>2
  <2>2. /\ n = taken[1] - 1 /\ x = arrived[1][taken[1]]
        /\ \A i \in 1..n : pushed[i] = arrived[1][i]
    BY <1>1, <2>1 DEF CanInv, InLine, x
  <2>3. taken[1] \in Nat
    BY CanAssumption DEF CanInv, FrameTypes, Sockets
  <2>4. Len(pushed') = taken[1] /\ taken[1] = n + 1
    BY <1>3, <1>4, <2>2, <2>3
  <2>5. \A i \in 1..Len(pushed') : pushed'[i] = arrived[1][i]
    <3>1. \A i \in 1..Len(pushed') : i \in 1..n \/ i = n + 1
      BY <1>3, <1>4
    <3> QED BY <1>4, <2>2, <2>4, <3>1
  <2> QED BY <1>1, <1>2, <2>1, <2>4, <2>5 DEF InLine
<1> QED BY <1>5, <1>6, <1>7, <1>8, <1>9

-----------------------------------------------------------------------------
(* The invariant holds first ...                                           *)
LEMMA InitCan == Init => CanInv
<1> SUFFICES ASSUME Init PROVE CanInv
  OBVIOUS
<1> USE DEF Init
<1>1. Buffer!TypeInv
  BY SameInit, BufferAssumption, Buffer!InitTypeInv
<1>2. OwnerTypes /\ ListenerTypes /\ PollTypes
  BY CanAssumption DEF OwnerTypes, ListenerTypes, PollTypes
<1>3. FrameTypes /\ Once
  <2>1. \A k \in Sockets : arrived[k] = <<>> /\ taken[k] = 0 /\ Len(arrived[k]) = 0
    OBVIOUS
  <2>2. FrameTypes
    BY CanAssumption DEF FrameTypes
  <2>3. 1..0 = {}
    OBVIOUS
  <2> QED BY <2>1, <2>2, <2>3 DEF Once
<1>4. Spawning /\ Served
  BY DEF Spawning, Served
<1>5. pushed = <<>> /\ Len(pushed) = 0 /\ 1..0 = {}
  BY DEF RecvBuffer!Init
<1>6. FromSockets
  <2>1. \A f : PushedOf(f) = {} /\ HeldOf(f) = {} /\ ReadFrom(f) = {}
    BY <1>5 DEF PushedOf, HeldOf, ReadFrom
  <2>2. Cardinality({}) = 0
    BY FS_EmptySet
  <2>3. \A f : Cardinality(PushedOf(f)) = 0 /\ Cardinality(HeldOf(f)) = 0 /\ Cardinality(ReadFrom(f)) = 0
    BY <2>1, <2>2
  <2>4. \A l \in Listeners : lpc[l] # "push"
    OBVIOUS
  <2> QED BY <2>3, <2>4 DEF FromSockets
<1>7. InLine
  <2>1. 1 \in Sockets /\ 1 \in Listeners
    BY CanAssumption DEF Sockets, Listeners
  <2>2. taken[1] = 0 /\ lpc[1] = "none"
    BY <2>1
  <2> QED BY <1>5, <2>2 DEF InLine
<1> QED BY <1>1, <1>2, <1>3, <1>4, <1>6, <1>7 DEF CanInv

(* ... and after every step.                                               *)
LEMMA NextCan == CanInv /\ [Next]_vars => CanInv'
<1> SUFFICES ASSUME CanInv, [Next]_vars PROVE CanInv'
  OBVIOUS
<1> DEFINE Kept == /\ OwnerTypes' /\ FrameTypes' /\ ListenerTypes' /\ PollTypes' /\ Spawning'
                   /\ Served' /\ Once' /\ FromSockets' /\ InLine'
<1>1. Buffer!TypeInv'
  <2>1. [Buffer!Next]_(Buffer!vars)
    BY StepsBufferToo
  <2> QED BY <2>1, BufferAssumption, Buffer!NextTypeInv DEF CanInv
<1>2. CASE Owner \/ BusFrame
  BY <1>2, OpenSocketKeeps, BindSocketKeeps, WriteFrameKeeps, BusFrameKeeps, <1>1 DEF Owner, CanInv
<1>3. ASSUME NEW l \in Listeners, Listener(l) \/ ListenerFails(l) PROVE Kept
  <2>1. ASSUME ListenerNotifies(l) PROVE Kept
    <3>1. UNCHANGED <<ownerVars, kernelVars, listenerVars, isConnected, pushed>> /\ poll' = poll
      BY <2>1 DEF ListenerNotifies, RecvBuffer!NotifyOne
    <3>2. PollTypes'
      BY <3>1 DEF CanInv, PollTypes
    <3> QED BY <3>1, <3>2, OthersKeep
  <2>2. ASSUME ListenerFails(l) PROVE Kept
    <3>1. /\ UNCHANGED <<ownerVars, kernelVars, listenerVars, pushed>> /\ poll' = poll
          /\ isConnected' = FALSE \/ isConnected' = isConnected
      BY <2>2 DEF ListenerFails, bufferVars
    <3>2. PollTypes'
      BY <3>1 DEF CanInv, PollTypes
    <3>3. OwnerTypes' /\ FrameTypes' /\ ListenerTypes' /\ Spawning' /\ Once'
      BY <3>1 DEF CanInv, OwnerTypes, FrameTypes, ListenerTypes, Spawning, Once, ownerVars,
        kernelVars, listenerVars
    <3>4. Served'
      BY <3>1 DEF CanInv, Served, ownerVars, kernelVars, listenerVars
    <3>5. FromSockets' /\ InLine'
      BY <3>1 DEF CanInv, FromSockets, InLine, PushedOf, HeldOf, ReadFrom, ownerVars,
        kernelVars, listenerVars
    <3> QED BY <3>2, <3>3, <3>4, <3>5
  <2> QED BY <1>3, <2>1, <2>2, CallsReadKeeps, ReadsKeeps, PushesKeeps DEF Listener
<1>4. ASSUME NEW r \in Readers, Reader(r) \/ SpuriousWakeup(r) PROVE Kept
  <2>1. UNCHANGED <<ownerVars, kernelVars, listenerVars, isConnected, pushed>>
    BY <1>4 DEF Reader, IsAvailable, ReadFrame, SpuriousWakeup, RecvBuffer!Consumer,
      RecvBuffer!Front, RecvBuffer!Copy, RecvBuffer!PopFront, RecvBuffer!SpuriousWakeup, bufferVars
  <2>2. PollTypes'
    BY <1>4 DEF Reader, IsAvailable, ReadFrame, SpuriousWakeup, CanInv, PollTypes
  <2> QED BY <2>1, <2>2, OthersKeep
<1>5. ASSUME UNCHANGED vars PROVE Kept
  <2>1. UNCHANGED <<ownerVars, kernelVars, listenerVars, isConnected, pushed, poll>>
    BY <1>5 DEF vars, bufferVars
  <2>2. PollTypes'
    BY <2>1 DEF CanInv, PollTypes
  <2> QED BY <2>1, <2>2, OthersKeep
<1> QED BY <1>1, <1>2, <1>3, <1>4, <1>5 DEF Next, CanInv

(* A connected object is served, whatever the owner, the listeners and the *)
(* readers have done.                                                      *)
THEOREM ServedSafe == Spec => []ConnectedMeansServed
<1>1. CanInv => ConnectedMeansServed
  <2> SUFFICES ASSUME CanInv, alive, isConnected, opc = "idle"
               PROVE  /\ sockfd \in bound
                      /\ \E l \in Listeners : lpc[l] \in {"loop", "push"} \/
                                              (lpc[l] = "read" /\ lfd[l] = sockfd)
    BY DEF ConnectedMeansServed
  <2>1. /\ sockfd \in bound /\ spawned \in Listeners /\ lpc[spawned] # "none"
        /\ lpc[spawned] = "read" => lfd[spawned] = sockfd
    BY DEF CanInv, Served
  <2>2. lpc[spawned] \in {"none", "loop", "read", "push"}
    BY <2>1 DEF CanInv, ListenerTypes
  <2>3. lpc[spawned] \in {"loop", "push"} \/ (lpc[spawned] = "read" /\ lfd[spawned] = sockfd)
    BY <2>1, <2>2
  <2> QED BY <2>1, <2>3
<1> QED BY InitCan, NextCan, <1>1, PTL DEF Spec

(* The driver uses its buffer as a SharedQueue may be used, so what is     *)
(* proved of that one holds inside it ...                                  *)
THEOREM BufferUsed == Spec => RecvBuffer!Spec
<1>1. Init => RecvBuffer!Init
  BY DEF Init
<1>2. CanInv /\ [Next]_vars => [RecvBuffer!Next]_(RecvBuffer!vars)
  <2> SUFFICES ASSUME CanInv, [Next]_vars PROVE [RecvBuffer!Next]_(RecvBuffer!vars)
    OBVIOUS
  <2>1. RecvBuffer!Next \/ UNCHANGED bufferVars
    BY StepsBuffer DEF CanInv
  <2> QED BY <2>1 DEF bufferVars, RecvBuffer!vars
<1> QED BY InitCan, NextCan, <1>1, <1>2, PTL DEF Spec, RecvBuffer!Spec

(* ... such as that none of the notifications the listeners send is lost,  *)
(* however many readers sleep in ReadFrame().                              *)
THEOREM WakeupsInside == Spec => []RecvBuffer!NoLostWakeup
<1>1. Init => Buffer!Init
  BY SameInit DEF Init
<1>2. CanInv /\ [Next]_vars => [Buffer!Next]_(Buffer!vars)
  BY StepsBufferToo
<1>3. Buffer!Spec => []Buffer!NoLostWakeup
  BY BufferAssumption, Buffer!WakeupSafe
<1>4. Buffer!NoLostWakeup => RecvBuffer!NoLostWakeup
  BY DEF Buffer!NoLostWakeup, RecvBuffer!NoLostWakeup, Buffer!Active, RecvBuffer!Active
<1> QED BY InitCan, NextCan, <1>1, <1>2, <1>3, <1>4, PTL DEF Spec, Buffer!Spec

-----------------------------------------------------------------------------
(* One reader.  It polls the buffer, or it does not.                       *)
LEMMA NextPolling == OneReads /\ PollTypes /\ ReaderInv /\ [Next]_vars => Polling'
<1> SUFFICES ASSUME OneReads, PollTypes, ReaderInv, [Next]_vars PROVE Polling'
  OBVIOUS
<1> DEFINE r == TheReader
<1>1. Readers = {r} /\ r \notin Listeners
  BY CanAssumption DEF OneReads, Listeners
<1>2. /\ pc \in [Listeners \cup Readers -> {"idle", "notify", "front", "copy", "pop"}]
      /\ queue_ \in Seq(Frames) /\ poll \in [Readers -> {"off", "ask", "told"}]
  BY DEF ReaderInv, Buffer!FifoInv, Buffer!TypeInv, Buffer!TypeOK, Buffer!Threads, PollTypes
<1>3. /\ poll[r] # "off" => r \notin cond_ /\ pc[r] # "front"
      /\ poll[r] = "told" => pc[r] = "idle" /\ queue_ # <<>>
  BY <1>1 DEF ReaderInv, Polling
<1>4. pc[r] = "pop" => queue_ # <<>>
  BY <1>1 DEF ReaderInv, Buffer!FifoInv, Buffer!OneReader
<1> HIDE DEF r
<1> SUFFICES /\ poll'[r] # "off" => r \notin cond_' /\ pc'[r] # "front"
             /\ poll'[r] = "told" => pc'[r] = "idle" /\ queue_' # <<>>
  BY <1>1 DEF Polling
<1>5. CASE ReadFrame(r)
  <2>1. /\ poll' = [poll EXCEPT ![r] = IF @ = "told" THEN "ask" ELSE @]
        /\ pc[r] = "idle" => poll[r] # "ask"
    BY <1>5 DEF ReadFrame
  <2>2. poll'[r] # "told" /\ (poll'[r] # "off" => poll[r] # "off")
    BY <1>1, <1>2, <2>1
  <2>3. CASE RecvBuffer!Front(r)
    <3>1. poll[r] # "off" => pc[r] = "idle" /\ queue_ # <<>>
      <4>1. pc[r] \in {"idle", "front"}
        BY <2>3 DEF RecvBuffer!Front
      <4>2. poll[r] \in {"off", "ask", "told"}
        BY <1>1, <1>2
      <4> QED BY <1>3, <2>1, <4>1, <4>2
    <3>2. queue_ # <<>> => pc'[r] = "copy" /\ cond_' = cond_
      BY <1>1, <1>2, <2>3 DEF RecvBuffer!Front, RecvBuffer!GoTo
    <3> QED BY <1>3, <2>2, <3>1, <3>2
  <2>4. CASE RecvBuffer!Copy(r)
    BY <1>1, <1>2, <1>3, <2>2, <2>4 DEF RecvBuffer!Copy, RecvBuffer!GoTo
  <2>5. CASE RecvBuffer!PopFront(r)
    BY <1>1, <1>2, <1>3, <1>4, <2>2, <2>5 DEF RecvBuffer!PopFront, RecvBuffer!GoTo
  <2> QED BY <1>5, <2>3, <2>4, <2>5 DEF ReadFrame, RecvBuffer!Consumer
<1>6. CASE IsAvailable(r)
  <2>1. pc[r] = "idle" /\ Len(queue_) > 0 /\ UNCHANGED <<queue_, pc, cond_>> /\ poll[r] = "ask"
    BY <1>6 DEF IsAvailable, bufferVars
  <2>2. queue_ # <<>>
    BY <2>1
  <2> QED BY <1>3, <2>1, <2>2
<1>7. CASE SpuriousWakeup(r)
  BY <1>3, <1>7 DEF SpuriousWakeup, RecvBuffer!SpuriousWakeup
<1>8. ASSUME NEW l \in Listeners, ListenerPushes(l) \/ ListenerNotifies(l)
      PROVE  pc'[r] = pc[r] /\ cond_' \subseteq cond_ /\ poll' = poll
               /\ (queue_ # <<>> => queue_' # <<>>)
  <2>1. pc'[r] = pc[r] /\ cond_' \subseteq cond_ /\ poll' = poll
    BY <1>1, <1>2, <1>8 DEF ListenerPushes, ListenerNotifies, RecvBuffer!PushBack,
      RecvBuffer!NotifyOne, RecvBuffer!GoTo
  <2>2. queue_' = queue_ \/ queue_' = Append(queue_, lframe[l])
    BY <1>8 DEF ListenerPushes, ListenerNotifies, RecvBuffer!PushBack, RecvBuffer!NotifyOne
  <2>3. Append(queue_, lframe[l]) # <<>>
    <3>1. Len(Append(queue_, lframe[l])) = Len(queue_) + 1 /\ Len(queue_) \in Nat
      BY <1>2, LenProperties
    <3>2. Len(<<>>) = 0
      OBVIOUS
    <3> QED BY <3>1, <3>2
  <2> QED BY <2>1, <2>2, <2>3
<1>9. CASE UNCHANGED <<bufferVars, poll>>
  BY <1>3, <1>9 DEF bufferVars
<1>10. \/ ReadFrame(r) \/ IsAvailable(r) \/ SpuriousWakeup(r)
       \/ \E l \in Listeners : ListenerPushes(l) \/ ListenerNotifies(l)
       \/ UNCHANGED <<bufferVars, poll>>
  <2>1. CASE Owner \/ BusFrame \/ UNCHANGED vars
    BY <2>1 DEF Owner, OpenSocket, BindSocket, WriteFrame, BusFrame, vars
  <2>2. ASSUME NEW l \in Listeners, Listener(l) \/ ListenerFails(l)
        PROVE  ListenerPushes(l) \/ ListenerNotifies(l) \/ UNCHANGED <<bufferVars, poll>>
    BY <2>2 DEF Listener, ListenerCallsRead, ListenerReads, ListenerFails
  <2> QED BY <1>1, <2>1, <2>2 DEF Next, Reader
<1> QED BY <1>3, <1>5, <1>6, <1>7, <1>8, <1>9, <1>10

(* What holds of the reader at first ...                                   *)
LEMMA InitReader == OneReads /\ Init => ReaderInv
<1> SUFFICES ASSUME OneReads, Init PROVE ReaderInv
  OBVIOUS
<1>1. Buffer!Init /\ Buffer!OneConsumer
  BY SameInit DEF Init, OneReads, Buffer!OneConsumer, TheReader, Buffer!TheConsumer
<1>2. Buffer!FifoInv /\ Buffer!InOrder
  BY <1>1, BufferAssumption, Buffer!InitFifo, Buffer!InitInOrder
<1>3. Polling
  BY DEF Init, RecvBuffer!Init, RecvBuffer!Threads, Polling
<1> QED BY <1>2, <1>3 DEF ReaderInv

(* ... still holds after every step.                                       *)
LEMMA NextReader == OneReads /\ CanInv /\ ReaderInv /\ [Next]_vars => ReaderInv'
<1> SUFFICES ASSUME OneReads, CanInv, ReaderInv, [Next]_vars PROVE ReaderInv'
  OBVIOUS
<1>1. [Buffer!Next]_(Buffer!vars) /\ Buffer!OneConsumer
  BY StepsBufferToo DEF OneReads, Buffer!OneConsumer, TheReader, Buffer!TheConsumer
<1>2. Buffer!FifoInv' /\ Buffer!InOrder'
  BY <1>1, BufferAssumption, Buffer!NextFifo, Buffer!NextInOrder DEF ReaderInv
<1>3. Polling'
  BY NextPolling DEF CanInv
<1> QED BY <1>2, <1>3 DEF ReaderInv

(* A single reader that asks IsAvailable() first is never put to sleep.    *)
THEOREM PollSafe == OneReads => (Spec => []PollNeverBlocks)
<1> SUFFICES ASSUME OneReads PROVE Spec => []PollNeverBlocks
  OBVIOUS
<1>1. Init => CanInv /\ ReaderInv
  BY InitCan, InitReader
<1>2. CanInv /\ ReaderInv /\ [Next]_vars => CanInv' /\ ReaderInv'
  BY NextCan, NextReader
<1>3. CanInv /\ ReaderInv => PollNeverBlocks
  <2>1. CanInv => cond_ \subseteq Readers
    BY DEF CanInv, Buffer!TypeInv, Buffer!TypeOK
  <2> QED BY <2>1 DEF ReaderInv, Polling, PollNeverBlocks
<1> QED BY <1>1, <1>2, <1>3, PTL DEF Spec

(* The copies of a frame that one reader gets are among those pushed.      *)
LEMMA CopiesCounted ==
  ASSUME OneReads, CanInv, ReaderInv
  PROVE  CopiesBounded
<1> SUFFICES ASSUME NEW f \in Frames \cup {Garbage}
             PROVE  TimesReceived(TheReader, f)
                      <= Cardinality({k \in Sockets : Contains(arrived[k], f)})
  BY DEF OneReads, CopiesBounded
<1> DEFINE got == received[TheReader]
           Copies == {i \in DOMAIN got : got[i] = f}
           Queued == {k \in Sockets : Contains(arrived[k], f)}
<1>1. /\ got \in Seq(Frames \cup {Garbage}) /\ pushed \in Seq(Frames)
      /\ DOMAIN got = 1..Len(got) /\ Len(got) \in Nat /\ Len(pushed) \in Nat
  <2>1. got \in Seq(Frames \cup {Garbage}) /\ pushed \in Seq(Frames)
    BY DEF OneReads, CanInv, Buffer!TypeInv, Buffer!TypeOK
  <2> QED BY <2>1, LenProperties
<1>2. Len(got) <= Len(pushed) /\ \A i \in 1..Len(got) : got[i] = pushed[i]
  BY DEF ReaderInv, Buffer!InOrder, TheReader, Buffer!TheConsumer
<1> HIDE DEF got
<1>3. Copies \subseteq PushedOf(f)
  BY <1>1, <1>2 DEF PushedOf
<1>4. IsFiniteSet(PushedOf(f)) /\ Cardinality(PushedOf(f)) \in Nat
  BY Countable DEF CanInv
<1>5. Cardinality(Copies) <= Cardinality(PushedOf(f)) /\ Cardinality(Copies) \in Nat
  BY <1>3, <1>4, FS_Subset, FS_CardinalityType
<1>6. IsFiniteSet(Queued) /\ Cardinality(Queued) \in Nat
  <2>1. IsFiniteSet(Sockets)
    BY CanAssumption, FS_Interval DEF Sockets
  <2> QED BY <2>1, FS_Subset, FS_CardinalityType
<1>7. CASE f \in Frames
  <2>1. /\ Cardinality(PushedOf(f)) + Cardinality(HeldOf(f)) <= Cardinality(ReadFrom(f))
        /\ Cardinality(HeldOf(f)) \in Nat /\ Cardinality(ReadFrom(f)) \in Nat
    BY <1>7, Countable DEF CanInv, FromSockets
  <2>2. ReadFrom(f) \subseteq Queued
    <3>1. \A k \in Sockets : taken[k] \in Nat /\ taken[k] <= Len(arrived[k]) /\ Len(arrived[k]) \in Nat
      BY LenProperties DEF CanInv, FrameTypes, Once
    <3>2. \A k \in Sockets : 1..taken[k] \subseteq 1..Len(arrived[k])
      BY <3>1
    <3> QED BY <3>2 DEF ReadFrom, Contains
  <2>3. Cardinality(ReadFrom(f)) <= Cardinality(Queued)
    BY <1>6, <2>2, FS_Subset
  <2> QED BY <1>4, <1>5, <1>6, <2>1, <2>3 DEF TimesReceived, got
<1>8. CASE f \notin Frames
  <2>1. PushedOf(f) = {}
    BY <1>1, <1>8, ElementOfSeq DEF PushedOf
  <2>2. Cardinality(Copies) = 0
    BY <1>3, <2>1, FS_EmptySet
  <2> QED BY <1>6, <2>2 DEF TimesReceived, got
<1> QED BY <1>7, <1>8

(* One reader gets no frame more often than there were sockets that queued *)
(* it, and never the contents of freed storage.                            *)
THEOREM CopiesSafe == OneReads => (Spec => []CopiesBounded)
<1> SUFFICES ASSUME OneReads PROVE Spec => []CopiesBounded
  OBVIOUS
<1>1. Init => CanInv /\ ReaderInv
  BY InitCan, InitReader
<1>2. CanInv /\ ReaderInv /\ [Next]_vars => CanInv' /\ ReaderInv'
  BY NextCan, NextReader
<1>3. CanInv /\ ReaderInv => CopiesBounded
  BY CopiesCounted
<1> QED BY <1>1, <1>2, <1>3, PTL DEF Spec

-----------------------------------------------------------------------------
(* A frame that is queued at the first socket, or at none, is sent.        *)
LEMMA QueueingSends ==
  ASSUME CanInv, NEW ks, NEW frame \in Frames, QueueAt(ks, frame),
         received' = received
  PROVE  [opened' <= 1 => Line!Next]_(Line!vars)
<1>1. 1 \in Sockets
  BY CanAssumption DEF Sockets
<1>2. arrived'[1] = arrived[1] \/ arrived'[1] = Append(arrived[1], frame)
  BY <1>1, Queueing DEF CanInv
<1> QED BY <1>2 DEF Line!Next, Line!Send, Line!vars

(* Each step, while there is one socket, is a step of the channel.         *)
LEMMA StepOfLine ==
  ASSUME OneReads, CanInv, CanInv', ReaderInv, [Next]_vars
  PROVE  [opened' <= 1 => Line!Next]_(Line!vars)
<1>1. CASE BusFrame
  <2>1. <<"bus", onBus + 1>> \in Frames /\ received' = received
    BY <1>1, BusSent DEF BusFrame, bufferVars
  <2> QED BY <1>1, <2>1, QueueingSends DEF BusFrame
<1>2. CASE WriteFrame
  <2>1. <<"own", writes + 1>> \in Frames /\ received' = received
    BY <1>2, OwnSent DEF WriteFrame, bufferVars
  <2>2. CASE arrived' = arrived
    BY <2>1, <2>2 DEF Line!vars
  <2> QED BY <1>2, <2>1, <2>2, QueueingSends DEF WriteFrame
<1>3. CASE Reader(TheReader) \/ SpuriousWakeup(TheReader)
  <2>1. arrived' = arrived /\ opened' = opened
    BY <1>3 DEF Reader, IsAvailable, ReadFrame, SpuriousWakeup, kernelVars, ownerVars
  <2>2. CASE RecvBuffer!Copy(TheReader)
    <3>1. Buffer!Copy(Buffer!TheConsumer) /\ Buffer!OneConsumer /\ Buffer!TheConsumer = TheReader
      BY <2>2 DEF RecvBuffer!Copy, Buffer!Copy, RecvBuffer!GoTo, Buffer!GoTo, RecvBuffer!Referent,
        Buffer!Referent, RecvBuffer!popped, Buffer!popped, Buffer!OneConsumer, OneReads, TheReader,
        Buffer!TheConsumer
    <3> DEFINE got == received[TheReader]
    <3>2. /\ Len(got) < Len(pushed)
          /\ received'[TheReader] = Append(got, pushed[Len(got) + 1])
      BY <3>1, BufferAssumption, Buffer!CopyIsNext DEF ReaderInv
    <3>3. ASSUME opened <= 1
          PROVE  Len(pushed) <= Len(arrived[1]) /\ pushed[Len(got) + 1] = arrived[1][Len(got) + 1]
      <4>1. got \in Seq(Frames \cup {Garbage}) /\ pushed \in Seq(Frames) /\ 1 \in Sockets
            /\ arrived[1] \in Seq(Frames)
        BY CanAssumption DEF OneReads, CanInv, Buffer!TypeInv, Buffer!TypeOK, FrameTypes, Sockets
      <4>2. Len(got) \in Nat /\ Len(pushed) \in Nat /\ Len(arrived[1]) \in Nat
        BY <4>1, LenProperties
      <4>3. Len(got) + 1 \in 1..Len(pushed)
        BY <3>2, <4>2
      <4>4. taken[1] \in Nat /\ taken[1] <= Len(arrived[1])
        BY <4>1 DEF CanInv, FrameTypes, Once
      <4>5. /\ Len(pushed) = IF lpc[1] = "push" THEN taken[1] - 1 ELSE taken[1]
            /\ \A i \in 1..Len(pushed) : pushed[i] = arrived[1][i]
        BY <3>3 DEF CanInv, InLine
      <4> HIDE DEF got
      <4> QED BY <4>2, <4>3, <4>4, <4>5
    <3>4. opened <= 1 => Line!Deliver
      <4>1. Len(got) \in Nat /\ Len(pushed) \in Nat /\ Len(arrived[1]) \in Nat
        BY CanAssumption, LenProperties
          DEF OneReads, CanInv, Buffer!TypeInv, Buffer!TypeOK, FrameTypes, Sockets
      <4>2. opened <= 1 => Len(got) < Len(arrived[1])
        BY <3>2, <3>3, <4>1
      <4> QED BY <2>1, <3>2, <3>3, <4>2 DEF Line!Deliver
    <3> QED BY <2>1, <3>4 DEF Line!Next
  <2>3. CASE ~RecvBuffer!Copy(TheReader)
    <3>1. received' = received
      BY <1>3, <2>3 DEF Reader, IsAvailable, ReadFrame, SpuriousWakeup, RecvBuffer!Consumer,
        RecvBuffer!Front, RecvBuffer!PopFront, RecvBuffer!SpuriousWakeup, bufferVars
    <3> QED BY <2>1, <3>1 DEF Line!vars
  <2> QED BY <2>2, <2>3
<1>4. CASE OpenSocket \/ BindSocket \/ UNCHANGED vars
  BY <1>4 DEF OpenSocket, BindSocket, vars, bufferVars, kernelVars, Line!vars
<1>5. ASSUME NEW l \in Listeners, Listener(l) \/ ListenerFails(l)
      PROVE  UNCHANGED Line!vars
  BY <1>5 DEF Listener, ListenerCallsRead, ListenerReads, ListenerPushes, ListenerNotifies,
    ListenerFails, RecvBuffer!PushBack, RecvBuffer!NotifyOne, bufferVars, kernelVars, Line!vars
<1> QED BY <1>1, <1>2, <1>3, <1>4, <1>5 DEF Next, Owner, OneReads

(* While the first socket is the only one, the way from its receive queue  *)
(* to the one reader is a FIFO channel.                                    *)
THEOREM LineImplements == OneReads => (Spec => LineSpec)
<1> SUFFICES ASSUME OneReads PROVE Spec => LineSpec
  OBVIOUS
<1>1. Init => CanInv /\ ReaderInv
  BY InitCan, InitReader
<1>2. CanInv /\ ReaderInv /\ [Next]_vars => CanInv' /\ ReaderInv'
  BY NextCan, NextReader
<1>3. Init => Line!Init
  <2>1. 1 \in Sockets
    BY CanAssumption DEF Sockets
  <2> QED BY <2>1 DEF Init, RecvBuffer!Init, Line!Init, OneReads
<1>4. CanInv /\ ReaderInv /\ CanInv' /\ [Next]_vars => [opened' <= 1 => Line!Next]_(Line!vars)
  BY StepOfLine
<1> QED BY <1>1, <1>2, <1>3, <1>4, PTL DEF Spec, LineSpec
=============================================================================
