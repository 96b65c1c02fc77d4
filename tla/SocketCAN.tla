------------------------------ MODULE SocketCAN ------------------------------
(***************************************************************************)
(* drivers/CAN/CPP: the class SocketCAN on top of the kernel's CAN_RAW     *)
(* sockets and of SharedQueue.  One thread (the owner) constructs the      *)
(* object, writes frames and calls Reconnect(); InitSocket() starts a      *)
(* detached listener thread for every socket it binds; reader threads call *)
(* ReadFrame(), the polling ones only after IsAvailable() said so.         *)
(*                                                                         *)
(* The kernel is external: a frame on the bus is queued at every bound     *)
(* socket that has room, a frame written through one socket is looped back *)
(* to the others.  Socket k is the descriptor of the k-th socket() call;   *)
(* no descriptor is ever closed.                                           *)
(***************************************************************************)
EXTENDS Integers, Sequences, FiniteSets, SequencesExt

CONSTANTS
  Readers,                  \* the threads that call ReadFrame()
  MaxSockets,               \* bound: socket() calls
  MaxBusFrames,             \* bound: frames other nodes put on the bus
  MaxWrites,                \* bound: WriteFrame() calls
  RxCapacity,               \* frames the kernel queues per socket
  Garbage                   \* see SharedQueue

ASSUME CanAssumption ==
  /\ MaxSockets \in Nat \ {0} /\ MaxBusFrames \in Nat /\ MaxWrites \in Nat
  /\ RxCapacity \in Nat \ {0}
  /\ IsFiniteSet(Readers) /\ Readers \cap (1..MaxSockets) = {}
  /\ Garbage \notin {"bus", "own"} \X Nat

VARIABLES
  queue_, cond_, pc, ref, pushed, received,     \* RecvBuffer
  opc,                      \* the owner: "construct", "bind" or "idle"
  sockfd, isConnected,      \* members of the object; sockfd 0 is no socket
  opened, bound,            \* sockets opened so far, and those bound
  arrived, taken,           \* per socket: frames queued so far, and read
  spawned,                  \* listener threads started so far
  lpc, lfd, lframe,         \* per listener: where, reading what, what it read
  poll,                     \* per reader: "off" if it never calls
                            \* IsAvailable(), else "ask", or "told" to read
  alive,                    \* the process has not terminated
  onBus, writes             \* frames from other nodes, WriteFrame() calls

bufferVars == <<queue_, cond_, pc, ref, pushed, received>>
ownerVars == <<opc, sockfd, opened, writes>>
kernelVars == <<bound, arrived, taken, onBus>>
listenerVars == <<spawned, lpc, lfd, lframe>>
vars == <<bufferVars, ownerVars, kernelVars, listenerVars, isConnected,
          poll, alive>>

Sockets == 1..MaxSockets
Listeners == 1..MaxSockets  \* one at most per socket

BusFrames == {"bus"} \X (1..MaxBusFrames)
OwnFrames == {"own"} \X (1..MaxWrites)
Frames == BusFrames \cup OwnFrames

RecvBuffer == INSTANCE SharedQueue WITH
  Producers <- Listeners, Consumers <- Readers, Items <- Frames,
  MaxPushed <- MaxSockets * (MaxBusFrames + MaxWrites)

Init ==
  /\ RecvBuffer!Init
  /\ opc = "construct"
  /\ sockfd = 0 /\ isConnected = TRUE
  /\ opened = 0 /\ bound = {}
  /\ arrived = [k \in Sockets |-> <<>>]
  /\ taken = [k \in Sockets |-> 0]
  /\ spawned = 0
  /\ lpc = [l \in Listeners |-> "none"]
  /\ lfd = [l \in Listeners |-> 0]
  /\ lframe = [l \in Listeners |-> Garbage]
  /\ poll \in [Readers -> {"off", "ask"}]
  /\ alive = TRUE
  /\ onBus = 0 /\ writes = 0

-----------------------------------------------------------------------------
(* The kernel.  rx(k) is the receive queue of socket k.                    *)
rx(k) == SubSeq(arrived[k], taken[k] + 1, Len(arrived[k]))

QueueAt(ks, frame) ==
  arrived' = [k \in Sockets |-> IF k \in ks /\ Len(rx(k)) < RxCapacity
                                THEN Append(arrived[k], frame) ELSE arrived[k]]

BusFrame ==
  /\ alive
  /\ onBus < MaxBusFrames
  /\ onBus' = onBus + 1
  /\ QueueAt(bound, <<"bus", onBus + 1>>)
  /\ UNCHANGED <<bufferVars, ownerVars, listenerVars, bound, taken, isConnected,
                 poll, alive>>

-----------------------------------------------------------------------------
(* Faulty variants of the operations, Bug<n>_..., stand before the          *)
(* operation they replace: the properties below tell them apart.           *)

(* exceptions that do not reset IsConnected                                *)
Bug1_Throw ==
  /\ UNCHANGED isConnected
  /\ opc' = "idle"
  /\ alive' = (spawned > 0)

(* The owner.  An exception that leaves the constructor ends the program;  *)
(* one that leaves Reconnect() or WriteFrame() is caught.                  *)
Throw ==
  /\ isConnected' = FALSE
  /\ opc' = "idle"
  /\ alive' = (spawned > 0)

(* InitSocket(), called by the constructor or by Reconnect(): socket() ... *)
OpenSocket ==
  /\ alive
  /\ opc \in {"construct", "idle"}
  /\ opened < MaxSockets
  /\ \/ /\ sockfd' = opened + 1
        /\ opened' = opened + 1
        /\ opc' = "bind"
        /\ UNCHANGED <<isConnected, alive>>
     \/ /\ sockfd' = 0
        /\ Throw
        /\ UNCHANGED opened
  /\ UNCHANGED <<bufferVars, kernelVars, listenerVars, poll, writes>>

(* an InitSocket() that starts the listener thread only once               *)
Bug1_BindSocket ==
  /\ alive
  /\ opc = "bind"
  /\ bound' = bound \cup {sockfd} /\ isConnected' = TRUE
  /\ spawned' = 1
  /\ lpc' = IF spawned = 0 THEN [lpc EXCEPT ![1] = "loop"] ELSE lpc
  /\ opc' = "idle"
  /\ UNCHANGED <<bufferVars, sockfd, opened, writes, arrived, taken, onBus,
                 lfd, lframe, poll, alive>>

(* ... then if_nametoindex() and bind(), and a new listener thread.        *)
BindSocket ==
  /\ alive
  /\ opc = "bind"
  /\ \/ /\ bound' = bound \cup {sockfd}
        /\ isConnected' = TRUE
        /\ spawned' = spawned + 1
        /\ lpc' = [lpc EXCEPT ![spawned + 1] = "loop"]
        /\ opc' = "idle"
        /\ UNCHANGED alive
     \/ Throw /\ UNCHANGED <<bound, spawned, lpc>>
  /\ UNCHANGED <<bufferVars, sockfd, opened, writes, arrived, taken, onBus,
                 lfd, lframe, poll>>

(* WriteFrame(): write() on a bound socket sends the frame, fails, or is   *)
(* short; on any other descriptor it fails.                                *)
WriteFrame ==
  /\ alive
  /\ opc = "idle"
  /\ writes < MaxWrites
  /\ writes' = writes + 1
  /\ \/ /\ sockfd \in bound
        /\ QueueAt(bound \ {sockfd}, <<"own", writes + 1>>)
        /\ UNCHANGED isConnected
     \/ /\ isConnected' = FALSE
        /\ UNCHANGED arrived
     \/ /\ sockfd \in bound
        /\ UNCHANGED <<isConnected, arrived>>
  /\ UNCHANGED <<bufferVars, listenerVars, opc, sockfd, opened, bound, taken,
                 onBus, poll, alive>>

-----------------------------------------------------------------------------
(* FramesListener(), each pass of the loop: read() is called on the        *)
(* descriptor sockfd holds at that time ...                                *)
ListenerCallsRead(l) ==
  /\ alive
  /\ lpc[l] = "loop" /\ pc[l] = "idle"
  /\ lpc' = [lpc EXCEPT ![l] = "read"]
  /\ lfd' = [lfd EXCEPT ![l] = sockfd]
  /\ UNCHANGED <<bufferVars, ownerVars, kernelVars, spawned, lframe,
                 isConnected, poll, alive>>

(* a read that leaves the frame in the socket                              *)
Bug1_ListenerReads(l) ==
  /\ alive
  /\ lpc[l] = "read"
  /\ lfd[l] # 0 /\ rx(lfd[l]) # <<>>
  /\ lframe' = [lframe EXCEPT ![l] = Head(rx(lfd[l]))]
  /\ lpc' = [lpc EXCEPT ![l] = "push"]
  /\ UNCHANGED <<bufferVars, ownerVars, kernelVars, spawned, lfd, isConnected,
                 poll, alive>>

(* ... returns the oldest frame queued there, or blocks while there is     *)
(* none ...                                                                *)
ListenerReads(l) ==
  /\ alive
  /\ lpc[l] = "read"
  /\ lfd[l] # 0 /\ rx(lfd[l]) # <<>>
  /\ lframe' = [lframe EXCEPT ![l] = Head(rx(lfd[l]))]
  /\ taken' = [taken EXCEPT ![lfd[l]] = @ + 1]
  /\ lpc' = [lpc EXCEPT ![l] = "push"]
  /\ UNCHANGED <<bufferVars, ownerVars, bound, arrived, onBus, spawned, lfd,
                 isConnected, poll, alive>>

(* ... or fails: at once without a socket, and when the interface goes     *)
(* down.  Nobody catches the exception, thrown for an error or for a short *)
(* read, so it terminates the process.                                     *)
ListenerFails(l) ==
  /\ alive
  /\ lpc[l] = "read"
  /\ lfd[l] \in bound \cup {0}
  /\ isConnected' \in IF lfd[l] = 0 THEN {FALSE} ELSE {FALSE, isConnected}
  /\ alive' = FALSE
  /\ UNCHANGED <<bufferVars, ownerVars, kernelVars, listenerVars, poll>>

(* a listener that drops a frame while nobody waits for it                 *)
Bug1_ListenerPushes(l) ==
  /\ alive
  /\ lpc[l] = "push"
  /\ \/ cond_ # {} /\ RecvBuffer!PushBack(l, lframe[l])
     \/ cond_ = {} /\ UNCHANGED bufferVars
  /\ lpc' = [lpc EXCEPT ![l] = "loop"]
  /\ lframe' = [lframe EXCEPT ![l] = Garbage]
  /\ UNCHANGED <<ownerVars, kernelVars, spawned, lfd, isConnected, poll,
                 alive>>

(* The frame is pushed, and after the unlock a reader is notified.         *)
ListenerPushes(l) ==
  /\ alive
  /\ lpc[l] = "push"
  /\ RecvBuffer!PushBack(l, lframe[l])
  /\ lpc' = [lpc EXCEPT ![l] = "loop"]
  /\ lframe' = [lframe EXCEPT ![l] = Garbage]
  /\ UNCHANGED <<ownerVars, kernelVars, spawned, lfd, isConnected, poll,
                 alive>>

ListenerNotifies(l) ==
  /\ alive
  /\ RecvBuffer!NotifyOne(l)
  /\ UNCHANGED <<ownerVars, kernelVars, listenerVars, isConnected, poll,
                 alive>>

-----------------------------------------------------------------------------
(* a test for available frames that an empty buffer passes                 *)
Bug1_IsAvailable(r) ==
  /\ alive
  /\ poll[r] = "ask"
  /\ spawned > 0 /\ pc[r] = "idle"
  /\ Len(queue_) >= 0
  /\ poll' = [poll EXCEPT ![r] = "told"]
  /\ UNCHANGED <<bufferVars, ownerVars, kernelVars, listenerVars, isConnected,
                 alive>>

(* The readers; nobody has the object before it is constructed.            *)
IsAvailable(r) ==
  /\ alive
  /\ poll[r] = "ask"
  /\ spawned > 0 /\ pc[r] = "idle"
  /\ Len(queue_) > 0
  /\ poll' = [poll EXCEPT ![r] = "told"]
  /\ UNCHANGED <<bufferVars, ownerVars, kernelVars, listenerVars, isConnected,
                 alive>>

(* ReadFrame(): front(), the copy through its reference, pop_front().      *)
ReadFrame(r) ==
  /\ alive
  /\ spawned > 0
  /\ pc[r] = "idle" => poll[r] # "ask"
  /\ RecvBuffer!Consumer(r)
  /\ poll' = [poll EXCEPT ![r] = IF @ = "told" THEN "ask" ELSE @]
  /\ UNCHANGED <<ownerVars, kernelVars, listenerVars, isConnected, alive>>

SpuriousWakeup(r) ==
  /\ alive
  /\ RecvBuffer!SpuriousWakeup(r)
  /\ UNCHANGED <<ownerVars, kernelVars, listenerVars, isConnected, poll,
                 alive>>

-----------------------------------------------------------------------------
Owner == OpenSocket \/ BindSocket \/ WriteFrame

(* A listener's steps but the failure.                                     *)
Listener(l) ==
  ListenerCallsRead(l) \/ ListenerReads(l) \/ ListenerPushes(l)
    \/ ListenerNotifies(l)

Reader(r) == IsAvailable(r) \/ ReadFrame(r)

Next ==
  \/ Owner \/ BusFrame
  \/ \E l \in Listeners : Listener(l) \/ ListenerFails(l)
  \/ \E r \in Readers : Reader(r) \/ SpuriousWakeup(r)

Spec == Init /\ [][Next]_vars

(* The threads of a live process are scheduled; the owner finishes the     *)
(* call it is in, but nothing obliges it to call, nor the bus to be busy.  *)
FairSpec ==
  /\ Spec
  /\ WF_vars(BindSocket)
  /\ \A l \in Listeners : WF_vars(Listener(l))
  /\ \A r \in Readers : WF_vars(Reader(r))

-----------------------------------------------------------------------------
(* While the owner is in no call, IsConnected means that the object holds  *)
(* a bound socket and that a listener serves it: one that reads it, or     *)
(* will read it when it has pushed the frame it has.                       *)
ConnectedMeansServed ==
  alive /\ isConnected /\ opc = "idle" =>
    /\ sockfd \in bound
    /\ \E l \in Listeners : lpc[l] \in {"loop", "push"} \/
                            (lpc[l] = "read" /\ lfd[l] = sockfd)

(* A single reader that polls IsAvailable(), as in CAN/CPP/test.cpp, never *)
(* sleeps inside ReadFrame().                                              *)
PollNeverBlocks == \A r \in cond_ : poll[r] = "off"

(* No reader gets more copies of a frame than there were sockets queueing  *)
(* it, and no frame that no socket queued.                                 *)
TimesReceived(r, f) == Cardinality({i \in DOMAIN received[r] : received[r][i] = f})

CopiesBounded ==
  \A r \in Readers, f \in Frames \cup {Garbage} :
    TimesReceived(r, f) <= Cardinality({k \in Sockets : Contains(arrived[k], f)})

(* As long as the first socket is the only one, from its receive queue to  *)
(* the only reader the driver is a FIFO channel: no frame is lost,         *)
(* duplicated or reordered by the listener, the buffer or ReadFrame().     *)
TheReader == CHOOSE r \in Readers : TRUE

Line == INSTANCE FrameChannel WITH
          Items <- Frames, sent <- arrived[1], delivered <- received[TheReader]

LineSpec == Line!Init /\ [][opened' <= 1 => Line!Next]_(Line!vars)

(* A frame queued at the socket in use gets to the reader, unless the      *)
(* process terminates or Reconnect() replaces the socket first.            *)
FrameReachesReader ==
  \A k \in Sockets, f \in Frames :
    sockfd = k /\ Contains(rx(k), f)
      ~> \/ \E r \in Readers : Contains(received[r], f)
         \/ ~alive \/ sockfd # k
=============================================================================
