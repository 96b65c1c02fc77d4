--------------------------- MODULE TcpServerAsync ---------------------------
(***************************************************************************)
(* drivers/TcpServerAsync: a TCP server whose worker thread, started by    *)
(* Start() and never stopped, serves all clients with select() and         *)
(* blocking calls.  The owner constructs the object, which calls Start(),  *)
(* and may call Stop() while the worker runs; the application learns of    *)
(* clients through the virtual methods and may call Client::Disconnect(),  *)
(* from ClientConnected() or from another thread.  A call that sleeps in   *)
(* the kernel is an action that is not enabled.  Start() after Stop(),     *)
(* which adds a second worker to the same members, is not modelled.        *)
(*                                                                         *)
(* The kernel and the peers are external: file says what each descriptor   *)
(* is, a peer connects once, sends bytes, and closes or resets.  Nothing   *)
(* is locked: each line of the worker that reads a member the owner or the *)
(* application may change is an action.  Descriptor 0, which stands for no *)
(* socket in the members, is the standard input to the kernel.             *)
(***************************************************************************)
EXTENDS Integers, Sequences, FiniteSets, FiniteSetsExt

CONSTANTS
  Peers,                    \* the remote clients
  MaxClients,               \* slots in ClientsArray
  MaxBytes,                 \* bound: bytes a peer sends
  BufferSize,               \* RECV_BUFFER_SIZE
  Backlog,                  \* connections the kernel queues
  Uses,                     \* how the server may be used: whether the owner
                            \* calls Stop(), whether signals interrupt
                            \* select(), where from Disconnect() is called
  None                      \* no peer

ASSUME ServerAssumption ==
  /\ MaxClients \in Nat /\ MaxBytes \in Nat
  /\ BufferSize \in Nat \ {0} /\ Backlog \in Nat
  /\ Uses \subseteq [stop : BOOLEAN, interrupts : BOOLEAN,
                      disconnect : SUBSET {"callback", "thread"}]
  /\ IsFiniteSet(Peers) /\ Peers \cap {None, "free", "listening", "shut"} = {}

VARIABLES
  use,                      \* the use made of the server
  Status, ServerSocket,     \* members; ServerSocket 0 is none
  ClientsArray,             \* the slots: Fd, and whose address they hold
  readfds, max_sd,          \* members the worker uses
  Readbytes,
  owner,                    \* where the owner is
  worker, slot,             \* where the worker is, and at which slot
  reading,                  \* what the descriptor given to read() was open on
  disconnecting, closing,   \* the slot another thread disconnects, or 0, and
                            \* the descriptor it is about to close, or 0
  file,                     \* per descriptor: what it is open on
  queue,                    \* peers waiting for accept()
  peer, sent, taken, ended, \* per peer: its connection, bytes, and end
  told, given,              \* per peer: what the application was told
  garbled,                  \* history: the peers in whose name the application
                            \* was given a length that read() did not return
  alive                     \* the process has not terminated

serverVars == <<use, Status, ServerSocket, owner>>
workerVars == <<readfds, max_sd, Readbytes, worker, slot, reading>>
peerVars == <<peer, sent, taken, ended>>
disconnectVars == <<disconnecting, closing>>
appVars == <<told, given, garbled, disconnectVars>>
vars == <<serverVars, workerVars, ClientsArray, file, queue, peerVars, appVars,
          alive>>

Slots == 1..MaxClients
Fds == 1..(1 + Cardinality(Peers))

Init ==
  /\ use \in Uses
  /\ Status = "STOPPED" /\ ServerSocket = 0
  /\ ClientsArray = [i \in Slots |-> [Fd |-> 0, who |-> None]]
  /\ readfds = {} /\ max_sd = 0 /\ Readbytes = 0
  /\ owner = "construct"
  /\ worker = "none" /\ slot = 0 /\ reading = "free"
  /\ disconnecting = 0 /\ closing = 0
  /\ file = [fd \in Fds |-> "free"]
  /\ queue = <<>>
  /\ peer = [p \in Peers |-> "new"] /\ ended = [p \in Peers |-> "no"]
  /\ sent = [p \in Peers |-> 0] /\ taken = [p \in Peers |-> 0]
  /\ told = [p \in Peers |-> "nothing"] /\ given = [p \in Peers |-> 0]
  /\ garbled = {}
  /\ alive = TRUE

-----------------------------------------------------------------------------
(* The kernel: descriptors, and what select() finds ready to read.         *)
NewFd == Min({fd \in Fds : file[fd] = "free"})

Closed(fd) == [k \in Fds |-> IF k = fd THEN "free" ELSE file[k]]

HasNews(p) == taken[p] < sent[p] \/ ended[p] # "no"

Readable(fd) ==
  \/ file[fd] = "listening" /\ queue # <<>>
  \/ file[fd] = "shut"
  \/ file[fd] \in Peers /\ HasNews(file[fd])

-----------------------------------------------------------------------------
(* The peers.                                                              *)
Connect(p) ==
  /\ peer[p] = "new"
  /\ \E fd \in Fds : file[fd] = "listening"
  /\ Len(queue) <= Backlog
  /\ peer' = [peer EXCEPT ![p] = "queued"]
  /\ queue' = Append(queue, p)
  /\ UNCHANGED <<serverVars, workerVars, ClientsArray, file, sent, taken, ended,
                 appVars, alive>>

Send(p) ==
  /\ peer[p] \in {"queued", "accepted"} /\ ended[p] = "no"
  /\ sent[p] < MaxBytes
  /\ sent' = [sent EXCEPT ![p] = @ + 1]
  /\ UNCHANGED <<serverVars, workerVars, ClientsArray, file, queue, peer, taken,
                 ended, appVars, alive>>

End(p) ==
  /\ peer[p] \in {"queued", "accepted"} /\ ended[p] = "no"
  /\ \E how \in {"closed", "reset"} : ended' = [ended EXCEPT ![p] = how]
  /\ UNCHANGED <<serverVars, workerVars, ClientsArray, file, queue, peer, sent,
                 taken, appVars, alive>>

-----------------------------------------------------------------------------
(* The owner.  The constructor calls Start(): the socket listens and the   *)
(* worker runs, or an exception ends the construction and the program.     *)
Start ==
  /\ alive
  /\ owner = "construct" /\ Status = "STOPPED"
  /\ owner' = "idle"
  /\ \/ /\ ServerSocket' = NewFd
        /\ file' = [file EXCEPT ![NewFd] = "listening"]
        /\ Status' = "STARTED"
        /\ worker' = "build"
        /\ UNCHANGED alive
     \/ /\ alive' = FALSE
        /\ UNCHANGED <<ServerSocket, file, Status, worker>>
  /\ UNCHANGED <<use, readfds, max_sd, Readbytes, slot, reading, ClientsArray,
                 queue, peerVars, appVars>>

(* Stop(): shutdown(), which also ends the connections that wait ...       *)
Stop ==
  /\ alive /\ use.stop
  /\ owner = "idle" /\ Status = "STARTED"
  /\ owner' = "close"
  /\ file' = [file EXCEPT ![ServerSocket] = "shut"]
  /\ peer' = [p \in Peers |-> IF peer[p] = "queued" THEN "lost" ELSE peer[p]]
  /\ queue' = <<>>
  /\ UNCHANGED <<use, Status, ServerSocket, workerVars, ClientsArray, sent,
                 taken, ended, appVars, alive>>

(* ... close() ...                                                         *)
StopCloses ==
  /\ alive
  /\ owner = "close"
  /\ owner' = "forget"
  /\ file' = Closed(ServerSocket)
  /\ UNCHANGED <<use, Status, ServerSocket, workerVars, ClientsArray, queue,
                 peerVars, appVars, alive>>

(* ... and only then the members.  The worker is not told.                 *)
StopForgets ==
  /\ alive
  /\ owner = "forget"
  /\ ServerSocket' = 0
  /\ owner' = "stopped"
  /\ UNCHANGED <<use, Status, workerVars, ClientsArray, file, queue, peerVars,
                 appVars, alive>>

StopReturns ==
  /\ alive
  /\ owner = "stopped"
  /\ Status' = "STOPPED"
  /\ owner' = "idle"
  /\ UNCHANGED <<use, ServerSocket, workerVars, ClientsArray, file, queue,
                 peerVars, appVars, alive>>

-----------------------------------------------------------------------------
(* The worker: BackgroundWork().                                           *)
Goes(from, to) == alive /\ worker = from /\ worker' = to

Client == ClientsArray[slot]

(* Building the set of descriptors to wait for, and the largest of them:   *)
(* the socket of the server, which Stop() may close or set to 0 between    *)
(* any two of these lines ...                                              *)
TestServer ==
  /\ \/ Goes("build", "add server") /\ ServerSocket > 0
     \/ Goes("build", "test slot") /\ ServerSocket <= 0
  /\ readfds' = {} /\ max_sd' = 0
  /\ slot' = 1
  /\ UNCHANGED <<serverVars, Readbytes, reading, ClientsArray, file, queue,
                 peerVars, appVars, alive>>

AddServer ==
  /\ Goes("add server", "max server")
  /\ readfds' = {ServerSocket}
  /\ UNCHANGED <<serverVars, max_sd, Readbytes, slot, reading, ClientsArray, file,
                 queue, peerVars, appVars, alive>>

MaxServer ==
  /\ Goes("max server", "test slot")
  /\ max_sd' = ServerSocket
  /\ UNCHANGED <<serverVars, readfds, Readbytes, slot, reading, ClientsArray, file,
                 queue, peerVars, appVars, alive>>

(* ... and each slot, which Disconnect() may empty.  FD_SET(-1) is         *)
(* undefined: it sets a bit that FD_ISSET(-1) finds, or none.              *)
TestSlot ==
  /\ \/ Goes("test slot", "add slot") /\ slot \in Slots /\ Client.Fd > 0
     \/ Goes("test slot", "compare") /\ slot \in Slots /\ Client.Fd <= 0
     \/ Goes("test slot", "select") /\ slot \notin Slots
  /\ UNCHANGED <<serverVars, readfds, max_sd, Readbytes, slot, reading,
                 ClientsArray, file, queue, peerVars, appVars, alive>>

AddSlot ==
  /\ Goes("add slot", "compare")
  /\ \/ readfds' = readfds \cup {Client.Fd}
     \/ Client.Fd = -1 /\ UNCHANGED readfds
  /\ UNCHANGED <<serverVars, max_sd, Readbytes, slot, reading, ClientsArray, file,
                 queue, peerVars, appVars, alive>>

CompareSlot ==
  /\ \/ /\ Goes("compare", "max slot") /\ Client.Fd > max_sd
        /\ UNCHANGED slot
     \/ /\ Goes("compare", "test slot") /\ Client.Fd <= max_sd
        /\ slot' = slot + 1
  /\ UNCHANGED <<serverVars, readfds, max_sd, Readbytes, reading, ClientsArray,
                 file, queue, peerVars, appVars, alive>>

MaxSlot ==
  /\ Goes("max slot", "test slot")
  /\ max_sd' = Client.Fd
  /\ slot' = slot + 1
  /\ UNCHANGED <<serverVars, readfds, Readbytes, reading, ClientsArray, file,
                 queue, peerVars, appVars, alive>>

(* select() looks at the descriptors up to max_sd.  It fails if one of     *)
(* them is not open, and the exception terminates the process; otherwise   *)
(* it waits ...                                                            *)
Watched == {fd \in readfds : 0 < fd /\ fd <= max_sd}

Select ==
  /\ \/ /\ \A fd \in Watched : file[fd] # "free"
        /\ Goes("select", "wait")
        /\ UNCHANGED alive
     \/ /\ \E fd \in Watched : file[fd] = "free"
        /\ Goes("select", "none")
        /\ alive' = FALSE
  /\ UNCHANGED <<serverVars, readfds, max_sd, Readbytes, slot, reading,
                 ClientsArray, file, queue, peerVars, appVars>>

(* ... until something is ready, which the standard input may be at any    *)
(* time, and then only what is ready is left in the set ...                *)
Found == {fd \in Watched : Readable(fd)}

Wakes ==
  /\ Goes("wait", "check")
  /\ Found # {}
  /\ \/ readfds' = Found
     \/ 0 \in readfds /\ readfds' = Found \cup {0}
  /\ UNCHANGED <<serverVars, max_sd, Readbytes, slot, reading, ClientsArray, file,
                 queue, peerVars, appVars, alive>>

StdinWakes ==
  /\ Goes("wait", "check")
  /\ 0 \in readfds /\ max_sd >= 0
  /\ readfds' = Found \cup {0}
  /\ UNCHANGED <<serverVars, max_sd, Readbytes, slot, reading, ClientsArray, file,
                 queue, peerVars, appVars, alive>>

(* ... or a signal arrives, and the set is left as it was.                 *)
Interrupted ==
  /\ use.interrupts
  /\ Goes("wait", "check")
  /\ UNCHANGED <<serverVars, readfds, max_sd, Readbytes, slot, reading,
                 ClientsArray, file, queue, peerVars, appVars, alive>>

(* Faulty variants of the operations, Bug<n>_..., stand before the          *)
(* operation they replace: the properties below tell them apart.           *)

(* a search for a free slot that leaves out the last one                   *)
Bug1_FreeSlots == {i \in 1..(MaxClients - 1) : ClientsArray[i].Fd <= 0}

(* A connection waits: look for a free slot.                               *)
FreeSlots == {i \in Slots : ClientsArray[i].Fd <= 0}

Check ==
  /\ \/ /\ ServerSocket \notin readfds
        /\ Goes("check", "scan")
        /\ slot' = 1
     \/ /\ ServerSocket \in readfds /\ FreeSlots # {}
        /\ Goes("check", "accept")
        /\ slot' = Min(FreeSlots)
     \/ /\ ServerSocket \in readfds /\ FreeSlots = {}
        /\ Goes("check", "refuse")
        /\ UNCHANGED slot
  /\ UNCHANGED <<serverVars, readfds, max_sd, Readbytes, reading, ClientsArray,
                 file, queue, peerVars, appVars, alive>>

(* accept() takes the first peer, sleeps while there is none, and fails on *)
(* anything that does not listen.                                          *)
Listening == ServerSocket \in Fds /\ file[ServerSocket] = "listening"

Accept ==
  /\ \/ /\ Listening /\ queue # <<>>
        /\ Goes("accept", "connected")
        /\ ClientsArray' = [ClientsArray EXCEPT ![slot] =
                              [Fd |-> NewFd, who |-> Head(queue)]]
        /\ file' = [file EXCEPT ![NewFd] = Head(queue)]
        /\ peer' = [peer EXCEPT ![Head(queue)] = "accepted"]
        /\ queue' = Tail(queue)
        /\ UNCHANGED alive
     \/ /\ ~Listening
        /\ Goes("accept", "none")
        /\ ClientsArray' = [ClientsArray EXCEPT ![slot].Fd = -1]
        /\ alive' = FALSE
        /\ UNCHANGED <<file, peer, queue>>
  /\ UNCHANGED <<serverVars, readfds, max_sd, Readbytes, reading, slot, sent,
                 taken, ended, appVars>>

(* a refusal that leaves the connection in the queue                       *)
Bug1_Refuse ==
  /\ Goes("refuse", "scan")
  /\ slot' = 1
  /\ UNCHANGED <<serverVars, readfds, max_sd, Readbytes, reading, ClientsArray,
                 file, queue, peerVars, appVars, alive>>

(* With all slots taken the peer gets a message and is closed; a message   *)
(* that cannot be sent, because the peer is gone, ends the process.        *)
Refuse ==
  /\ \/ /\ Listening /\ queue # <<>>
        /\ Goes("refuse", "scan")
        /\ peer' = [peer EXCEPT ![Head(queue)] = "refused"]
        /\ queue' = Tail(queue)
        /\ alive' \in IF ended[Head(queue)] = "no" THEN {TRUE} ELSE BOOLEAN
     \/ /\ ~Listening
        /\ Goes("refuse", "scan")
        /\ UNCHANGED <<peer, queue, alive>>
  /\ slot' = 1
  /\ UNCHANGED <<serverVars, readfds, max_sd, Readbytes, reading, ClientsArray,
                 file, sent, taken, ended, appVars>>

(* ClientConnected(), which may disconnect the client at once.             *)
ClientConnected ==
  /\ Goes("connected", "scan")
  /\ slot' = 1
  /\ \/ /\ told' = [told EXCEPT ![Client.who] = "connected"]
        /\ UNCHANGED <<ClientsArray, file>>
     \/ /\ "callback" \in use.disconnect
        /\ told' = [told EXCEPT ![Client.who] = "disconnected by us"]
        /\ file' = Closed(Client.Fd)
        /\ ClientsArray' = [ClientsArray EXCEPT ![slot].Fd = -1]
  /\ UNCHANGED <<serverVars, readfds, max_sd, Readbytes, reading, queue, peerVars,
                 given, garbled, disconnectVars, alive>>

(* a scan that reads from every client, ready or not                       *)
Bug1_Scan ==
  /\ \/ /\ Goes("scan", "read")
        /\ slot \in Slots /\ Client.Fd > 0
        /\ UNCHANGED slot
     \/ /\ Goes("scan", "scan")
        /\ slot \in Slots /\ Client.Fd <= 0
        /\ slot' = slot + 1
     \/ /\ Goes("scan", "build")
        /\ slot \notin Slots
        /\ slot' = 0
  /\ UNCHANGED <<serverVars, readfds, max_sd, Readbytes, reading, ClientsArray,
                 file, queue, peerVars, appVars, alive>>

(* The scan of the slots: FD_ISSET() for each in turn ...                  *)
Scan ==
  /\ \/ /\ Goes("scan", "read")
        /\ slot \in Slots /\ Client.Fd \in readfds
        /\ UNCHANGED slot
     \/ /\ Goes("scan", "scan")
        /\ slot \in Slots /\ Client.Fd \notin readfds
        /\ slot' = slot + 1
     \/ /\ Goes("scan", "build")
        /\ slot \notin Slots
        /\ slot' = 0
  /\ UNCHANGED <<serverVars, readfds, max_sd, Readbytes, reading, ClientsArray,
                 file, queue, peerVars, appVars, alive>>

(* ... read() on what the descriptor, read anew, is open on, which it then  *)
(* keeps although another thread may close the descriptor.  (It is not 0:  *)
(* while the standard input is in the set, a free slot ends in accept(0).) *)
CallsRead ==
  /\ Goes("read", "reading")
  /\ reading' = IF Client.Fd \in Fds THEN file[Client.Fd] ELSE "free"
  /\ UNCHANGED <<serverVars, readfds, max_sd, Readbytes, slot, ClientsArray, file,
                 queue, peerVars, appVars, alive>>

(* read() sleeps while there is nothing to read, and fails once for a      *)
(* connection that was reset, always for what is not a connection ...      *)
ReadReturns ==
  /\ worker = "reading"
  /\ \/ /\ reading \in Peers /\ HasNews(reading)
        /\ LET p == reading
               bytes == Min({sent[p] - taken[p], BufferSize})
           IN \/ /\ bytes > 0
                 /\ Goes("reading", "received")
                 /\ Readbytes' = bytes
                 /\ taken' = [taken EXCEPT ![p] = @ + bytes]
                 /\ UNCHANGED ended
              \/ /\ bytes = 0 /\ ended[p] = "reset"
                 /\ Goes("reading", "received")
                 /\ Readbytes' = -1
                 /\ ended' = [ended EXCEPT ![p] = "failed"]
                 /\ UNCHANGED taken
              \/ /\ bytes = 0 /\ ended[p] \in {"closed", "failed"}
                 /\ Goes("reading", "close")
                 /\ Readbytes' = 0
                 /\ UNCHANGED <<taken, ended>>
     \/ /\ reading \notin Peers
        /\ Goes("reading", "received")
        /\ Readbytes' = -1
        /\ UNCHANGED <<taken, ended>>
  /\ reading' = "free"
  /\ UNCHANGED <<serverVars, readfds, max_sd, slot, ClientsArray, file, queue, peer,
                 sent, appVars, alive>>

(* a DataReceived() that is given a byte less                              *)
Bug1_DataReceived ==
  /\ Goes("received", "scan")
  /\ slot' = slot + 1
  /\ given' = [given EXCEPT ![Client.who] = @ + Max({Readbytes - 1, 0})]
  /\ UNCHANGED <<serverVars, readfds, max_sd, Readbytes, reading, ClientsArray,
                 file, queue, peerVars, told, garbled, disconnectVars, alive>>

(* ... the terminating zero and DataReceived().  After a failure the zero  *)
(* is written before the buffer, into the member Readbytes: its int is     *)
(* still -1 where ssize_t is wider, and 0x00FFFFFF where it is not.  After  *)
(* it the buffer is followed by a thread's number, which is zero already.  *)
DataReceived ==
  /\ Goes("received", "scan")
  /\ slot' = slot + 1
  /\ given' = [given EXCEPT ![Client.who] = @ + Max({Readbytes, 0})]
  /\ \/ UNCHANGED garbled
     \/ Readbytes = -1 /\ garbled' = garbled \cup {Client.who}
  /\ UNCHANGED <<serverVars, readfds, max_sd, Readbytes, reading, ClientsArray,
                 file, queue, peerVars, told, disconnectVars, alive>>

(* an end without close()                                                  *)
Bug1_ClientDisconnected ==
  /\ Goes("close", "scan")
  /\ slot' = slot + 1
  /\ ClientsArray' = [ClientsArray EXCEPT ![slot].Fd = 0]
  /\ told' = [told EXCEPT ![Client.who] = "disconnected"]
  /\ UNCHANGED <<serverVars, readfds, max_sd, Readbytes, reading, file, queue,
                 peerVars, given, garbled, disconnectVars, alive>>

(* ... or the end: close() and ClientDisconnected().                       *)
ClientDisconnected ==
  /\ Goes("close", "scan")
  /\ slot' = slot + 1
  /\ file' = Closed(Client.Fd)
  /\ ClientsArray' = [ClientsArray EXCEPT ![slot].Fd = 0]
  /\ told' = [told EXCEPT ![Client.who] = "disconnected"]
  /\ UNCHANGED <<serverVars, readfds, max_sd, Readbytes, reading, queue, peerVars,
                 given, garbled, disconnectVars, alive>>

-----------------------------------------------------------------------------
(* Disconnect() on another thread, for a client the application was told   *)
(* of: it reads the descriptor, closes it, then empties the slot.          *)
Disconnect(i) ==
  /\ alive
  /\ "thread" \in use.disconnect /\ disconnecting = 0
  /\ ClientsArray[i].Fd > 0 /\ told[ClientsArray[i].who] = "connected"
  /\ disconnecting' = i /\ closing' = ClientsArray[i].Fd
  /\ UNCHANGED <<serverVars, workerVars, ClientsArray, file, queue, peerVars, told,
                 given, garbled, alive>>

DisconnectCloses ==
  /\ alive
  /\ closing # 0
  /\ file' = Closed(closing)
  /\ closing' = 0
  /\ UNCHANGED <<serverVars, workerVars, ClientsArray, queue, peerVars, told, given,
                 garbled, disconnecting, alive>>

DisconnectReturns ==
  /\ alive
  /\ disconnecting # 0 /\ closing = 0
  /\ disconnecting' = 0
  /\ told' = [told EXCEPT ![ClientsArray[disconnecting].who] = "disconnected by us"]
  /\ ClientsArray' = [ClientsArray EXCEPT ![disconnecting].Fd = -1]
  /\ UNCHANGED <<serverVars, workerVars, file, queue, peerVars, given, garbled,
                 closing, alive>>

-----------------------------------------------------------------------------
Peer(p) == Connect(p) \/ Send(p) \/ End(p)

Owner == Start \/ Stop \/ StopCloses \/ StopForgets \/ StopReturns

BackgroundWork ==
  \/ TestServer \/ AddServer \/ MaxServer
  \/ TestSlot \/ AddSlot \/ CompareSlot \/ MaxSlot
  \/ Select \/ Wakes \/ Check \/ Accept \/ Refuse \/ ClientConnected
  \/ Scan \/ CallsRead \/ ReadReturns \/ DataReceived \/ ClientDisconnected

Application ==
  \/ \E i \in Slots : Disconnect(i)
  \/ DisconnectCloses \/ DisconnectReturns

Next ==
  \/ Owner \/ Application \/ BackgroundWork \/ Interrupted \/ StdinWakes
  \/ \E p \in Peers : Peer(p)

Spec == Init /\ [][Next]_vars

(* The worker is scheduled; peers, owner and application need do nothing.  *)
FairSpec == Spec /\ WF_vars(BackgroundWork)

-----------------------------------------------------------------------------
(* No connection is leaked and no slot is stale: the descriptors open on   *)
(* peers are exactly those in the slots, each in one slot that holds the   *)
(* address of that peer.                                                   *)
SlotsMatchFiles ==
  /\ \A i \in Slots : ClientsArray[i].Fd > 0 =>
       file[ClientsArray[i].Fd] = ClientsArray[i].who
  /\ \A fd \in Fds : file[fd] \in Peers =>
       Cardinality({i \in Slots : ClientsArray[i].Fd = fd}) = 1

(* The worker sleeps nowhere but in select(), so no peer can hold up the   *)
(* others: what FD_ISSET() announced is still there when accept() or       *)
(* read() is called.                                                       *)
SleepsOnlyInSelect ==
  /\ worker \in {"accept", "refuse"} /\ Listening => queue # <<>>
  /\ worker = "reading" /\ reading \in Peers => HasNews(reading)

(* The application hears the whole story of each peer: it is told of the   *)
(* end after all the bytes sent, and given no byte before the beginning;   *)
(* and a length that no read() returned only for a peer whose connection   *)
(* was reset, or that it disconnects itself.                               *)
Disconnects(p) ==
  \/ told[p] = "disconnected by us"
  \/ disconnecting # 0 /\ ClientsArray[disconnecting].who = p

StoryComplete ==
  \A p \in Peers :
    /\ told[p] = "disconnected" => given[p] = sent[p]
    /\ told[p] = "nothing" => given[p] = 0
    /\ given[p] <= taken[p]
    /\ p \in garbled => ended[p] = "failed" \/ Disconnects(p)

(* A peer is refused only while every slot is in use.                      *)
RefusedOnlyWhenFull ==
  [][\A p \in Peers : peer'[p] = "refused" /\ peer[p] # "refused"
                        => \A i \in Slots : ClientsArray[i].Fd > 0]_vars

(* Everybody is served: a peer in the queue is accepted and announced, or  *)
(* refused, each byte of a connected peer is handed over, and its end      *)
(* announced (a peer sends MaxBytes at most, so what is owed to it does    *)
(* not grow for ever).  Stop() loses the peers in the queue but none of    *)
(* the connected ones, unless the worker trips over the closed socket and  *)
(* the process dies; that signals interrupt select() is left out, because  *)
(* the worker may then sleep.                                              *)
Owed(p) ==
  \/ peer[p] \in {"queued", "accepted"} /\ told[p] = "nothing"
  \/ told[p] = "connected" /\ (given[p] < sent[p] \/ ended[p] # "no")

EverybodyServed ==
  \A p \in Peers : ~use.interrupts /\ Owed(p) ~> ~Owed(p) \/ ~alive

(* "Add server socket socket to set only if it is open" (line 105).        *)
OnlyOpenAdded ==
  [][AddServer => ServerSocket \in Fds /\ file[ServerSocket] # "free"]_vars

(* "set the string terminating NULL byte on the end of the data read"      *)
(* (lines 199-200): it is written inside the buffer.                       *)
TerminatorInBuffer ==
  worker = "received" => Readbytes \in 0..(BufferSize - 1)
=============================================================================
