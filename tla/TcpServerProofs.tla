--------------------------- MODULE TcpServerProofs ---------------------------
(***************************************************************************)
(* What holds of the TCP server for any number of peers, slots and bytes   *)
(* and any size of the buffer, while peers come and go, the owner calls    *)
(* Stop() and ClientConnected() disconnects; but not where another thread  *)
(* calls Disconnect(), which closes a descriptor the worker may be using.  *)
(***************************************************************************)
EXTENDS TcpServerAsync, FiniteSetTheorems, SequenceTheorems, WellFoundedInduction, TLAPS

NoThread == "thread" \notin use.disconnect

-----------------------------------------------------------------------------
(* The inductive invariant.                                                *)
ServerTypes ==
  use \in Uses /\ ServerSocket \in Fds \cup {0} /\ disconnecting \in {0} \cup Slots

SlotTypes ==
  /\ ClientsArray \in [Slots -> [Fd : Fds \cup {0, -1}, who : Peers \cup {None}]]
  /\ slot \in Nat

WorkTypes == readfds \subseteq Fds \cup {0} /\ max_sd \in Int /\ Readbytes \in Int

KernelTypes ==
  /\ file \in [Fds -> {"free", "listening", "shut"} \cup Peers]
  /\ queue \in Seq(Peers)

PeerTypes ==
  /\ peer \in [Peers -> {"new", "queued", "accepted", "refused", "lost"}]
  /\ ended \in [Peers -> {"no", "closed", "reset", "failed"}]

CountTypes ==
  sent \in [Peers -> Nat] /\ taken \in [Peers -> Nat] /\ given \in [Peers -> Nat]

AppTypes ==
  /\ told \in [Peers -> {"nothing", "connected", "disconnected", "disconnected by us"}]
  /\ garbled \subseteq Peers

TypesOK ==
  /\ ServerTypes /\ SlotTypes /\ WorkTypes /\ KernelTypes /\ PeerTypes
  /\ CountTypes /\ AppTypes

(* There is one socket of the server, and it is what the owner's place     *)
(* says.                                                                   *)
Server ==
  /\ \A fd \in Fds : file[fd] \in {"listening", "shut"} => fd = ServerSocket
  /\ owner = "construct" => worker = "none" /\ \A fd \in Fds : file[fd] = "free"
  /\ owner = "idle" /\ Status = "STARTED" =>
       ServerSocket \in Fds /\ file[ServerSocket] = "listening"
  /\ owner = "close" => ServerSocket \in Fds /\ file[ServerSocket] = "shut"
  /\ owner = "forget" => ServerSocket \in Fds /\ file[ServerSocket] = "free"

(* Slots and descriptors.                                                  *)
Slotted ==
  /\ \A i \in Slots : ClientsArray[i].Fd > 0 =>
       ClientsArray[i].who \in Peers /\ file[ClientsArray[i].Fd] = ClientsArray[i].who
  /\ \A i, j \in Slots :
       ClientsArray[i].Fd > 0 /\ ClientsArray[i].Fd = ClientsArray[j].Fd => i = j
  /\ \A fd \in Fds : file[fd] \in Peers =>
       peer[file[fd]] = "accepted" /\ \E i \in Slots : ClientsArray[i].Fd = fd
  /\ \A fd, gd \in Fds : file[fd] \in Peers /\ file[fd] = file[gd] => fd = gd

(* A peer in the queue waits there once.                                   *)
Queued ==
  /\ \A i \in 1..Len(queue) : peer[queue[i]] = "queued"
  /\ \A i, j \in 1..Len(queue) : queue[i] = queue[j] => i = j

(* Where the worker is, and in which slot.                                 *)
AtSlot ==
  /\ worker \in {"add slot", "connected", "read", "reading", "received", "close"} =>
       slot \in Slots /\ Client.Fd > 0
  /\ worker \in {"compare", "max slot"} => slot \in Slots
  /\ worker = "reading" => reading = Client.who
  /\ worker = "accept" => slot \in Slots /\ Client.Fd <= 0
  /\ worker = "refuse" => \A i \in Slots : ClientsArray[i].Fd > 0
  /\ worker = "scan" => slot > 0

(* The standard input is in the set once ServerSocket is 0: accept(0) then  *)
(* fails if any slot is free, so the scan finds none that is.              *)
Stdin ==
  0 \in readfds =>
    /\ ServerSocket = 0 /\ owner # "construct" /\ worker # "connected"
    /\ worker \in {"scan", "read", "reading"} =>
         \A i \in Slots : i >= slot => ClientsArray[i].Fd > 0
    /\ worker \in {"received", "close"} =>
         \A i \in Slots : i > slot => ClientsArray[i].Fd > 0

(* The application knows of the peers in the slots, but for the one whose  *)
(* connection the worker is about to announce; of the others it was told   *)
(* that they are gone, or nothing.                                         *)
Announced ==
  /\ \A i \in Slots : ClientsArray[i].Fd > 0 =>
       told[ClientsArray[i].who] =
         IF worker = "connected" /\ slot = i THEN "nothing" ELSE "connected"
  /\ \A p \in Peers : peer[p] \in {"new", "queued"} => told[p] = "nothing"

(* What was read and not handed over yet.                                  *)
InHand(p) ==
  IF worker = "received" /\ Client.who = p /\ Readbytes > 0 THEN Readbytes ELSE 0

Counted ==
  /\ \A p \in Peers : /\ given[p] + InHand(p) = taken[p] /\ taken[p] <= sent[p]
                      /\ told[p] = "nothing" => given[p] = 0
                      /\ told[p] = "disconnected" => ended[p] # "no" /\ given[p] = sent[p]
  /\ worker = "close" =>
       ended[Client.who] # "no" /\ taken[Client.who] = sent[Client.who]

(* A length that read() did not return is given after a failure only.      *)
Garbled ==
  /\ \A p \in garbled : ended[p] = "failed"
  /\ worker = "received" /\ Readbytes = -1 => ended[Client.who] = "failed"

(* The slots that the pass of the worker has still to look at.             *)
Ahead(i) ==
  \/ worker \in {"check", "accept", "refuse", "connected"}
  \/ worker \in {"scan", "read", "reading"} /\ i >= slot
  \/ worker \in {"received", "close"} /\ i > slot

(* What select() has found is still to be had.                             *)
Ready ==
  ~use.interrupts =>
    /\ \A i \in Slots : Ahead(i) /\ ClientsArray[i].Fd > 0 /\ ClientsArray[i].Fd \in readfds
         => Readable(ClientsArray[i].Fd)
    /\ worker \in {"check", "accept"} /\ Listening =>
         \A fd \in readfds \cap Fds : file[fd] # "free"
    /\ worker = "check" /\ ServerSocket \in readfds /\ Listening => queue # <<>>
    /\ worker \in {"accept", "refuse"} /\ Listening => queue # <<>>
    /\ worker \in {"read", "reading"} => Client.Fd \in readfds

(* No other thread disconnects.                                            *)
Untouched == disconnecting = 0 /\ closing = 0

ServerInv ==
  /\ Server /\ Slotted /\ Queued /\ AtSlot /\ Stdin /\ Announced /\ Counted
  /\ Garbled /\ Ready /\ Untouched

-----------------------------------------------------------------------------
(* Facts about numbers, sequences, descriptors and slots.                  *)
(* A set of numbers has a least element: NewFd and the first free slot      *)
(* exist.                                                                  *)
LEMMA Least ==
  ASSUME NEW S, S \subseteq Nat, S # {}
  PROVE  Min(S) \in S /\ \A x \in S : Min(S) <= x
<1> DEFINE T == {0..n : n \in S}
<1>1. T \subseteq FiniteSubsetsOf(Nat) /\ T # {}
  <2>1. \A n \in S : 0..n \in SUBSET Nat /\ IsFiniteSet(0..n)
    BY FS_Interval
  <2> QED BY <2>1 DEF FiniteSubsetsOf
<1>2. PICK t \in T : \A u \in T : ~ (<<u, t>> \in StrictSubsetOrdering(Nat))
  BY <1>1, FS_StrictSubsetOrderingWellFounded, WFMin
<1>3. PICK x \in S : t = 0..x
  BY <1>2
<1>4. \A y \in S : x <= y
  <2>1. SUFFICES ASSUME NEW y \in S, y < x PROVE FALSE
    OBVIOUS
  <2>2. 0..y \in T /\ 0..y \subseteq 0..x /\ x \in 0..x /\ x \notin 0..y
    BY <2>1
  <2>3. <<0..y, 0..x>> \in StrictSubsetOrdering(Nat)
    BY <2>2 DEF StrictSubsetOrdering
  <2> QED BY <1>2, <1>3, <2>2, <2>3
<1>5. \E n \in S : \A y \in S : n <= y
  BY <1>3, <1>4
<1> QED BY <1>5 DEF Min
(* What read() takes and what DataReceived() is given.                     *)
LEMMA MinOfTwo ==
  ASSUME NEW a \in Int, NEW b \in Int
  PROVE  Min({a, b}) = IF a <= b THEN a ELSE b
BY DEF Min

(* The larger of two numbers.                                              *)
LEMMA MaxOfTwo ==
  ASSUME NEW a \in Int, NEW b \in Int
  PROVE  Max({a, b}) = IF a >= b THEN a ELSE b
BY DEF Max

(* Connect() puts a peer at the end of the queue of connections.           *)
LEMMA Appended ==
  ASSUME NEW S, NEW q \in Seq(S), NEW e \in S
  PROVE  /\ Append(q, e) \in Seq(S) /\ Append(q, e) # <<>>
         /\ Len(q) \in Nat /\ Len(Append(q, e)) = Len(q) + 1
         /\ \A i \in 1..Len(q) : Append(q, e)[i] = q[i] /\ q[i] \in S
         /\ Append(q, e)[Len(q) + 1] = e
<1>1. \A i \in 1..Len(q) : q[i] \in S
  BY ElementOfSeq
<1> QED BY <1>1, AppendProperties, LenProperties

(* accept() takes the first of it.                                         *)
LEMMA HeadGone ==
  ASSUME NEW S, NEW q \in Seq(S), q # <<>>
  PROVE  /\ Len(q) \in Nat \ {0} /\ Head(q) = q[1] /\ Head(q) \in S
         /\ Tail(q) \in Seq(S) /\ Len(Tail(q)) = Len(q) - 1
         /\ \A i \in 1..Len(Tail(q)) : Tail(q)[i] = q[i + 1]
<1>1. Len(q) \in Nat \ {0}
  BY EmptySeq
<1>2. Head(q) = q[1]
  BY <1>1
<1> QED BY <1>1, <1>2, HeadTailProperties

(* Descriptors and slots are positive numbers.                             *)
LEMMA FdsAre ==
  /\ \A fd \in Fds : fd \in Nat /\ fd > 0
  /\ Fds \subseteq Nat \ {0} /\ 0 \notin Fds /\ -1 \notin Fds
  /\ Slots \subseteq Nat \ {0} /\ MaxClients \in Nat /\ 1 \in Fds
BY ServerAssumption, FS_CardinalityType DEF Fds, Slots

(* The Fd of a slot is a number.                                           *)
LEMMA FdOfSlot ==
  ASSUME SlotTypes, NEW i \in Slots
  PROVE  ClientsArray[i].Fd \in Int
<1>1. ClientsArray[i].Fd \in Fds \cup {0, -1}
  BY DEF SlotTypes
<1>2. Fds \subseteq Int /\ 0 \in Int /\ -1 \in Int
  BY FdsAre
<1> QED BY <1>1, <1>2

(* A descriptor open on a peer is told from the others.                    *)
LEMMA PeersAre == \A p \in Peers : p \notin {None, "free", "listening", "shut"}
BY ServerAssumption

(* The kernel finds a free descriptor if there is one.                     *)
LEMMA NewFdIs ==
  ASSUME NEW fd \in Fds, file[fd] = "free"
  PROVE  NewFd \in Fds /\ file[NewFd] = "free"
<1> DEFINE S == {k \in Fds : file[k] = "free"}
<1>1. Min(S) \in S
  BY FdsAre, Least
<1> QED BY <1>1 DEF NewFd

(* For accept() there is one: the other descriptors are open on the        *)
(* listening socket and on peers that are not in the queue.                *)
LEMMA FreeFd ==
  ASSUME PeerTypes, KernelTypes, Server, Slotted, Queued, Listening, queue # <<>>
  PROVE  NewFd \in Fds /\ file[NewFd] = "free"
<1>1. SUFFICES ASSUME \A fd \in Fds : file[fd] # "free" PROVE FALSE
  BY NewFdIs
<1> DEFINE S == Fds \ {ServerSocket}  T == Peers \ {Head(queue)}  f == [fd \in S |-> file[fd]]
<1>2. Head(queue) \in Peers /\ peer[Head(queue)] = "queued"
  <2>1. queue \in Seq(Peers) BY DEF KernelTypes
  <2>2. Head(queue) \in Peers /\ Head(queue) = queue[1] /\ 1 \in 1..Len(queue)
    BY <2>1, HeadGone
  <2> QED BY <2>2 DEF Queued
<1>3. IsFiniteSet(Fds) /\ Cardinality(Fds) = Cardinality(Peers) + 1 /\ Cardinality(Peers) \in Nat
  <2>1. IsFiniteSet(Peers) /\ Cardinality(Peers) \in Nat
    BY ServerAssumption, FS_CardinalityType
  <2> DEFINE n == 1 + Cardinality(Peers)
  <2>2. IsFiniteSet(1..n) /\ Cardinality(1..n) = n
    BY <2>1, FS_Interval
  <2> QED BY <2>1, <2>2 DEF Fds
<1>4. IsFiniteSet(S) /\ Cardinality(S) = Cardinality(Peers)
  <2>1. ServerSocket \in Fds
    BY DEF Listening
  <2>2. IsFiniteSet(S) /\ Cardinality(S) = Cardinality(Fds) - 1
    BY ONLY <1>3, <2>1, FS_RemoveElement
  <2> HIDE DEF S
  <2> QED BY ONLY <1>3, <2>2
<1>5. IsFiniteSet(T) /\ Cardinality(T) = Cardinality(Peers) - 1
  BY <1>2, ServerAssumption, FS_RemoveElement
<1>6. \A fd \in S : file[fd] \in T /\ file[fd] \in Peers
  BY <1>1, <1>2 DEF KernelTypes, Server, Slotted
<1>7. f \in [S -> T]
  BY <1>6
<1>8. \E x, y \in S : x # y /\ f[x] = f[y]
  <2> HIDE DEF S, T, f
  <2> QED BY <1>3, <1>4, <1>5, <1>7, FS_PigeonHole
<1>9. PICK x \in S, y \in S : x # y /\ file[x] = file[y]
  BY <1>8
<1> QED BY <1>6, <1>9 DEF Slotted

(* The client of a slot.                                                   *)
LEMMA InSlot ==
  ASSUME SlotTypes, KernelTypes, Slotted, NEW i \in Slots, ClientsArray[i].Fd > 0
  PROVE  /\ ClientsArray[i].Fd \in Fds /\ ClientsArray[i].who \in Peers
         /\ file[ClientsArray[i].Fd] = ClientsArray[i].who
         /\ peer[ClientsArray[i].who] = "accepted"
         /\ \A j \in Slots : ClientsArray[j].Fd > 0 /\ ClientsArray[j].who = ClientsArray[i].who => i = j
<1>1. \A j \in Slots : ClientsArray[j].Fd > 0 => ClientsArray[j].Fd \in Fds
  BY FdsAre DEF SlotTypes
<1> QED BY <1>1 DEF Slotted

(* The client that the worker serves.                                      *)
LEMMA AtClient ==
  ASSUME SlotTypes, KernelTypes, Slotted, AtSlot,
         worker \in {"add slot", "connected", "read", "reading", "received", "close"}
  PROVE  /\ slot \in Slots /\ Client = ClientsArray[slot] /\ Client.Fd \in Fds /\ Client.Fd > 0
         /\ Client.who \in Peers /\ file[Client.Fd] = Client.who /\ peer[Client.who] = "accepted"
         /\ \A i \in Slots : ClientsArray[i].Fd > 0 /\ ClientsArray[i].who = Client.who => i = slot
BY InSlot DEF AtSlot, Client

(* Closing the client the worker serves and emptying its slot.             *)
LEMMA Freed ==
  ASSUME SlotTypes, KernelTypes, PeerTypes, ServerTypes, Server, Slotted,
         slot \in Slots, Client.Fd > 0, worker # "none", NEW v \in {0, -1},
         file' = Closed(Client.Fd), ClientsArray' = [ClientsArray EXCEPT ![slot].Fd = v],
         UNCHANGED <<owner, Status, ServerSocket, peer, queue>>
  PROVE  /\ \A fd \in Fds : file'[fd] = IF fd = Client.Fd THEN "free" ELSE file[fd]
         /\ \A i \in Slots : /\ ClientsArray'[i].who = ClientsArray[i].who
                             /\ ClientsArray'[i].Fd = IF i = slot THEN v ELSE ClientsArray[i].Fd
         /\ ClientsArray' \in [Slots -> [Fd : Fds \cup {0, -1}, who : Peers \cup {None}]]
         /\ KernelTypes' /\ Server' /\ Slotted'
<1>1. \A fd \in Fds : file'[fd] = IF fd = Client.Fd THEN "free" ELSE file[fd]
  BY DEF Closed
<1>2. \A i \in Slots : /\ ClientsArray'[i].who = ClientsArray[i].who
                       /\ ClientsArray'[i].Fd = IF i = slot THEN v ELSE ClientsArray[i].Fd
  BY DEF SlotTypes
<1>3. ClientsArray' \in [Slots -> [Fd : Fds \cup {0, -1}, who : Peers \cup {None}]]
  BY DEF SlotTypes
<1>4. KernelTypes'
  BY DEF KernelTypes, Closed
<1>5. Client = ClientsArray[slot] /\ Client.Fd \in Fds /\ file[Client.Fd] = Client.who /\ Client.who \in Peers
  BY InSlot DEF Client
<1>6. Server'
  BY <1>1, <1>5, PeersAre DEF Server
<1>7. Slotted'
  <2>1. \A i \in Slots : ClientsArray'[i].Fd > 0 =>
          i # slot /\ ClientsArray'[i] = ClientsArray[i] /\ ClientsArray[i].Fd \in Fds /\ ClientsArray[i].Fd # Client.Fd
    BY <1>2, <1>5, InSlot DEF Slotted, SlotTypes
  <2>2. \A fd \in Fds : file'[fd] \in Peers => fd # Client.Fd /\ file'[fd] = file[fd]
    BY <1>1, PeersAre
  <2>3. \A fd \in Fds : file'[fd] \in Peers => \E i \in Slots : ClientsArray'[i].Fd = fd
    BY <1>2, <1>5, <2>2 DEF Slotted
  <2>4. \A i \in Slots : ClientsArray'[i].Fd > 0 =>
          ClientsArray'[i].who \in Peers /\ file'[ClientsArray'[i].Fd] = ClientsArray'[i].who
    BY <1>1, <2>1 DEF Slotted
  <2> QED BY <2>1, <2>2, <2>3, <2>4 DEF Slotted
<1> QED BY <1>1, <1>2, <1>3, <1>4, <1>6, <1>7

(* A peer connects: it joins the queue, and was told nothing.              *)
LEMMA ConnectKeeps ==
  ASSUME NEW p \in Peers, Connect(p), TypesOK, ServerInv
  PROVE  TypesOK' /\ ServerInv'
<1> USE DEF serverVars, workerVars, peerVars, appVars, disconnectVars, Goes
<1> SUFFICES ASSUME ServerTypes, SlotTypes, WorkTypes, KernelTypes, PeerTypes, CountTypes,
                    AppTypes, Server, Slotted, Queued, AtSlot, Stdin, Announced, Counted,
                    Garbled, Ready, Untouched
             PROVE  TypesOK' /\ ServerInv'
  BY DEF TypesOK, ServerInv
<1>q. /\ queue' \in Seq(Peers) /\ queue' # <<>> /\ Len(queue') = Len(queue) + 1 /\ Len(queue) \in Nat
      /\ \A i \in 1..Len(queue) : queue'[i] = queue[i] /\ queue[i] \in Peers
      /\ queue'[Len(queue) + 1] = p
  BY Appended DEF Connect, KernelTypes
<1>1. ServerTypes' /\ SlotTypes' /\ WorkTypes' /\ CountTypes' /\ AppTypes' /\
      Untouched'
  BY DEF Connect, ServerTypes, SlotTypes, WorkTypes, CountTypes, AppTypes, Untouched
<1>2. Server' /\ AtSlot' /\ Counted'
  BY DEF Connect, Server, AtSlot, Counted, Client, InHand
<1>3. KernelTypes'
  BY <1>q DEF Connect, KernelTypes
<1>4. PeerTypes'
  BY <1>q DEF Connect, PeerTypes
<1>5. Slotted'
  BY <1>q DEF Connect, Slotted, SlotTypes, KernelTypes, PeerTypes
<1>6. Queued'
  BY <1>q DEF Connect, Queued, KernelTypes, PeerTypes
<1>7. Announced'
  BY DEF Connect, Announced, PeerTypes
<1>8. Ready'
  BY <1>q DEF Connect, Ready, Ahead, Readable, HasNews, Listening, Client, SlotTypes,
         WorkTypes, KernelTypes, PeerTypes, CountTypes
<1>s1. Stdin'
  BY FdsAre DEF Connect, Stdin, Client, AtSlot
<1>g1. Garbled'
  BY DEF Connect, Garbled, Client, AtSlot, PeerTypes
<1> QED BY <1>s1, <1>g1, <1>1, <1>2, <1>3, <1>4, <1>5, <1>6, <1>7, <1>8 DEF TypesOK, ServerInv

(* A peer sends: what was readable stays so.                               *)
LEMMA SendKeeps ==
  ASSUME NEW p \in Peers, Send(p), TypesOK, ServerInv
  PROVE  TypesOK' /\ ServerInv'
<1> USE DEF serverVars, workerVars, peerVars, appVars, disconnectVars, Goes
<1> SUFFICES ASSUME ServerTypes, SlotTypes, WorkTypes, KernelTypes, PeerTypes, CountTypes,
                    AppTypes, Server, Slotted, Queued, AtSlot, Stdin, Announced, Counted,
                    Garbled, Ready, Untouched
             PROVE  TypesOK' /\ ServerInv'
  BY DEF TypesOK, ServerInv
<1>1. ServerTypes' /\ SlotTypes' /\ WorkTypes' /\ KernelTypes' /\ PeerTypes' /\
      AppTypes' /\ Untouched'
  BY DEF Send, ServerTypes, SlotTypes, WorkTypes, KernelTypes, PeerTypes, AppTypes, Untouched
<1>2. Server' /\ Slotted' /\ Queued' /\ Announced'
  BY DEF Send, Server, Slotted, Queued, Announced
<1>a1. AtSlot'
  BY DEF Send, AtSlot, Client
<1>3. CountTypes'
  BY DEF Send, CountTypes
<1>4. Counted'
  <2>1. \A r \in Peers : InHand(r)' = InHand(r)
    BY DEF Send, InHand, Client
  <2>2. worker = "close" => Client.who \in Peers /\ Client' = Client
    BY AtClient DEF Send, Client
  <2> QED BY <2>1, <2>2 DEF Send, Counted, CountTypes, PeerTypes
<1>5. Ready'
  <2>1. \A q \in Peers : taken[q] \in Nat /\ sent[q] \in Nat /\ sent'[q] >= sent[q]
    BY DEF Send, CountTypes
  <2>2. \A q \in Peers : sent'[q] \in Nat
    BY <1>3 DEF CountTypes
  <2>3. \A fd : Readable(fd) => Readable(fd)'
    <3>1. \A q \in Peers : taken[q] < sent[q] => taken[q] < sent'[q]
      BY <2>1, <2>2
    <3> QED BY <3>1 DEF Send, Readable, HasNews
  <2>4. UNCHANGED <<use, ClientsArray, readfds, worker, slot, ServerSocket, file, queue>>
    BY DEF Send
  <2> QED BY <2>3, <2>4 DEF Ready, Ahead, Listening, Client
<1>s1. Stdin'
  BY FdsAre DEF Send, Stdin, Client, AtSlot
<1>g1. Garbled'
  BY DEF Send, Garbled, Client, AtSlot, PeerTypes
<1> QED BY <1>a1, <1>s1, <1>g1, <1>1, <1>2, <1>3, <1>4, <1>5 DEF TypesOK, ServerInv

(* A peer closes or resets.                                                *)
LEMMA EndKeeps ==
  ASSUME NEW p \in Peers, End(p), TypesOK, ServerInv
  PROVE  TypesOK' /\ ServerInv'
<1> USE DEF serverVars, workerVars, peerVars, appVars, disconnectVars, Goes
<1> SUFFICES ASSUME ServerTypes, SlotTypes, WorkTypes, KernelTypes, PeerTypes, CountTypes,
                    AppTypes, Server, Slotted, Queued, AtSlot, Stdin, Announced, Counted,
                    Garbled, Ready, Untouched
             PROVE  TypesOK' /\ ServerInv'
  BY DEF TypesOK, ServerInv
<1>1. ServerTypes' /\ SlotTypes' /\ WorkTypes' /\ KernelTypes' /\ CountTypes' /\
      AppTypes' /\ Untouched'
  BY DEF End, ServerTypes, SlotTypes, WorkTypes, KernelTypes, CountTypes, AppTypes, Untouched
<1>2. Server' /\ Slotted' /\ Queued' /\ Announced'
  BY DEF End, Server, Slotted, Queued, Announced
<1>a1. AtSlot'
  BY DEF End, AtSlot, Client
<1>3. PeerTypes'
  BY DEF End, PeerTypes
<1>4. Counted'
  <2>1. \A r \in Peers : InHand(r)' = InHand(r)
    BY DEF End, InHand, Client
  <2>2. worker = "close" => Client.who \in Peers /\ Client' = Client
    BY AtClient DEF End, Client
  <2> QED BY <2>1, <2>2 DEF End, Counted, CountTypes, PeerTypes
<1>5. Ready'
  BY DEF End, Ready, Ahead, Readable, HasNews, Listening, Client, SlotTypes, WorkTypes,
         KernelTypes, PeerTypes, CountTypes
<1>s1. Stdin'
  BY FdsAre DEF End, Stdin, Client, AtSlot
<1>g1. Garbled'
  <2>1. UNCHANGED <<worker, Readbytes, ClientsArray, slot, garbled>> /\ ended[p] = "no"
    BY DEF End
  <2>2. \A q \in Peers : ended[q] = "failed" => ended'[q] = "failed"
    BY DEF End, PeerTypes
  <2>3. worker = "received" => Client.who \in Peers
    BY AtClient
  <2> QED BY <2>1, <2>2, <2>3 DEF Garbled, Client, AppTypes
<1> QED BY <1>a1, <1>s1, <1>g1, <1>1, <1>2, <1>3, <1>4, <1>5 DEF TypesOK, ServerInv

(* Start() finds every descriptor and every slot free.                     *)
LEMMA StartKeeps ==
  ASSUME Start, TypesOK, ServerInv
  PROVE  TypesOK' /\ ServerInv'
<1> USE DEF serverVars, workerVars, peerVars, appVars, disconnectVars, Goes
<1> SUFFICES ASSUME ServerTypes, SlotTypes, WorkTypes, KernelTypes, PeerTypes, CountTypes,
                    AppTypes, Server, Slotted, Queued, AtSlot, Stdin, Announced, Counted,
                    Garbled, Ready, Untouched
             PROVE  TypesOK' /\ ServerInv'
  BY DEF TypesOK, ServerInv
<1>q. NewFd \in Fds /\ file[NewFd] = "free" /\ \A fd \in Fds : file[fd] = "free"
  <2>1. \A fd \in Fds : file[fd] = "free"
    BY DEF Start, Server
  <2> QED BY <2>1, FdsAre, NewFdIs
<1>n. /\ worker = "none" /\ file' \in [Fds -> {"free", "listening"}]
      /\ \A i \in Slots : ~ (ClientsArray[i].Fd > 0)
  <2>1. file' = [file EXCEPT ![NewFd] = "listening"] \/ file' = file
    BY DEF Start
  <2>2. \A i \in Slots : ClientsArray[i].Fd > 0 => file[ClientsArray[i].Fd] \in Peers /\ ClientsArray[i].Fd \in Fds
    BY InSlot
  <2>3. file' \in [Fds -> {"free", "listening"}]
    BY <1>q, <2>1 DEF KernelTypes
  <2> QED BY <1>q, <2>2, <2>3, PeersAre DEF Start, Server
<1>1. SlotTypes' /\ WorkTypes' /\ PeerTypes' /\ CountTypes' /\ AppTypes' /\
      Untouched'
  BY DEF Start, SlotTypes, WorkTypes, PeerTypes, CountTypes, AppTypes, Untouched
<1>2. Queued'
  BY DEF Start, Queued
<1>3. ServerTypes'
  BY <1>q, <1>n, FdsAre, PeersAre DEF Start, ServerTypes
<1>4. KernelTypes'
  BY <1>q, <1>n, FdsAre, PeersAre DEF Start, KernelTypes
<1>5. Server'
  BY <1>q, <1>n, FdsAre, PeersAre DEF Start, Server, ServerTypes, KernelTypes
<1>6. Slotted'
  BY <1>q, <1>n, PeersAre DEF Start, Slotted
<1>7. AtSlot'
  BY <1>q, <1>n, FdsAre, PeersAre DEF Start, AtSlot, Client, SlotTypes
<1>8. Announced'
  BY <1>q, <1>n, FdsAre, PeersAre DEF Start, Announced, Slotted, AtSlot, SlotTypes,
         PeerTypes, AppTypes
<1>9. Counted'
  BY <1>q, <1>n, FdsAre, PeersAre DEF Start, Counted, InHand, Client, AtSlot,
         SlotTypes, CountTypes, AppTypes
<1>10. Ready'
  BY <1>q, <1>n, FdsAre, PeersAre DEF Start, Ready, Ahead, Readable, HasNews, Listening,
         Client, SlotTypes, WorkTypes, KernelTypes, PeerTypes, CountTypes
<1>s1. Stdin'
  BY FdsAre DEF Start, Stdin, Client, AtSlot
<1>g1. Garbled'
  BY DEF Start, Garbled, Client, AtSlot, PeerTypes
<1> QED BY <1>s1, <1>g1, <1>1, <1>2, <1>3, <1>4, <1>5, <1>6, <1>7, <1>8, <1>9, <1>10 DEF TypesOK,
         ServerInv

(* shutdown(): the queue is lost; no slot holds the socket.                *)
LEMMA StopKeeps ==
  ASSUME Stop, TypesOK, ServerInv
  PROVE  TypesOK' /\ ServerInv'
<1> USE DEF serverVars, workerVars, peerVars, appVars, disconnectVars, Goes
<1> SUFFICES ASSUME ServerTypes, SlotTypes, WorkTypes, KernelTypes, PeerTypes, CountTypes,
                    AppTypes, Server, Slotted, Queued, AtSlot, Stdin, Announced, Counted,
                    Garbled, Ready, Untouched
             PROVE  TypesOK' /\ ServerInv'
  BY DEF TypesOK, ServerInv
<1>q. ServerSocket \in Fds /\ file[ServerSocket] = "listening" /\ <<>> \in Seq(Peers) /\ Len(<<>>) = 0
  BY EmptySeq DEF Stop, Server
<1>1. ServerTypes' /\ SlotTypes' /\ WorkTypes' /\ CountTypes' /\ AppTypes' /\
      Untouched'
  BY DEF Stop, ServerTypes, SlotTypes, WorkTypes, CountTypes, AppTypes, Untouched
<1>2. AtSlot' /\ Counted'
  BY DEF Stop, AtSlot, Counted, Client, InHand
<1>3. KernelTypes'
  BY <1>q, FdsAre, PeersAre DEF Stop, KernelTypes
<1>4. PeerTypes'
  BY <1>q, FdsAre, PeersAre DEF Stop, PeerTypes
<1>5. Server'
  BY <1>q, FdsAre, PeersAre DEF Stop, Server, ServerTypes, KernelTypes
<1>6. Slotted'
  BY <1>q, FdsAre, PeersAre DEF Stop, Slotted, SlotTypes, KernelTypes, PeerTypes
<1>7. Queued'
  BY <1>q, FdsAre, PeersAre DEF Stop, Queued, KernelTypes, PeerTypes
<1>8. Announced'
  BY <1>q, FdsAre, PeersAre DEF Stop, Announced, Slotted, AtSlot, SlotTypes,
         PeerTypes, AppTypes
<1>9. Ready'
  <2>1. \A i \in Slots : ClientsArray[i].Fd > 0 => ClientsArray[i].Fd \in Fds /\ file[ClientsArray[i].Fd] \in Peers
    BY InSlot
  <2>2. \A fd \in Fds : file[fd] \in Peers /\ Readable(fd) => Readable(fd)'
    BY <1>q, PeersAre DEF Stop, Readable, HasNews, KernelTypes
  <2>3. \A i : Ahead(i)' = Ahead(i)
    BY DEF Stop, Ahead
  <2>4. worker \in {"check", "accept", "refuse"} => ~ Listening'
    BY <1>q, FdsAre DEF Stop, Listening, KernelTypes
  <2> QED BY <2>1, <2>2, <2>3, <2>4 DEF Stop, Ready, Client
<1>s1. Stdin'
  BY FdsAre DEF Stop, Stdin, Client, AtSlot
<1>g1. Garbled'
  BY DEF Stop, Garbled, Client, AtSlot, PeerTypes
<1> QED BY <1>s1, <1>g1, <1>1, <1>2, <1>3, <1>4, <1>5, <1>6, <1>7, <1>8, <1>9 DEF TypesOK, ServerInv

(* close(): the only descriptor freed is the socket's.                     *)
LEMMA StopClosesKeeps ==
  ASSUME StopCloses, TypesOK, ServerInv
  PROVE  TypesOK' /\ ServerInv'
<1> USE DEF serverVars, workerVars, peerVars, appVars, disconnectVars, Goes
<1> SUFFICES ASSUME ServerTypes, SlotTypes, WorkTypes, KernelTypes, PeerTypes, CountTypes,
                    AppTypes, Server, Slotted, Queued, AtSlot, Stdin, Announced, Counted,
                    Garbled, Ready, Untouched
             PROVE  TypesOK' /\ ServerInv'
  BY DEF TypesOK, ServerInv
<1>q. ServerSocket \in Fds /\ file[ServerSocket] = "shut"
      /\ \A fd \in Fds : file'[fd] = IF fd = ServerSocket THEN "free" ELSE file[fd]
  BY DEF StopCloses, Server, Closed
<1>1. ServerTypes' /\ SlotTypes' /\ WorkTypes' /\ PeerTypes' /\ CountTypes' /\
      AppTypes' /\ Untouched'
  BY DEF StopCloses, ServerTypes, SlotTypes, WorkTypes, PeerTypes, CountTypes,
         AppTypes, Untouched
<1>2. Queued' /\ AtSlot' /\ Announced' /\ Counted'
  BY DEF StopCloses, Queued, AtSlot, Announced, Counted, Client, InHand
<1>3. KernelTypes'
  BY <1>q, FdsAre, PeersAre DEF StopCloses, KernelTypes, Closed
<1>4. Server'
  BY <1>q, FdsAre, PeersAre DEF StopCloses, Server, ServerTypes, KernelTypes
<1>5. Slotted'
  <2>1. \A fd \in Fds : file[fd] \in Peers => fd # ServerSocket
    BY <1>q, PeersAre
  <2>2. \A i \in Slots : ClientsArray[i].Fd > 0 => ClientsArray[i].Fd \in Fds /\ ClientsArray[i].Fd # ServerSocket
    BY <2>1, InSlot
  <2> QED BY <1>q, <2>1, <2>2, PeersAre DEF StopCloses, Slotted
<1>6. Ready'
  <2>1. \A i \in Slots : ClientsArray[i].Fd > 0 => ClientsArray[i].Fd \in Fds /\ file[ClientsArray[i].Fd] \in Peers
    BY InSlot
  <2>2. \A fd \in Fds : file[fd] \in Peers /\ Readable(fd) => Readable(fd)'
    BY <1>q, PeersAre DEF StopCloses, Readable, HasNews, KernelTypes
  <2>3. \A i : Ahead(i)' = Ahead(i)
    BY DEF StopCloses, Ahead
  <2>4. worker \in {"check", "accept", "refuse"} => ~ Listening'
    BY <1>q, FdsAre DEF StopCloses, Listening, KernelTypes
  <2> QED BY <2>1, <2>2, <2>3, <2>4 DEF StopCloses, Ready, Client
<1>s1. Stdin'
  BY FdsAre DEF StopCloses, Stdin, Client, AtSlot
<1>g1. Garbled'
  BY DEF StopCloses, Garbled, Client, AtSlot, PeerTypes
<1> QED BY <1>s1, <1>g1, <1>1, <1>2, <1>3, <1>4, <1>5, <1>6 DEF TypesOK, ServerInv

(* The members forget the socket, which is closed by then.                 *)
LEMMA StopForgetsKeeps ==
  ASSUME StopForgets, TypesOK, ServerInv
  PROVE  TypesOK' /\ ServerInv'
<1> USE DEF serverVars, workerVars, peerVars, appVars, disconnectVars, Goes
<1> SUFFICES ASSUME ServerTypes, SlotTypes, WorkTypes, KernelTypes, PeerTypes, CountTypes,
                    AppTypes, Server, Slotted, Queued, AtSlot, Stdin, Announced, Counted,
                    Garbled, Ready, Untouched
             PROVE  TypesOK' /\ ServerInv'
  BY DEF TypesOK, ServerInv
<1>1. SlotTypes' /\ WorkTypes' /\ KernelTypes' /\ PeerTypes' /\ CountTypes' /\
      AppTypes' /\ Untouched'
  BY DEF StopForgets, SlotTypes, WorkTypes, KernelTypes, PeerTypes, CountTypes,
         AppTypes, Untouched
<1>2. Slotted' /\ Queued' /\ Announced' /\ Counted'
  BY DEF StopForgets, Slotted, Queued, Announced, Counted, Client, InHand
<1>a1. AtSlot'
  BY DEF StopForgets, AtSlot, Client
<1>3. ServerTypes'
  BY DEF StopForgets, ServerTypes
<1>4. Server'
  BY DEF StopForgets, Server, ServerTypes, KernelTypes
<1>5. Ready'
  <2>1. \A i \in Slots : ClientsArray[i].Fd > 0 => ClientsArray[i].Fd \in Fds /\ file[ClientsArray[i].Fd] \in Peers
    BY InSlot
  <2>2. \A fd \in Fds : file[fd] \in Peers /\ Readable(fd) => Readable(fd)'
    BY PeersAre DEF StopForgets, Readable, HasNews, KernelTypes
  <2>3. \A i : Ahead(i)' = Ahead(i)
    BY DEF StopForgets, Ahead
  <2>4. worker \in {"check", "accept", "refuse"} => ~ Listening'
    BY FdsAre DEF StopForgets, Listening, KernelTypes
  <2> QED BY <2>1, <2>2, <2>3, <2>4 DEF StopForgets, Ready, Client
<1>s1. Stdin'
  BY FdsAre DEF StopForgets, Stdin, Client, AtSlot
<1>g1. Garbled'
  BY DEF StopForgets, Garbled, Client, AtSlot, PeerTypes
<1> QED BY <1>a1, <1>s1, <1>g1, <1>1, <1>2, <1>3, <1>4, <1>5 DEF TypesOK, ServerInv

(* Stop() returns.                                                         *)
LEMMA StopReturnsKeeps ==
  ASSUME StopReturns, TypesOK, ServerInv
  PROVE  TypesOK' /\ ServerInv'
<1> USE DEF serverVars, workerVars, peerVars, appVars, disconnectVars, Goes
<1> SUFFICES ASSUME ServerTypes, SlotTypes, WorkTypes, KernelTypes, PeerTypes, CountTypes,
                    AppTypes, Server, Slotted, Queued, AtSlot, Stdin, Announced, Counted,
                    Garbled, Ready, Untouched
             PROVE  TypesOK' /\ ServerInv'
  BY DEF TypesOK, ServerInv
<1>1. ServerTypes' /\ SlotTypes' /\ WorkTypes' /\ KernelTypes' /\ PeerTypes' /\
      CountTypes' /\ AppTypes' /\ Untouched'
  BY DEF StopReturns, ServerTypes, SlotTypes, WorkTypes, KernelTypes, PeerTypes,
         CountTypes, AppTypes, Untouched
<1>2. Slotted' /\ Queued' /\ Announced' /\ Counted'
  BY DEF StopReturns, Slotted, Queued, Announced, Counted, Client, InHand
<1>a1. AtSlot'
  BY DEF StopReturns, AtSlot, Client
<1>a2. Ready'
  BY DEF StopReturns, Ready, Ahead, Client, Listening, Readable, HasNews
<1>3. Server'
  BY DEF StopReturns, Server, ServerTypes, KernelTypes
<1>s1. Stdin'
  BY FdsAre DEF StopReturns, Stdin, Client, AtSlot
<1>g1. Garbled'
  BY DEF StopReturns, Garbled, Client, AtSlot, PeerTypes
<1> QED BY <1>a1, <1>a2, <1>s1, <1>g1, <1>1, <1>2, <1>3 DEF TypesOK, ServerInv

(* While the set is built only the worker's own members change: what they  *)
(* must satisfy is what the actions below prove.                           *)
Building == {"build", "add server", "max server", "test slot", "add slot", "compare", "max slot"}

LEMMA BuildingKeeps ==
  ASSUME TypesOK, ServerInv, worker \in Building, worker' \in Building \cup {"select"},
         UNCHANGED <<serverVars, Readbytes, reading, ClientsArray, file, queue, peerVars,
                     appVars, alive>>,
         SlotTypes', WorkTypes', AtSlot', Stdin'
  PROVE  TypesOK' /\ ServerInv'
<1> USE DEF serverVars, workerVars, peerVars, appVars, disconnectVars, Goes
<1> SUFFICES ASSUME ServerTypes, SlotTypes, WorkTypes, KernelTypes, PeerTypes, CountTypes,
                    AppTypes, Server, Slotted, Queued, AtSlot, Stdin, Announced, Counted,
                    Garbled, Ready, Untouched
             PROVE  TypesOK' /\ ServerInv'
  BY DEF TypesOK, ServerInv
<1>1. ServerTypes' /\ KernelTypes' /\ PeerTypes' /\ CountTypes' /\ AppTypes' /\ Untouched'
  BY DEF ServerTypes, KernelTypes, PeerTypes, CountTypes, AppTypes, Untouched
<1>2. Slotted' /\ Queued'
  BY DEF Slotted, Queued
<1>3. Server'
  BY DEF Server, Building
<1>4. Announced'
  BY DEF Announced, Building
<1>5. Counted' /\ Garbled'
  BY DEF Counted, InHand, Garbled, Building
<1>6. Ready'
  BY DEF Ready, Ahead, Building
<1> QED BY <1>1, <1>2, <1>3, <1>4, <1>5, <1>6 DEF TypesOK, ServerInv

(* The set is emptied, and the socket of the server looked at.             *)
LEMMA TestServerKeeps ==
  ASSUME TestServer, TypesOK, ServerInv
  PROVE  TypesOK' /\ ServerInv'
<1> USE DEF serverVars, workerVars, peerVars, appVars, disconnectVars, Goes
<1> SUFFICES ASSUME ServerTypes, SlotTypes, WorkTypes, KernelTypes, PeerTypes, CountTypes,
                    AppTypes, Server, Slotted, Queued, AtSlot, Stdin, Announced, Counted,
                    Garbled, Ready, Untouched
             PROVE  TypesOK' /\ ServerInv'
  BY DEF TypesOK, ServerInv
<1>1. /\ worker \in Building /\ worker' \in Building \cup {"select"}
      /\ UNCHANGED <<serverVars, Readbytes, reading, ClientsArray, file, queue, peerVars,
                     appVars, alive>>
  BY DEF TestServer, Building
<1>a. worker' \in {"add server", "test slot"} /\ readfds' = {} /\ max_sd' = 0 /\ slot' = 1
  BY DEF TestServer
<1>2. SlotTypes'
  BY <1>1, <1>a DEF SlotTypes
<1>3. WorkTypes'
  <2>0. 0 \in Int
    OBVIOUS
  <2>1. max_sd' \in Int
    BY <1>a, <2>0, Zenon
  <2>2. readfds' \subseteq Fds \cup {0}
    BY <1>a
  <2>3. Readbytes' \in Int
    BY <1>1 DEF WorkTypes
  <2> QED BY <2>1, <2>2, <2>3 DEF WorkTypes
<1>4. AtSlot'
  BY <1>1, <1>a DEF AtSlot, Client, Building
<1>5. Stdin'
  BY <1>1, <1>a, FdsAre DEF Stdin, Building
<1> QED BY <1>1, <1>2, <1>3, <1>4, <1>5, BuildingKeeps DEF TypesOK, ServerInv

(* ServerSocket, which may be 0 by now, joins the set.                     *)
LEMMA AddServerKeeps ==
  ASSUME AddServer, TypesOK, ServerInv
  PROVE  TypesOK' /\ ServerInv'
<1> USE DEF serverVars, workerVars, peerVars, appVars, disconnectVars, Goes
<1> SUFFICES ASSUME ServerTypes, SlotTypes, WorkTypes, KernelTypes, PeerTypes, CountTypes,
                    AppTypes, Server, Slotted, Queued, AtSlot, Stdin, Announced, Counted,
                    Garbled, Ready, Untouched
             PROVE  TypesOK' /\ ServerInv'
  BY DEF TypesOK, ServerInv
<1>1. /\ worker \in Building /\ worker' \in Building \cup {"select"}
      /\ UNCHANGED <<serverVars, Readbytes, reading, ClientsArray, file, queue, peerVars,
                     appVars, alive>>
  BY DEF AddServer, Building
<1>a. /\ worker = "add server" /\ worker' = "max server" /\ readfds' = {ServerSocket}
      /\ UNCHANGED <<max_sd, slot>> /\ ServerSocket \in Fds \cup {0}
  BY DEF AddServer, ServerTypes
<1>2. SlotTypes'
  BY <1>1, <1>a DEF SlotTypes
<1>3. WorkTypes'
  BY <1>1, <1>a, FdsAre DEF WorkTypes
<1>4. AtSlot'
  BY <1>1, <1>a DEF AtSlot, Client, Building
<1>5. Stdin'
  BY <1>1, <1>a, FdsAre DEF Stdin, Building, Server
<1> QED BY <1>1, <1>2, <1>3, <1>4, <1>5, BuildingKeeps DEF TypesOK, ServerInv

(* It is the largest so far.                                               *)
LEMMA MaxServerKeeps ==
  ASSUME MaxServer, TypesOK, ServerInv
  PROVE  TypesOK' /\ ServerInv'
<1> USE DEF serverVars, workerVars, peerVars, appVars, disconnectVars, Goes
<1> SUFFICES ASSUME ServerTypes, SlotTypes, WorkTypes, KernelTypes, PeerTypes, CountTypes,
                    AppTypes, Server, Slotted, Queued, AtSlot, Stdin, Announced, Counted,
                    Garbled, Ready, Untouched
             PROVE  TypesOK' /\ ServerInv'
  BY DEF TypesOK, ServerInv
<1>1. /\ worker \in Building /\ worker' \in Building \cup {"select"}
      /\ UNCHANGED <<serverVars, Readbytes, reading, ClientsArray, file, queue, peerVars,
                     appVars, alive>>
  BY DEF MaxServer, Building
<1>a. /\ worker' = "test slot" /\ max_sd' = ServerSocket
      /\ UNCHANGED <<readfds, slot>> /\ ServerSocket \in Int
  <2>1. Fds \subseteq Int /\ 0 \in Int
    BY FdsAre
  <2>2. ServerSocket \in Int
    BY <2>1 DEF ServerTypes
  <2> QED BY <2>2 DEF MaxServer
<1>2. SlotTypes'
  BY <1>1, <1>a DEF SlotTypes
<1>3. WorkTypes'
  BY <1>1, <1>a, FdsAre DEF WorkTypes
<1>4. AtSlot'
  BY <1>1, <1>a DEF AtSlot, Client, Building
<1>5. Stdin'
  BY <1>1, <1>a, FdsAre DEF Stdin, Building
<1> QED BY <1>1, <1>2, <1>3, <1>4, <1>5, BuildingKeeps DEF TypesOK, ServerInv

(* A slot is looked at.                                                   *)
LEMMA TestSlotKeeps ==
  ASSUME TestSlot, TypesOK, ServerInv
  PROVE  TypesOK' /\ ServerInv'
<1> USE DEF serverVars, workerVars, peerVars, appVars, disconnectVars, Goes
<1> SUFFICES ASSUME ServerTypes, SlotTypes, WorkTypes, KernelTypes, PeerTypes, CountTypes,
                    AppTypes, Server, Slotted, Queued, AtSlot, Stdin, Announced, Counted,
                    Garbled, Ready, Untouched
             PROVE  TypesOK' /\ ServerInv'
  BY DEF TypesOK, ServerInv
<1>1. /\ worker \in Building /\ worker' \in Building \cup {"select"}
      /\ UNCHANGED <<serverVars, Readbytes, reading, ClientsArray, file, queue, peerVars,
                     appVars, alive>>
  BY DEF TestSlot, Building
<1>a. /\ worker' \in {"add slot", "compare", "select"} /\ UNCHANGED <<readfds, max_sd, slot>>
      /\ worker' = "add slot" => slot \in Slots /\ Client.Fd > 0
      /\ worker' = "compare" => slot \in Slots
  BY DEF TestSlot
<1>2. SlotTypes'
  BY <1>1, <1>a DEF SlotTypes
<1>3. WorkTypes'
  BY <1>1, <1>a, FdsAre DEF WorkTypes
<1>4. AtSlot'
  BY <1>1, <1>a DEF AtSlot, Client, Building
<1>5. Stdin'
  BY <1>1, <1>a, FdsAre DEF Stdin, Building
<1> QED BY <1>1, <1>2, <1>3, <1>4, <1>5, BuildingKeeps DEF TypesOK, ServerInv

(* Its descriptor, which no other thread touches, joins the set.           *)
LEMMA AddSlotKeeps ==
  ASSUME AddSlot, TypesOK, ServerInv
  PROVE  TypesOK' /\ ServerInv'
<1> USE DEF serverVars, workerVars, peerVars, appVars, disconnectVars, Goes
<1> SUFFICES ASSUME ServerTypes, SlotTypes, WorkTypes, KernelTypes, PeerTypes, CountTypes,
                    AppTypes, Server, Slotted, Queued, AtSlot, Stdin, Announced, Counted,
                    Garbled, Ready, Untouched
             PROVE  TypesOK' /\ ServerInv'
  BY DEF TypesOK, ServerInv
<1>1. /\ worker \in Building /\ worker' \in Building \cup {"select"}
      /\ UNCHANGED <<serverVars, Readbytes, reading, ClientsArray, file, queue, peerVars,
                     appVars, alive>>
  BY DEF AddSlot, Building
<1>a. /\ worker' = "compare" /\ UNCHANGED <<max_sd, slot>> /\ slot \in Slots /\ Client.Fd \in Fds
      /\ readfds' = readfds \cup {Client.Fd}
  BY AtClient, FdsAre DEF AddSlot
<1>2. SlotTypes'
  BY <1>1, <1>a DEF SlotTypes
<1>3. WorkTypes'
  BY <1>1, <1>a, FdsAre DEF WorkTypes
<1>4. AtSlot'
  BY <1>1, <1>a DEF AtSlot, Client, Building
<1>5. Stdin'
  BY <1>1, <1>a, FdsAre DEF Stdin, Building
<1> QED BY <1>1, <1>2, <1>3, <1>4, <1>5, BuildingKeeps DEF TypesOK, ServerInv

(* It is compared with the largest,                                        *)
LEMMA CompareSlotKeeps ==
  ASSUME CompareSlot, TypesOK, ServerInv
  PROVE  TypesOK' /\ ServerInv'
<1> USE DEF serverVars, workerVars, peerVars, appVars, disconnectVars, Goes
<1> SUFFICES ASSUME ServerTypes, SlotTypes, WorkTypes, KernelTypes, PeerTypes, CountTypes,
                    AppTypes, Server, Slotted, Queued, AtSlot, Stdin, Announced, Counted,
                    Garbled, Ready, Untouched
             PROVE  TypesOK' /\ ServerInv'
  BY DEF TypesOK, ServerInv
<1>1. /\ worker \in Building /\ worker' \in Building \cup {"select"}
      /\ UNCHANGED <<serverVars, Readbytes, reading, ClientsArray, file, queue, peerVars,
                     appVars, alive>>
  BY DEF CompareSlot, Building
<1>a. /\ worker' \in {"max slot", "test slot"} /\ UNCHANGED <<readfds, max_sd>>
      /\ slot \in Slots /\ slot' \in {slot, slot + 1} /\ (worker' = "max slot" => slot' = slot)
  BY DEF CompareSlot, AtSlot
<1>2. SlotTypes'
  <2>1. slot \in Nat /\ slot + 1 \in Nat
    BY DEF SlotTypes
  <2>2. slot' \in Nat
    BY <1>a, <2>1
  <2> QED BY <1>1, <2>2 DEF SlotTypes
<1>3. WorkTypes'
  BY <1>1, <1>a, FdsAre DEF WorkTypes
<1>4. AtSlot'
  BY <1>1, <1>a DEF AtSlot, Client, Building
<1>5. Stdin'
  BY <1>1, <1>a, FdsAre DEF Stdin, Building
<1> QED BY <1>1, <1>2, <1>3, <1>4, <1>5, BuildingKeeps DEF TypesOK, ServerInv

(* and becomes the largest.                                               *)
LEMMA MaxSlotKeeps ==
  ASSUME MaxSlot, TypesOK, ServerInv
  PROVE  TypesOK' /\ ServerInv'
<1> USE DEF serverVars, workerVars, peerVars, appVars, disconnectVars, Goes
<1> SUFFICES ASSUME ServerTypes, SlotTypes, WorkTypes, KernelTypes, PeerTypes, CountTypes,
                    AppTypes, Server, Slotted, Queued, AtSlot, Stdin, Announced, Counted,
                    Garbled, Ready, Untouched
             PROVE  TypesOK' /\ ServerInv'
  BY DEF TypesOK, ServerInv
<1>1. /\ worker \in Building /\ worker' \in Building \cup {"select"}
      /\ UNCHANGED <<serverVars, Readbytes, reading, ClientsArray, file, queue, peerVars,
                     appVars, alive>>
  BY DEF MaxSlot, Building
<1>a. /\ worker' = "test slot" /\ UNCHANGED readfds /\ max_sd' = Client.Fd
      /\ slot \in Slots /\ slot' = slot + 1 /\ Client.Fd \in Int
  BY FdOfSlot DEF MaxSlot, AtSlot, Client
<1>2. SlotTypes'
  <2>1. slot \in Nat /\ slot + 1 \in Nat
    BY DEF SlotTypes
  <2>2. slot' \in Nat
    BY <1>a, <2>1
  <2> QED BY <1>1, <2>2 DEF SlotTypes
<1>3. WorkTypes'
  BY <1>1, <1>a, FdsAre DEF WorkTypes
<1>4. AtSlot'
  BY <1>1, <1>a DEF AtSlot, Client, Building
<1>5. Stdin'
  BY <1>1, <1>a, FdsAre DEF Stdin, Building
<1> QED BY <1>1, <1>2, <1>3, <1>4, <1>5, BuildingKeeps DEF TypesOK, ServerInv

(* select() is called.                                                     *)
LEMMA SelectKeeps ==
  ASSUME Select, TypesOK, ServerInv
  PROVE  TypesOK' /\ ServerInv'
<1> USE DEF serverVars, workerVars, peerVars, appVars, disconnectVars, Goes
<1> SUFFICES ASSUME ServerTypes, SlotTypes, WorkTypes, KernelTypes, PeerTypes, CountTypes,
                    AppTypes, Server, Slotted, Queued, AtSlot, Stdin, Announced, Counted,
                    Garbled, Ready, Untouched
             PROVE  TypesOK' /\ ServerInv'
  BY DEF TypesOK, ServerInv
<1>1. ServerTypes' /\ SlotTypes' /\ WorkTypes' /\ KernelTypes' /\ PeerTypes' /\
      CountTypes' /\ AppTypes' /\ Untouched'
  BY DEF Select, ServerTypes, SlotTypes, WorkTypes, KernelTypes, PeerTypes,
         CountTypes, AppTypes, Untouched
<1>2. Slotted' /\ Queued'
  BY DEF Select, Slotted, Queued
<1>3. Server'
  BY DEF Select, Server, ServerTypes, KernelTypes
<1>4. AtSlot'
  BY DEF Select, AtSlot, Client, SlotTypes
<1>5. Announced'
  BY DEF Select, Announced, Slotted, AtSlot, SlotTypes, PeerTypes, AppTypes
<1>6. Counted'
  BY DEF Select, Counted, InHand, Client, AtSlot, SlotTypes, CountTypes, AppTypes
<1>7. Ready'
  BY DEF Select, Ready, Ahead, Readable, HasNews, Listening, Client, SlotTypes, WorkTypes,
         KernelTypes, PeerTypes, CountTypes
<1>s1. Stdin'
  BY FdsAre DEF Select, Stdin, Client, AtSlot
<1>g1. Garbled'
  BY DEF Select, Garbled, Client, AtSlot, PeerTypes
<1> QED BY <1>s1, <1>g1, <1>1, <1>2, <1>3, <1>4, <1>5, <1>6, <1>7 DEF TypesOK, ServerInv

(* select() returns: everything left in the set is readable.               *)
LEMMA WakesKeeps ==
  ASSUME Wakes, TypesOK, ServerInv
  PROVE  TypesOK' /\ ServerInv'
<1> USE DEF serverVars, workerVars, peerVars, appVars, disconnectVars, Goes
<1> SUFFICES ASSUME ServerTypes, SlotTypes, WorkTypes, KernelTypes, PeerTypes, CountTypes,
                    AppTypes, Server, Slotted, Queued, AtSlot, Stdin, Announced, Counted,
                    Garbled, Ready, Untouched
             PROVE  TypesOK' /\ ServerInv'
  BY DEF TypesOK, ServerInv
<1>1. ServerTypes' /\ SlotTypes' /\ KernelTypes' /\ PeerTypes' /\ CountTypes' /\
      AppTypes' /\ Untouched'
  BY DEF Wakes, ServerTypes, SlotTypes, KernelTypes, PeerTypes, CountTypes, AppTypes, Untouched
<1>2. Slotted' /\ Queued'
  BY DEF Wakes, Slotted, Queued
<1>f. readfds' \subseteq Found \cup {0} /\ (0 \in readfds' => 0 \in readfds)
      /\ Found \subseteq readfds \cap Fds /\ \A fd \in Found : Readable(fd)
  <2>1. Found \subseteq readfds \cap Fds /\ \A fd \in Found : Readable(fd)
    <3>1. ~ (0 < 0)
      OBVIOUS
    <3> QED BY <3>1 DEF Found, Watched, WorkTypes
  <2>2. readfds' \subseteq Found \cup {0} /\ (0 \in readfds' => 0 \in readfds)
    BY <2>1 DEF Wakes
  <2> QED BY <2>1, <2>2
<1>3. WorkTypes'
  BY <1>f DEF Wakes, WorkTypes
<1>4. Server'
  BY DEF Wakes, Server, ServerTypes, KernelTypes
<1>5. AtSlot'
  BY DEF Wakes, AtSlot, Client, SlotTypes
<1>6. Announced'
  BY DEF Wakes, Announced, Slotted, AtSlot, SlotTypes, PeerTypes, AppTypes
<1>7. Counted'
  BY DEF Wakes, Counted, InHand, Client, AtSlot, SlotTypes, CountTypes, AppTypes
<1>8. Ready'
  <2>1. \A fd : Readable(fd)' = Readable(fd)
    BY DEF Wakes, Readable, HasNews
  <2>2. \A fd \in readfds' \cap Fds : Readable(fd) /\ file[fd] # "free"
    BY <1>f, FdsAre, PeersAre DEF Readable
  <2>a. \A i \in Slots : ClientsArray[i].Fd > 0 => ClientsArray[i].Fd \in Fds
    BY InSlot
  <2>3. ServerSocket \in readfds' /\ Listening => queue # <<>>
    BY <2>2, PeersAre DEF Listening, Readable, HasNews
  <2>4. Listening' = Listening /\ worker' = "check"
    BY DEF Wakes, Listening
  <2> QED BY <2>a, <2>1, <2>2, <2>3, <2>4 DEF Wakes, Ready
<1>s1. Stdin'
  BY <1>f DEF Wakes, Stdin
<1>g1. Garbled'
  BY DEF Wakes, Garbled, Client, AtSlot, PeerTypes
<1> QED BY <1>s1, <1>g1, <1>1, <1>2, <1>3, <1>4, <1>5, <1>6, <1>7, <1>8 DEF TypesOK, ServerInv

(* select() returns because of the standard input, perhaps only of that.   *)
LEMMA StdinWakesKeeps ==
  ASSUME StdinWakes, TypesOK, ServerInv
  PROVE  TypesOK' /\ ServerInv'
<1> USE DEF serverVars, workerVars, peerVars, appVars, disconnectVars, Goes
<1> SUFFICES ASSUME ServerTypes, SlotTypes, WorkTypes, KernelTypes, PeerTypes, CountTypes,
                    AppTypes, Server, Slotted, Queued, AtSlot, Stdin, Announced, Counted,
                    Garbled, Ready, Untouched
             PROVE  TypesOK' /\ ServerInv'
  BY DEF TypesOK, ServerInv
<1>1. ServerTypes' /\ SlotTypes' /\ KernelTypes' /\ PeerTypes' /\ CountTypes' /\
      AppTypes' /\ Untouched'
  BY DEF StdinWakes, ServerTypes, SlotTypes, KernelTypes, PeerTypes, CountTypes, AppTypes, Untouched
<1>2. Slotted' /\ Queued'
  BY DEF StdinWakes, Slotted, Queued
<1>f. readfds' \subseteq Found \cup {0} /\ (0 \in readfds' => 0 \in readfds)
      /\ Found \subseteq readfds \cap Fds /\ \A fd \in Found : Readable(fd)
  <2>1. Found \subseteq readfds \cap Fds /\ \A fd \in Found : Readable(fd)
    <3>1. ~ (0 < 0)
      OBVIOUS
    <3> QED BY <3>1 DEF Found, Watched, WorkTypes
  <2>2. readfds' \subseteq Found \cup {0} /\ (0 \in readfds' => 0 \in readfds)
    BY <2>1 DEF StdinWakes
  <2> QED BY <2>1, <2>2
<1>3. WorkTypes'
  BY <1>f DEF StdinWakes, WorkTypes
<1>4. Server'
  BY DEF StdinWakes, Server, ServerTypes, KernelTypes
<1>5. AtSlot'
  BY DEF StdinWakes, AtSlot, Client, SlotTypes
<1>6. Announced'
  BY DEF StdinWakes, Announced, Slotted, AtSlot, SlotTypes, PeerTypes, AppTypes
<1>7. Counted'
  BY DEF StdinWakes, Counted, InHand, Client, AtSlot, SlotTypes, CountTypes, AppTypes
<1>8. Ready'
  <2>1. \A fd : Readable(fd)' = Readable(fd)
    BY DEF StdinWakes, Readable, HasNews
  <2>2. \A fd \in readfds' \cap Fds : Readable(fd) /\ file[fd] # "free"
    BY <1>f, FdsAre, PeersAre DEF Readable
  <2>a. \A i \in Slots : ClientsArray[i].Fd > 0 => ClientsArray[i].Fd \in Fds
    BY InSlot
  <2>3. ServerSocket \in readfds' /\ Listening => queue # <<>>
    BY <2>2, PeersAre DEF Listening, Readable, HasNews
  <2>4. Listening' = Listening /\ worker' = "check"
    BY DEF StdinWakes, Listening
  <2> QED BY <2>a, <2>1, <2>2, <2>3, <2>4 DEF StdinWakes, Ready
<1>s1. Stdin'
  BY <1>f DEF StdinWakes, Stdin
<1>g1. Garbled'
  BY DEF StdinWakes, Garbled, Client, AtSlot, PeerTypes
<1> QED BY <1>s1, <1>g1, <1>1, <1>2, <1>3, <1>4, <1>5, <1>6, <1>7, <1>8 DEF TypesOK, ServerInv

(* A signal interrupts select(): nothing is promised of the set.           *)
LEMMA InterruptedKeeps ==
  ASSUME Interrupted, TypesOK, ServerInv
  PROVE  TypesOK' /\ ServerInv'
<1> USE DEF serverVars, workerVars, peerVars, appVars, disconnectVars, Goes
<1> SUFFICES ASSUME ServerTypes, SlotTypes, WorkTypes, KernelTypes, PeerTypes, CountTypes,
                    AppTypes, Server, Slotted, Queued, AtSlot, Stdin, Announced, Counted,
                    Garbled, Ready, Untouched
             PROVE  TypesOK' /\ ServerInv'
  BY DEF TypesOK, ServerInv
<1>1. ServerTypes' /\ SlotTypes' /\ WorkTypes' /\ KernelTypes' /\ PeerTypes' /\
      CountTypes' /\ AppTypes' /\ Untouched'
  BY DEF Interrupted, ServerTypes, SlotTypes, WorkTypes, KernelTypes, PeerTypes,
         CountTypes, AppTypes, Untouched
<1>2. Slotted' /\ Queued'
  BY DEF Interrupted, Slotted, Queued
<1>3. Server'
  BY DEF Interrupted, Server, ServerTypes, KernelTypes
<1>4. AtSlot'
  BY DEF Interrupted, AtSlot, Client, SlotTypes
<1>5. Announced'
  BY DEF Interrupted, Announced, Slotted, AtSlot, SlotTypes, PeerTypes, AppTypes
<1>6. Counted'
  BY DEF Interrupted, Counted, InHand, Client, AtSlot, SlotTypes, CountTypes, AppTypes
<1>7. Ready'
  BY DEF Interrupted, Ready, Ahead, Readable, HasNews, Listening, Client, SlotTypes, WorkTypes,
         KernelTypes, PeerTypes, CountTypes
<1>s1. Stdin'
  BY FdsAre DEF Interrupted, Stdin, Client, AtSlot
<1>g1. Garbled'
  BY DEF Interrupted, Garbled, Client, AtSlot, PeerTypes
<1> QED BY <1>s1, <1>g1, <1>1, <1>2, <1>3, <1>4, <1>5, <1>6, <1>7 DEF TypesOK, ServerInv

(* The worker looks for a free slot.                                       *)
LEMMA CheckKeeps ==
  ASSUME Check, TypesOK, ServerInv
  PROVE  TypesOK' /\ ServerInv'
<1> USE DEF serverVars, workerVars, peerVars, appVars, disconnectVars, Goes
<1> SUFFICES ASSUME ServerTypes, SlotTypes, WorkTypes, KernelTypes, PeerTypes, CountTypes,
                    AppTypes, Server, Slotted, Queued, AtSlot, Stdin, Announced, Counted,
                    Garbled, Ready, Untouched
             PROVE  TypesOK' /\ ServerInv'
  BY DEF TypesOK, ServerInv
<1>q. FreeSlots # {} => Min(FreeSlots) \in FreeSlots
  BY FdsAre, Least DEF FreeSlots
<1>1. ServerTypes' /\ WorkTypes' /\ KernelTypes' /\ PeerTypes' /\ CountTypes' /\
      AppTypes' /\ Untouched'
  BY DEF Check, ServerTypes, WorkTypes, KernelTypes, PeerTypes, CountTypes, AppTypes, Untouched
<1>2. Slotted' /\ Queued'
  BY DEF Check, Slotted, Queued
<1>3. SlotTypes'
  BY <1>q, FdsAre DEF Check, SlotTypes, FreeSlots
<1>4. Server'
  BY DEF Check, Server, ServerTypes, KernelTypes
<1>5. AtSlot'
  <2>1. CASE ServerSocket \notin readfds
    <3>1. worker' = "scan" /\ slot' > 0
      BY <2>1 DEF Check
    <3> QED BY <3>1 DEF AtSlot
  <2>2. CASE ServerSocket \in readfds /\ FreeSlots # {}
    BY <1>q, <2>2 DEF Check, AtSlot, FreeSlots, Client
  <2>3. CASE ServerSocket \in readfds /\ FreeSlots = {}
    <3>1. \A i \in Slots : ClientsArray[i].Fd > 0
      <4>1. \A i \in Slots : ClientsArray[i].Fd \in Int
        BY FdOfSlot
      <4> QED BY <2>3, <4>1 DEF FreeSlots
    <3> QED BY <2>3, <3>1 DEF Check, AtSlot
  <2> QED BY <2>1, <2>2, <2>3
<1>6. Announced'
  BY DEF Check, Announced, Slotted, AtSlot, SlotTypes, PeerTypes, AppTypes
<1>7. Counted'
  BY DEF Check, Counted, InHand, Client, AtSlot, SlotTypes, CountTypes, AppTypes
<1>8. Ready'
  BY DEF Check, Ready, Ahead, Readable, HasNews, Listening, Client, SlotTypes, WorkTypes,
         KernelTypes, PeerTypes, CountTypes
<1>s1. Stdin'
  BY FdsAre DEF Check, Stdin, Client, AtSlot
<1>g1. Garbled'
  BY DEF Check, Garbled, Client, AtSlot, PeerTypes
<1> QED BY <1>s1, <1>g1, <1>1, <1>2, <1>3, <1>4, <1>5, <1>6, <1>7, <1>8 DEF TypesOK, ServerInv

(* accept() gives the first peer a descriptor that was free, and a slot    *)
(* that was free.                                                          *)
LEMMA AcceptKeeps ==
  ASSUME Accept, TypesOK, ServerInv
  PROVE  TypesOK' /\ ServerInv'
<1> USE DEF serverVars, workerVars, peerVars, appVars, disconnectVars, Goes
<1> SUFFICES ASSUME ServerTypes, SlotTypes, WorkTypes, KernelTypes, PeerTypes, CountTypes,
                    AppTypes, Server, Slotted, Queued, AtSlot, Stdin, Announced, Counted,
                    Garbled, Ready, Untouched
             PROVE  TypesOK' /\ ServerInv'
  BY DEF TypesOK, ServerInv
<1>q. queue # <<>> =>
        /\ Len(queue) \in Nat \ {0} /\ Head(queue) = queue[1] /\ Head(queue) \in Peers
        /\ Tail(queue) \in Seq(Peers) /\ Len(Tail(queue)) = Len(queue) - 1
        /\ \A i \in 1..Len(Tail(queue)) : Tail(queue)[i] = queue[i + 1]
        /\ peer[Head(queue)] = "queued"
  <2>1. queue \in Seq(Peers) BY DEF KernelTypes
  <2> QED BY <2>1, HeadGone DEF Queued
<1>n. Listening /\ queue # <<>> => NewFd \in Fds /\ file[NewFd] = "free"
  BY FreeFd
<1>s. slot \in Slots /\ Client.Fd <= 0 /\ worker = "accept"
  BY DEF Accept, AtSlot
<1> DEFINE Ok == Listening /\ queue # <<>>
<1>a. Ok => /\ worker' = "connected" /\ queue' = Tail(queue)
            /\ \A i \in Slots : ClientsArray'[i] = IF i = slot THEN [Fd |-> NewFd, who |-> Head(queue)]
                                                   ELSE ClientsArray[i]
            /\ \A fd \in Fds : file'[fd] = IF fd = NewFd THEN Head(queue) ELSE file[fd]
            /\ \A p \in Peers : peer'[p] = IF p = Head(queue) THEN "accepted" ELSE peer[p]
  BY <1>q, <1>n, <1>s DEF Accept, KernelTypes, SlotTypes, PeerTypes
<1>b. ~ Ok => /\ worker' = "none" /\ UNCHANGED <<file, peer, queue>>
              /\ \A i \in Slots : /\ ClientsArray'[i].who = ClientsArray[i].who
                                  /\ ClientsArray'[i].Fd = IF i = slot THEN -1 ELSE ClientsArray[i].Fd
  BY <1>s DEF Accept, SlotTypes
<1>c. /\ ServerSocket' = ServerSocket /\ owner' = owner /\ Status' = Status /\ told' = told /\ slot' = slot
      /\ use' = use /\ readfds' = readfds /\ taken' = taken /\ sent' = sent /\ ended' = ended /\ given' = given
  BY DEF Accept
<1>d. \A i \in Slots : ClientsArray[i].Fd > 0 =>
         /\ ClientsArray[i].Fd \in Fds /\ ClientsArray[i].who \in Peers /\ i # slot
         /\ file[ClientsArray[i].Fd] = ClientsArray[i].who /\ peer[ClientsArray[i].who] = "accepted"
         /\ Ok => ClientsArray[i].Fd # NewFd /\ ClientsArray[i].who # Head(queue)
  <2>1. \A i \in Slots : ClientsArray[i].Fd > 0 =>
           /\ ClientsArray[i].Fd \in Fds /\ ClientsArray[i].who \in Peers
           /\ file[ClientsArray[i].Fd] = ClientsArray[i].who /\ peer[ClientsArray[i].who] = "accepted"
    BY InSlot
  <2>2. \A i \in Slots : ClientsArray[i].Fd > 0 => i # slot
    BY <1>s, FdOfSlot DEF Client
  <2> QED BY <1>q, <1>n, <2>1, <2>2, PeersAre
<1>e. \A i \in Slots : /\ i # slot => ClientsArray'[i].Fd = ClientsArray[i].Fd /\ ClientsArray'[i].who = ClientsArray[i].who
                       /\ i = slot => IF Ok THEN ClientsArray'[i].Fd = NewFd /\ ClientsArray'[i].who = Head(queue)
                                      ELSE ClientsArray'[i].Fd = -1
  BY <1>a, <1>b
<1> HIDE DEF Ok
<1>1. ServerTypes' /\ WorkTypes' /\ CountTypes' /\ AppTypes' /\ Untouched'
  BY DEF Accept, ServerTypes, WorkTypes, CountTypes, AppTypes, Untouched
<1>2. SlotTypes'
  <2>1. \A c \in [Fd : Fds \cup {0, -1}, who : Peers \cup {None}] :
          [c EXCEPT !.Fd = -1] \in [Fd : Fds \cup {0, -1}, who : Peers \cup {None}]
    OBVIOUS
  <2>2. ClientsArray[slot] \in [Fd : Fds \cup {0, -1}, who : Peers \cup {None}]
    BY <1>s DEF SlotTypes
  <2>3. CASE Listening /\ queue # <<>>
    BY <1>q, <1>n, <1>s, <2>3 DEF Accept, SlotTypes
  <2>4. CASE ~ Listening
    BY <1>s, <2>1, <2>2, <2>4 DEF Accept, SlotTypes
  <2> QED BY <2>3, <2>4 DEF Accept
<1>3. KernelTypes'
  <2>1. CASE Listening /\ queue # <<>>
    <3>1. Head(queue) \in Peers /\ queue' \in Seq(Peers)
      BY <1>q, <1>a, <2>1 DEF Ok
    <3>2. file' = [file EXCEPT ![NewFd] = Head(queue)]
      BY <2>1 DEF Accept
    <3> QED BY <3>1, <3>2 DEF KernelTypes
  <2>2. CASE ~ Listening
    BY <2>2 DEF Accept, KernelTypes
  <2> QED BY <2>1, <2>2 DEF Accept
<1>4. PeerTypes'
  <2>1. CASE Listening /\ queue # <<>>
    BY <1>q, <2>1 DEF Accept, PeerTypes
  <2>2. CASE ~ Listening
    BY <2>2 DEF Accept, PeerTypes
  <2> QED BY <2>1, <2>2 DEF Accept
<1>5. Server'
  <2>1. owner # "construct"
    BY <1>s DEF Server
  <2>2. CASE Ok
    BY <1>a, <1>c, <1>n, <1>q, <2>1, <2>2, PeersAre DEF Server, Ok, Listening
  <2>3. CASE ~ Ok
    BY <1>b, <1>c, <2>1, <2>3 DEF Server
  <2> QED BY <2>2, <2>3
<1>6. Slotted'
  <2>1. CASE Ok
    <3>1. NewFd \in Fds /\ NewFd > 0 /\ Head(queue) \in Peers /\ peer[Head(queue)] = "queued"
      BY <2>1, <1>n, <1>q, FdsAre DEF Ok
    <3>2. \A i \in Slots : ClientsArray'[i].Fd > 0 =>
            ClientsArray'[i].who \in Peers /\ file'[ClientsArray'[i].Fd] = ClientsArray'[i].who
      BY <1>a, <1>d, <1>e, <2>1, <3>1
    <3>3. \A i, j \in Slots :
            ClientsArray'[i].Fd > 0 /\ ClientsArray'[i].Fd = ClientsArray'[j].Fd => i = j
      BY <1>d, <1>e, <2>1, <3>1 DEF Slotted
    <3>4. \A fd \in Fds : file'[fd] \in Peers =>
            peer'[file'[fd]] = "accepted" /\ \E i \in Slots : ClientsArray'[i].Fd = fd
      <4>1. TAKE fd \in Fds
      <4>2. CASE fd = NewFd
        BY <1>a, <1>e, <1>s, <2>1, <3>1, <4>2
      <4>3. CASE fd # NewFd /\ file'[fd] \in Peers
        <5>1. file'[fd] = file[fd] /\ peer[file[fd]] = "accepted"
          BY <1>a, <2>1, <4>3 DEF Slotted
        <5>2. PICK i \in Slots : ClientsArray[i].Fd = fd
          BY <4>3, <5>1 DEF Slotted
        <5>3. i # slot
          BY <1>d, <5>2, FdsAre
        <5> QED BY <1>a, <1>e, <2>1, <4>3, <5>1, <5>2, <5>3
      <4> QED BY <4>2, <4>3
    <3>5. \A fd, gd \in Fds : file'[fd] \in Peers /\ file'[fd] = file'[gd] => fd = gd
      <4>1. \A fd \in Fds : file[fd] # Head(queue)
        BY <3>1 DEF Slotted
      <4> QED BY <1>a, <2>1, <3>1, <4>1 DEF Slotted
    <3> QED BY <3>2, <3>3, <3>4, <3>5 DEF Slotted
  <2>2. CASE ~ Ok
    <3>1. \A i \in Slots : ClientsArray'[i].Fd > 0 => i # slot
      BY <1>e, <2>2
    <3>2. \A fd \in Fds : file[fd] \in Peers => \E i \in Slots : i # slot /\ ClientsArray[i].Fd = fd
      <4>1. \A fd \in Fds : file[fd] \in Peers => \E i \in Slots : ClientsArray[i].Fd = fd /\ ClientsArray[i].Fd > 0
        <5>1. \A fd \in Fds : fd > 0
          BY FdsAre
        <5>2. \A fd \in Fds : file[fd] \in Peers => \E i \in Slots : ClientsArray[i].Fd = fd
          BY DEF Slotted
        <5> QED BY ONLY <5>1, <5>2
      <4> QED BY <1>d, <4>1
    <3> QED BY <1>b, <1>e, <2>2, <3>1, <3>2 DEF Slotted
  <2> QED BY <2>1, <2>2
<1>7. Queued'
  <2>1. CASE Ok
    <3>1. Len(queue) \in Nat \ {0} /\ Len(queue') = Len(queue) - 1 /\ \A i \in 1..Len(queue') : queue'[i] = queue[i + 1]
      BY <1>q, <1>a, <2>1 DEF Ok
    <3>2. \A i \in 1..Len(queue') : i + 1 \in 1..Len(queue) /\ i \in Int /\ 1 \in 1..Len(queue) /\ i + 1 # 1
      BY <3>1
    <3>3. \A i \in 1..Len(queue') : queue'[i] # Head(queue) /\ peer[queue'[i]] = "queued" /\ queue'[i] \in Peers
      BY <1>q, <2>1, <1>a, <3>1, <3>2 DEF Queued, Ok
    <3>4. \A i, j \in 1..Len(queue') : queue'[i] = queue'[j] => i = j
      BY <3>1, <3>2 DEF Queued
    <3> QED BY <1>a, <2>1, <3>3, <3>4 DEF Queued
  <2>2. CASE ~ Ok
    BY <1>b, <2>2 DEF Queued
  <2> QED BY <2>1, <2>2
<1>8. AtSlot'
  <2>1. CASE Ok
    <3>1. NewFd > 0
      BY <1>n, <2>1, FdsAre DEF Ok
    <3>2. Client'.Fd > 0
      BY <1>a, <1>c, <1>s, <2>1, <3>1 DEF Client
    <3> QED BY <1>a, <1>c, <1>s, <2>1, <3>2 DEF AtSlot
  <2>2. CASE ~ Ok
    BY <1>b, <2>2 DEF AtSlot
  <2> QED BY <2>1, <2>2
<1>9. Announced'
  <2>1. CASE Ok
    <3>1. told[Head(queue)] = "nothing" /\ Head(queue) \in Peers
      BY <1>q, <2>1 DEF Announced, Ok
    <3>2. \A i \in Slots : ClientsArray'[i].Fd > 0 => told[ClientsArray'[i].who] = IF i = slot THEN "nothing" ELSE "connected"
      BY <1>d, <1>e, <1>s, <2>1, <3>1 DEF Announced
    <3> QED BY <1>a, <1>c, <2>1, <3>2 DEF Announced
  <2>2. CASE ~ Ok
    BY <1>b, <1>c, <1>d, <1>e, <1>s, <2>2 DEF Announced
  <2> QED BY <2>1, <2>2
<1>10. Counted'
  BY <1>q, <1>n, FdsAre, PeersAre DEF Accept, Counted, InHand, Client, AtSlot,
         SlotTypes, CountTypes, AppTypes
<1>11. Ready'
  <2>1. CASE Ok /\ ~ use.interrupts
    <3>1. \A fd \in readfds : fd # NewFd
      BY <1>n, <1>s, <2>1 DEF Ready, Ok
    <3>2. \A fd \in Fds : fd # NewFd /\ file[fd] \in Peers /\ Readable(fd) => Readable(fd)'
      BY <1>a, <1>c, <2>1, PeersAre DEF Readable, HasNews
    <3>3. \A i \in Slots : ClientsArray'[i].Fd > 0 /\ ClientsArray'[i].Fd \in readfds =>
            ClientsArray'[i].Fd = ClientsArray[i].Fd /\ ClientsArray[i].Fd > 0
      BY <1>e, <2>1, <3>1, FdsAre DEF WorkTypes
    <3>4. \A i \in Slots : ClientsArray'[i].Fd > 0 /\ ClientsArray'[i].Fd \in readfds =>
            Readable(ClientsArray[i].Fd)'
      BY <1>d, <1>s, <2>1, <3>1, <3>2, <3>3 DEF Ready, Ahead
    <3> QED BY <1>a, <1>c, <2>1, <3>4 DEF Ready
  <2>2. CASE ~ Ok
    BY <1>b, <2>2 DEF Ready, Ahead
  <2>3. CASE use.interrupts
    BY <1>c, <2>3 DEF Ready
  <2> QED BY <2>1, <2>2, <2>3
<1>s1. Stdin'
  <2>1. 0 \in readfds => ~ Ok
    BY FdsAre DEF Stdin, Ok, Listening
  <2> QED BY <1>b, <1>c, <2>1 DEF Stdin
<1>g1. Garbled'
  BY DEF Accept, Garbled, Client, AtSlot, PeerTypes
<1> QED BY <1>s1, <1>g1, <1>1, <1>2, <1>3, <1>4, <1>5, <1>6, <1>7, <1>8, <1>9, <1>10, <1>11 DEF
         TypesOK, ServerInv

(* A refused peer leaves the queue and had no slot.                        *)
LEMMA RefuseKeeps ==
  ASSUME Refuse, TypesOK, ServerInv
  PROVE  TypesOK' /\ ServerInv'
<1> USE DEF serverVars, workerVars, peerVars, appVars, disconnectVars, Goes
<1> SUFFICES ASSUME ServerTypes, SlotTypes, WorkTypes, KernelTypes, PeerTypes, CountTypes,
                    AppTypes, Server, Slotted, Queued, AtSlot, Stdin, Announced, Counted,
                    Garbled, Ready, Untouched
             PROVE  TypesOK' /\ ServerInv'
  BY DEF TypesOK, ServerInv
<1>q. queue # <<>> =>
        /\ Len(queue) \in Nat \ {0} /\ Head(queue) = queue[1] /\ Head(queue) \in Peers
        /\ Tail(queue) \in Seq(Peers) /\ Len(Tail(queue)) = Len(queue) - 1
        /\ \A i \in 1..Len(Tail(queue)) : Tail(queue)[i] = queue[i + 1]
        /\ peer[Head(queue)] = "queued"
  <2>1. queue \in Seq(Peers) BY DEF KernelTypes
  <2> QED BY <2>1, HeadGone DEF Queued
<1>s. worker = "refuse" /\ worker' = "scan"
  BY DEF Refuse
<1> DEFINE Ok == Listening /\ queue # <<>>
<1>a. Ok => /\ queue' = Tail(queue)
            /\ \A p \in Peers : peer'[p] = IF p = Head(queue) THEN "refused" ELSE peer[p]
  BY <1>q DEF Refuse, PeerTypes
<1>b. ~ Ok => UNCHANGED <<peer, queue>>
  BY DEF Refuse
<1>c. UNCHANGED <<ClientsArray, file, readfds, taken, sent, ended, use, told>> /\ slot' = 1
  BY DEF Refuse
<1> HIDE DEF Ok
<1>1. ServerTypes' /\ WorkTypes' /\ CountTypes' /\ AppTypes' /\ Untouched'
  BY DEF Refuse, ServerTypes, WorkTypes, CountTypes, AppTypes, Untouched
<1>2. SlotTypes'
  BY <1>q, FdsAre, PeersAre DEF Refuse, SlotTypes
<1>3. KernelTypes'
  BY <1>q, FdsAre, PeersAre DEF Refuse, KernelTypes
<1>4. PeerTypes'
  BY <1>q, FdsAre, PeersAre DEF Refuse, PeerTypes
<1>5. Server'
  BY <1>q, FdsAre, PeersAre DEF Refuse, Server, ServerTypes, KernelTypes
<1>6. Slotted'
  <2>1. CASE Ok
    <3>1. \A p \in Peers : peer[p] = "accepted" => peer'[p] = "accepted"
      BY <1>a, <1>q, <2>1 DEF Ok
    <3> QED BY <1>c, <3>1 DEF Slotted
  <2>2. CASE ~ Ok
    BY <1>b, <1>c, <2>2 DEF Slotted
  <2> QED BY <2>1, <2>2
<1>7. Queued'
  <2>1. CASE Ok
    <3>1. Len(queue) \in Nat \ {0} /\ Len(queue') = Len(queue) - 1 /\ \A i \in 1..Len(queue') : queue'[i] = queue[i + 1]
      BY <1>q, <1>a, <2>1 DEF Ok
    <3>2. \A i \in 1..Len(queue') : i + 1 \in 1..Len(queue) /\ i \in Int /\ 1 \in 1..Len(queue) /\ i + 1 # 1
      BY <3>1
    <3>3. \A i \in 1..Len(queue') : queue'[i] # Head(queue) /\ peer[queue'[i]] = "queued" /\ queue'[i] \in Peers
      BY <1>q, <2>1, <1>a, <3>1, <3>2 DEF Queued, Ok
    <3>4. \A i, j \in 1..Len(queue') : queue'[i] = queue'[j] => i = j
      BY <3>1, <3>2 DEF Queued
    <3> QED BY <1>a, <2>1, <3>3, <3>4 DEF Queued
  <2>2. CASE ~ Ok
    BY <1>b, <2>2 DEF Queued
  <2> QED BY <2>1, <2>2
<1>8. AtSlot'
  BY <1>q, FdsAre, PeersAre DEF Refuse, AtSlot, Client, SlotTypes
<1>9. Announced'
  <2>1. \A p \in Peers : peer'[p] \in {"new", "queued"} => peer[p] \in {"new", "queued"}
    BY <1>a, <1>b
  <2> QED BY <1>c, <1>s, <2>1 DEF Announced
<1>10. Counted'
  BY <1>q, FdsAre, PeersAre DEF Refuse, Counted, InHand, Client, AtSlot, SlotTypes,
         CountTypes, AppTypes
<1>11. Ready'
  <2>1. \A i \in Slots : ClientsArray[i].Fd > 0 => ClientsArray[i].Fd \in Fds /\ file[ClientsArray[i].Fd] \in Peers
    BY InSlot
  <2>2. \A fd \in Fds : file[fd] \in Peers /\ Readable(fd) => Readable(fd)'
    BY <1>c, PeersAre DEF Readable, HasNews
  <2> QED BY <1>c, <1>s, <2>1, <2>2 DEF Ready, Ahead
<1>s1. Stdin'
  BY FdsAre DEF Refuse, Stdin, Client, AtSlot
<1>g1. Garbled'
  BY DEF Refuse, Garbled, Client, AtSlot, PeerTypes
<1> QED BY <1>s1, <1>g1, <1>1, <1>2, <1>3, <1>4, <1>5, <1>6, <1>7, <1>8, <1>9, <1>10, <1>11 DEF
         TypesOK, ServerInv

(* The application hears of the client, and keeps it or disconnects it.    *)
LEMMA ClientConnectedKeeps ==
  ASSUME ClientConnected, TypesOK, ServerInv
  PROVE  TypesOK' /\ ServerInv'
<1> USE DEF serverVars, workerVars, peerVars, appVars, disconnectVars, Goes
<1> SUFFICES ASSUME ServerTypes, SlotTypes, WorkTypes, KernelTypes, PeerTypes, CountTypes,
                    AppTypes, Server, Slotted, Queued, AtSlot, Stdin, Announced, Counted,
                    Garbled, Ready, Untouched
             PROVE  TypesOK' /\ ServerInv'
  BY DEF TypesOK, ServerInv
<1>q. slot \in Slots /\ Client = ClientsArray[slot] /\ Client.Fd \in Fds /\ Client.Fd > 0
      /\ Client.who \in Peers /\ file[Client.Fd] = Client.who /\ peer[Client.who] = "accepted"
      /\ \A i \in Slots : ClientsArray[i].Fd > 0 /\ ClientsArray[i].who = Client.who => i = slot
  BY AtClient DEF ClientConnected
<1>a. /\ worker = "connected" /\ worker' = "scan" /\ slot' = 1
      /\ UNCHANGED <<owner, Status, ServerSocket, peer, queue, use, readfds, taken, sent, ended, given>>
  BY DEF ClientConnected
<1> DEFINE Stays == UNCHANGED <<ClientsArray, file>> /\ told' = [told EXCEPT ![Client.who] = "connected"]
           Drops == /\ \A fd \in Fds : file'[fd] = IF fd = Client.Fd THEN "free" ELSE file[fd]
                    /\ \A i \in Slots : /\ ClientsArray'[i].who = ClientsArray[i].who
                                        /\ ClientsArray'[i].Fd = IF i = slot THEN -1 ELSE ClientsArray[i].Fd
                    /\ ClientsArray' \in [Slots -> [Fd : Fds \cup {0, -1}, who : Peers \cup {None}]]
                    /\ KernelTypes' /\ Server' /\ Slotted'
                    /\ told' = [told EXCEPT ![Client.who] = "disconnected by us"]
<1>b. Stays \/ Drops
  <2>1. CASE /\ told' = [told EXCEPT ![Client.who] = "disconnected by us"]
             /\ file' = Closed(Client.Fd)
             /\ ClientsArray' = [ClientsArray EXCEPT ![slot].Fd = -1]
    <3> HIDE DEF Stays
    <3>1. UNCHANGED <<owner, Status, ServerSocket, peer, queue>> /\ worker # "none" /\ -1 \in {0, -1}
      BY <1>a
    <3> QED BY <1>q, <2>1, <3>1, Freed
  <2> QED BY <2>1 DEF ClientConnected
<1> HIDE DEF Stays, Drops
<1>1. ServerTypes' /\ WorkTypes' /\ PeerTypes' /\ CountTypes' /\ Untouched'
  BY DEF ClientConnected, ServerTypes, WorkTypes, PeerTypes, CountTypes, Untouched
<1>2. Queued'
  BY DEF ClientConnected, Queued
<1>3. SlotTypes'
  BY <1>a, <1>b DEF Stays, Drops, SlotTypes
<1>4. KernelTypes'
  BY <1>a, <1>b DEF Stays, Drops, KernelTypes
<1>5. AppTypes'
  BY <1>q, FdsAre, PeersAre DEF ClientConnected, AppTypes
<1>6. Server'
  <2>1. CASE Stays
    BY <1>a, <2>1 DEF Stays, Server
  <2> QED BY <1>b, <2>1 DEF Drops
<1>7. Slotted'
  <2>1. CASE Stays
    BY <1>a, <2>1 DEF Stays, Slotted
  <2> QED BY <1>b, <2>1 DEF Drops
<1>8. AtSlot'
  BY <1>q, FdsAre, PeersAre DEF ClientConnected, AtSlot, Client, SlotTypes
<1>9. Announced'
  <2>1. \A p \in Peers : peer[p] \in {"new", "queued"} => told'[p] = "nothing"
    BY <1>b, <1>q DEF Announced, AppTypes, Stays, Drops
  <2>2. CASE Stays
    <3>1. \A i \in Slots : ClientsArray[i].Fd > 0 => told'[ClientsArray[i].who] = "connected"
      BY <1>a, <1>q, <2>2, InSlot DEF Announced, AppTypes, Stays
    <3> QED BY <1>a, <2>1, <2>2, <3>1 DEF Announced, Stays
  <2>3. CASE Drops
    <3>1. \A i \in Slots : ClientsArray'[i].Fd > 0 =>
            i # slot /\ ClientsArray'[i].Fd = ClientsArray[i].Fd /\ ClientsArray[i].who \in Peers
            /\ ClientsArray'[i].who = ClientsArray[i].who /\ ClientsArray[i].who # Client.who
      <4>1. \A i \in Slots : ClientsArray'[i].Fd > 0 =>
              i # slot /\ ClientsArray'[i].Fd = ClientsArray[i].Fd /\ ClientsArray'[i].who = ClientsArray[i].who
        <5>1. \A i \in Slots : /\ ClientsArray'[i].who = ClientsArray[i].who
                              /\ ClientsArray'[i].Fd = IF i = slot THEN -1 ELSE ClientsArray[i].Fd
          BY <2>3 DEF Drops
        <5>2. ~ (-1 > 0)
          OBVIOUS
        <5> QED BY <5>1, <5>2
      <4> QED BY <4>1, <1>q, InSlot
    <3>2. \A i \in Slots : ClientsArray'[i].Fd > 0 => told'[ClientsArray'[i].who] = "connected"
      <4>1. \A p \in Peers : p # Client.who => told'[p] = told[p]
        BY <2>3 DEF AppTypes, Drops
      <4>2. \A i \in Slots : ClientsArray'[i].Fd > 0 => told[ClientsArray[i].who] = "connected"
        BY <3>1 DEF Announced
      <4> QED BY <3>1, <4>1, <4>2
    <3> QED BY <1>a, <2>1, <3>2 DEF Announced
  <2> QED BY <1>b, <2>2, <2>3
<1>10. Counted'
  <2>1. \A p \in Peers : InHand(p) = 0 /\ InHand(p)' = 0
    BY <1>a DEF InHand
  <2>2. \A p \in Peers : \/ told'[p] = told[p]
                         \/ told'[p] \in {"connected", "disconnected by us"}
    BY <1>b DEF Stays, Drops, AppTypes
  <2>3. \A p \in Peers : /\ told'[p] = "nothing" => told[p] = "nothing"
                         /\ told'[p] = "disconnected" => told[p] = "disconnected"
    BY <2>2
  <2> QED BY <1>a, <2>1, <2>3 DEF Counted
<1>11. Ready'
  <2>1. CASE Stays
    <3>1. \A fd : Readable(fd)' = Readable(fd)
      BY <1>a, <2>1 DEF Stays, Readable, HasNews
    <3> QED BY <1>a, <2>1, <3>1 DEF Ready, Ahead, Stays
  <2>2. CASE Drops
    <3>1. \A i \in Slots : ClientsArray'[i].Fd > 0 /\ ClientsArray'[i].Fd \in readfds =>
            /\ i # slot /\ ClientsArray'[i].Fd = ClientsArray[i].Fd /\ ClientsArray[i].Fd \in Fds
            /\ file[ClientsArray[i].Fd] \in Peers /\ ClientsArray[i].Fd # Client.Fd
      <4>1. \A i \in Slots : ClientsArray'[i].Fd > 0 /\ ClientsArray'[i].Fd \in readfds =>
              i # slot /\ ClientsArray'[i].Fd = ClientsArray[i].Fd /\ ClientsArray[i].Fd > 0
        <5>1. ~ (-1 > 0)
          OBVIOUS
        <5> QED BY <2>2, <5>1 DEF Drops
      <4>2. \A i \in Slots : i # slot /\ ClientsArray[i].Fd > 0 => ClientsArray[i].Fd # Client.Fd
        BY <1>q DEF Slotted
      <4> QED BY <4>1, <4>2, InSlot
    <3>2. \A fd \in Fds : file[fd] \in Peers /\ fd # Client.Fd /\ Readable(fd) => Readable(fd)'
      BY <1>a, <2>2, PeersAre DEF Readable, HasNews, Drops
    <3> QED BY <1>a, <3>1, <3>2 DEF Ready, Ahead
  <2> QED BY <1>b, <2>1, <2>2
<1>s1. Stdin'
  BY FdsAre DEF ClientConnected, Stdin, Client, AtSlot
<1>g1. Garbled'
  BY DEF ClientConnected, Garbled, Client, AtSlot, PeerTypes
<1> QED BY <1>s1, <1>g1, <1>1, <1>2, <1>3, <1>4, <1>5, <1>6, <1>7, <1>8, <1>9, <1>10, <1>11 DEF
         TypesOK, ServerInv

(* The scan goes on to a slot it has not looked at.                        *)
LEMMA ScanKeeps ==
  ASSUME Scan, TypesOK, ServerInv
  PROVE  TypesOK' /\ ServerInv'
<1> USE DEF serverVars, workerVars, peerVars, appVars, disconnectVars, Goes
<1> SUFFICES ASSUME ServerTypes, SlotTypes, WorkTypes, KernelTypes, PeerTypes, CountTypes,
                    AppTypes, Server, Slotted, Queued, AtSlot, Stdin, Announced, Counted,
                    Garbled, Ready, Untouched
             PROVE  TypesOK' /\ ServerInv'
  BY DEF TypesOK, ServerInv
<1>1. ServerTypes' /\ WorkTypes' /\ KernelTypes' /\ PeerTypes' /\ CountTypes' /\
      AppTypes' /\ Untouched'
  BY DEF Scan, ServerTypes, WorkTypes, KernelTypes, PeerTypes, CountTypes, AppTypes, Untouched
<1>2. Slotted' /\ Queued'
  BY DEF Scan, Slotted, Queued
<1>3. SlotTypes'
  BY DEF Scan, SlotTypes
<1>4. Server'
  BY DEF Scan, Server, ServerTypes, KernelTypes
<1>a. /\ worker = "scan" /\ slot > 0 /\ slot \in Nat
      /\ UNCHANGED <<serverVars, readfds, ClientsArray>>
  <2>1. worker = "scan" /\ UNCHANGED <<serverVars, readfds, ClientsArray>>
    BY DEF Scan
  <2> QED BY <2>1 DEF AtSlot, SlotTypes
<1>b. \/ /\ worker' = "read" /\ slot' = slot /\ Client' = Client
         /\ slot \in Slots /\ Client.Fd \in readfds
      \/ /\ worker' = "scan" /\ slot' = slot + 1
         /\ slot \in Slots /\ Client.Fd \notin readfds
      \/ worker' = "build"
  BY DEF Scan, Client
<1>5. AtSlot'
  <2>1. CASE worker' = "read"
    <3>1. 0 \in readfds => Client.Fd > 0
      BY <1>a, <1>b, <2>1 DEF Stdin, Client
    <3>2. 0 \notin readfds => Client.Fd > 0
      BY <1>b, <2>1, FdsAre DEF WorkTypes
    <3> QED BY <1>b, <2>1, <3>1, <3>2 DEF AtSlot
  <2>2. CASE worker' # "read"
    <3>1. slot + 1 > 0
      BY <1>a
    <3> QED BY <1>b, <2>2, <3>1 DEF AtSlot
  <2> QED BY <2>1, <2>2
<1>6. Announced'
  BY DEF Scan, Announced, Slotted, AtSlot, SlotTypes, PeerTypes, AppTypes
<1>7. Counted'
  BY DEF Scan, Counted, InHand, Client, AtSlot, SlotTypes, CountTypes, AppTypes
<1>8. Ready'
  <2>1. \A fd : Readable(fd)' = Readable(fd)
    BY DEF Scan, Readable, HasNews
  <2>2. \A i \in Slots : Ahead(i)' => Ahead(i)
    BY FdsAre DEF Scan, Ahead, SlotTypes
  <2>3. worker' = "read" => Client'.Fd \in readfds
    BY DEF Scan, Client
  <2> QED BY <2>1, <2>2, <2>3 DEF Scan, Ready
<1>s1. Stdin'
  <2>1. \A i \in Slots : i \in Int
    BY FdsAre
  <2>2. worker' \in {"scan", "read", "build"}
    BY <1>b
  <2>3. worker' # "build" => \A i \in Slots : i >= slot' => i >= slot
    BY <1>a, <1>b, <2>1
  <2> QED BY <1>a, <2>2, <2>3 DEF Stdin
<1>g1. Garbled'
  BY DEF Scan, Garbled, Client, AtSlot, PeerTypes
<1> QED BY <1>s1, <1>g1, <1>1, <1>2, <1>3, <1>4, <1>5, <1>6, <1>7, <1>8 DEF TypesOK, ServerInv

(* read() is called on the connection of the slot.                         *)
LEMMA CallsReadKeeps ==
  ASSUME CallsRead, TypesOK, ServerInv
  PROVE  TypesOK' /\ ServerInv'
<1> USE DEF serverVars, workerVars, peerVars, appVars, disconnectVars, Goes
<1> SUFFICES ASSUME ServerTypes, SlotTypes, WorkTypes, KernelTypes, PeerTypes, CountTypes,
                    AppTypes, Server, Slotted, Queued, AtSlot, Stdin, Announced, Counted,
                    Garbled, Ready, Untouched
             PROVE  TypesOK' /\ ServerInv'
  BY DEF TypesOK, ServerInv
<1>q. slot \in Slots /\ Client = ClientsArray[slot] /\ Client.Fd \in Fds /\ Client.Fd > 0
      /\ Client.who \in Peers /\ file[Client.Fd] = Client.who
  BY AtClient DEF CallsRead
<1>a. /\ worker = "read" /\ worker' = "reading" /\ reading' = Client.who /\ Client' = Client
      /\ UNCHANGED <<serverVars, readfds, max_sd, Readbytes, slot, ClientsArray, file, queue,
                     peerVars, appVars>>
  BY <1>q DEF CallsRead, Client
<1>1. ServerTypes' /\ SlotTypes' /\ WorkTypes' /\ KernelTypes' /\ PeerTypes' /\
      CountTypes' /\ AppTypes' /\ Untouched'
  BY <1>a DEF ServerTypes, SlotTypes, WorkTypes, KernelTypes, PeerTypes, CountTypes,
         AppTypes, Untouched
<1>2. Server' /\ Slotted' /\ Queued'
  BY <1>a DEF Server, Slotted, Queued
<1>3. AtSlot'
  BY <1>a, <1>q DEF AtSlot
<1>4. Announced'
  BY <1>a DEF Announced
<1>5. Counted' /\ Garbled'
  BY <1>a DEF Counted, InHand, Garbled
<1>6. Stdin'
  BY <1>a DEF Stdin
<1>7. Ready'
  BY <1>a DEF Ready, Ahead, Readable, HasNews, Listening
<1> QED BY <1>1, <1>2, <1>3, <1>4, <1>5, <1>6, <1>7 DEF TypesOK, ServerInv

(* read() returns bytes, a failure or the end, of this peer only.          *)
LEMMA ReadReturnsKeeps ==
  ASSUME ReadReturns, TypesOK, ServerInv
  PROVE  TypesOK' /\ ServerInv'
<1> USE DEF serverVars, workerVars, peerVars, appVars, disconnectVars, Goes
<1> SUFFICES ASSUME ServerTypes, SlotTypes, WorkTypes, KernelTypes, PeerTypes, CountTypes,
                    AppTypes, Server, Slotted, Queued, AtSlot, Stdin, Announced, Counted,
                    Garbled, Ready, Untouched
             PROVE  TypesOK' /\ ServerInv'
  BY DEF TypesOK, ServerInv
<1>q. slot \in Slots /\ Client = ClientsArray[slot] /\ Client.Fd \in Fds /\ Client.Fd > 0
      /\ Client.who \in Peers /\ file[Client.Fd] = Client.who /\ peer[Client.who] = "accepted"
      /\ \A i \in Slots : ClientsArray[i].Fd > 0 /\ ClientsArray[i].who = Client.who => i = slot
  BY AtClient DEF ReadReturns
<1>a. /\ reading = Client.who /\ worker = "reading" /\ file[Client.Fd] = Client.who
      /\ Client' = Client /\ slot' = slot
      /\ UNCHANGED <<ClientsArray, file, queue, use, readfds, sent, told, given, peer, owner, Status, ServerSocket>>
  BY <1>q DEF ReadReturns, AtSlot, Client
<1> DEFINE bytes == Min({sent[Client.who] - taken[Client.who], BufferSize})
<1>b. /\ taken[Client.who] <= sent[Client.who] /\ bytes \in Nat
      /\ bytes = IF sent[Client.who] - taken[Client.who] <= BufferSize
                 THEN sent[Client.who] - taken[Client.who] ELSE BufferSize
      /\ taken[Client.who] + bytes <= sent[Client.who]
      /\ bytes = 0 => taken[Client.who] = sent[Client.who]
  <2>1. /\ sent[Client.who] \in Nat /\ taken[Client.who] \in Nat /\ taken[Client.who] <= sent[Client.who]
        /\ BufferSize \in Nat \ {0}
    BY <1>q, ServerAssumption DEF Counted, CountTypes
  <2>2. bytes = IF sent[Client.who] - taken[Client.who] <= BufferSize
                THEN sent[Client.who] - taken[Client.who] ELSE BufferSize
    BY <2>1, MinOfTwo
  <2> HIDE DEF bytes
  <2> QED BY <2>1, <2>2
<1>c. \/ /\ bytes > 0 /\ worker' = "received" /\ Readbytes' = bytes
         /\ taken' = [taken EXCEPT ![Client.who] = @ + bytes] /\ ended' = ended
      \/ /\ bytes = 0 /\ worker' = "received" /\ Readbytes' = -1 /\ ended[Client.who] = "reset"
         /\ ended' = [ended EXCEPT ![Client.who] = "failed"] /\ taken' = taken
      \/ /\ bytes = 0 /\ ended[Client.who] \in {"closed", "failed"} /\ worker' = "close" /\ Readbytes' = 0
         /\ UNCHANGED <<taken, ended>>
  <2>1. Client.Fd \in Fds /\ file[Client.Fd] \in Peers
    BY <1>q, <1>a
  <2> QED BY <2>1, <1>a DEF ReadReturns
<1> HIDE DEF bytes
<1>1. ServerTypes' /\ SlotTypes' /\ KernelTypes' /\ AppTypes' /\ Untouched'
  BY DEF ReadReturns, ServerTypes, SlotTypes, KernelTypes, AppTypes, Untouched
<1>2. Slotted' /\ Queued'
  BY DEF ReadReturns, Slotted, Queued
<1>3. WorkTypes'
  <2>1. max_sd' = max_sd /\ Readbytes' \in Int
    BY <1>b, <1>c DEF ReadReturns
  <2> QED BY <1>a, <2>1 DEF WorkTypes
<1>4. PeerTypes'
  BY <1>q, FdsAre, PeersAre DEF ReadReturns, PeerTypes
<1>5. CountTypes'
  BY <1>a, <1>b, <1>c, <1>q DEF CountTypes
<1>6. Server'
  BY <1>q, FdsAre, PeersAre DEF ReadReturns, Server, ServerTypes, KernelTypes
<1>7. AtSlot'
  BY <1>q, FdsAre, PeersAre DEF ReadReturns, AtSlot, Client, SlotTypes
<1>8. Announced'
  BY <1>q, FdsAre, PeersAre DEF ReadReturns, Announced, Slotted, AtSlot, SlotTypes,
         PeerTypes, AppTypes
<1>9. Counted'
  <2>1. \A p \in Peers : given[p] = taken[p] /\ taken[p] <= sent[p]
    BY <1>a DEF Counted, InHand, CountTypes
  <2>2. told[Client.who] = "connected"
    BY <1>a, <1>q DEF Announced
  <2>3. CASE /\ bytes > 0 /\ worker' = "received" /\ Readbytes' = bytes
             /\ taken' = [taken EXCEPT ![Client.who] = @ + bytes] /\ ended' = ended
    <3>1. \A p \in Peers : taken'[p] = IF p = Client.who THEN taken[p] + bytes ELSE taken[p]
      BY <2>3 DEF CountTypes
    <3>2. \A p \in Peers : InHand(p)' = IF p = Client.who THEN bytes ELSE 0
      BY <1>a, <2>3 DEF InHand
    <3>3. \A p \in Peers : given[p] \in Nat /\ taken[p] \in Nat /\ sent[p] \in Nat
      BY DEF CountTypes
    <3>4. \A p \in Peers : given[p] + InHand(p)' = taken'[p] /\ taken'[p] <= sent[p]
      BY <1>b, <2>1, <3>1, <3>2, <3>3
    <3> QED BY <1>a, <2>2, <2>3, <3>4 DEF Counted
  <2>4. CASE /\ bytes = 0 /\ worker' = "received" /\ Readbytes' = -1 /\ ended[Client.who] = "reset"
             /\ ended' = [ended EXCEPT ![Client.who] = "failed"] /\ taken' = taken
    <3>1. \A p \in Peers : InHand(p)' = 0 /\ InHand(p) = 0
      BY <1>a, <2>4 DEF InHand
    <3> QED BY <1>a, <2>2, <2>4, <3>1 DEF Counted, PeerTypes
  <2>5. CASE /\ bytes = 0 /\ ended[Client.who] \in {"closed", "failed"} /\ worker' = "close" /\ Readbytes' = 0
             /\ UNCHANGED <<taken, ended>>
    <3>1. \A p \in Peers : InHand(p)' = 0 /\ InHand(p) = 0
      BY <1>a, <2>5 DEF InHand
    <3>2. Client'.who = Client.who
      BY <1>a
    <3> QED BY <1>a, <1>b, <2>5, <3>1, <3>2 DEF Counted
  <2> QED BY <1>c, <2>3, <2>4, <2>5
<1>10. Ready'
  <2>1. \A i \in Slots : i # slot /\ ClientsArray[i].Fd > 0 /\ ClientsArray[i].Fd \in readfds =>
          /\ ClientsArray[i].Fd \in Fds /\ ClientsArray[i].who # Client.who
          /\ file[ClientsArray[i].Fd] = ClientsArray[i].who /\ ClientsArray[i].who \in Peers
    BY <1>q, FdsAre, InSlot DEF WorkTypes
  <2>2. \A fd \in Fds : file[fd] \in Peers /\ file[fd] # Client.who /\ Readable(fd) => Readable(fd)'
    BY <1>a, <1>c, PeersAre DEF Readable, HasNews, CountTypes, PeerTypes
  <2>3. \A i \in Slots : Ahead(i)' => Ahead(i) /\ i # slot
    <3>1. worker' \in {"received", "close"} /\ worker = "reading" /\ slot' = slot /\ slot \in Int /\ Slots \subseteq Int
      BY <1>a, <1>c, FdsAre DEF SlotTypes
    <3> QED BY <3>1 DEF Ahead
  <2> QED BY <1>a, <1>c, <2>1, <2>2, <2>3 DEF Ready
<1>s1. Stdin'
  <2>1. \A i \in Slots : i > slot => i >= slot
    BY <1>q, FdsAre
  <2> QED BY <1>a, <1>c, <2>1 DEF Stdin
<1>g1. Garbled'
  <2>1. \A p \in Peers : ended[p] = "failed" => ended'[p] = "failed"
    BY <1>c DEF PeerTypes
  <2>2. garbled' = garbled /\ garbled \subseteq Peers
    BY DEF ReadReturns, AppTypes
  <2>3. worker' = "received" /\ Readbytes' = -1 => ended'[Client.who] = "failed"
    BY <1>b, <1>c, <1>q DEF PeerTypes
  <2> QED BY <1>a, <2>1, <2>2, <2>3 DEF Garbled
<1> QED BY <1>s1, <1>g1, <1>1, <1>2, <1>3, <1>4, <1>5, <1>6, <1>7, <1>8, <1>9, <1>10 DEF TypesOK,
         ServerInv

(* What read() took is handed over.                                        *)
LEMMA DataReceivedKeeps ==
  ASSUME DataReceived, TypesOK, ServerInv
  PROVE  TypesOK' /\ ServerInv'
<1> USE DEF serverVars, workerVars, peerVars, appVars, disconnectVars, Goes
<1> SUFFICES ASSUME ServerTypes, SlotTypes, WorkTypes, KernelTypes, PeerTypes, CountTypes,
                    AppTypes, Server, Slotted, Queued, AtSlot, Stdin, Announced, Counted,
                    Garbled, Ready, Untouched
             PROVE  TypesOK' /\ ServerInv'
  BY DEF TypesOK, ServerInv
<1>q. slot \in Slots /\ Client = ClientsArray[slot] /\ Client.Fd \in Fds /\ Client.Fd > 0
      /\ Client.who \in Peers /\ file[Client.Fd] = Client.who /\ peer[Client.who] = "accepted"
      /\ \A i \in Slots : ClientsArray[i].Fd > 0 /\ ClientsArray[i].who = Client.who => i = slot
  BY AtClient DEF DataReceived
<1>a. /\ worker = "received" /\ worker' = "scan" /\ slot' = slot + 1
      /\ UNCHANGED <<ClientsArray, file, queue, use, readfds, sent, taken, ended, told, peer>>
  BY DEF DataReceived
<1>b. /\ \A p \in Peers : given'[p] = given[p] + InHand(p)
      /\ \A p \in Peers : InHand(p) \in Nat /\ InHand(p)' = 0
      /\ given' \in [Peers -> Nat]
  <2>1. Max({Readbytes, 0}) = IF Readbytes >= 0 THEN Readbytes ELSE 0
    BY MaxOfTwo DEF WorkTypes
  <2>2. given' = [given EXCEPT ![Client.who] = @ + IF Readbytes >= 0 THEN Readbytes ELSE 0]
    BY <2>1 DEF DataReceived
  <2> QED BY <1>a, <1>q, <2>2 DEF InHand, CountTypes, WorkTypes
<1>1. ServerTypes' /\ WorkTypes' /\ KernelTypes' /\ PeerTypes' /\ Untouched'
  BY DEF DataReceived, ServerTypes, WorkTypes, KernelTypes, PeerTypes, Untouched
<1>t. AppTypes'
  BY <1>a, <1>q DEF DataReceived, AppTypes
<1>2. Slotted' /\ Queued'
  BY DEF DataReceived, Slotted, Queued
<1>3. SlotTypes'
  BY <1>q, FdsAre, PeersAre DEF DataReceived, SlotTypes
<1>4. CountTypes'
  BY <1>a, <1>b DEF CountTypes
<1>5. Server'
  BY <1>q, FdsAre, PeersAre DEF DataReceived, Server, ServerTypes, KernelTypes
<1>6. AtSlot'
  BY <1>q, FdsAre, PeersAre DEF DataReceived, AtSlot, Client, SlotTypes
<1>7. Announced'
  BY <1>q, FdsAre, PeersAre DEF DataReceived, Announced, Slotted, AtSlot, SlotTypes,
         PeerTypes, AppTypes
<1>8. Counted'
  <2>1. told[Client.who] = "connected"
    BY <1>a, <1>q DEF Announced
  <2>2. \A p \in Peers : p # Client.who => InHand(p) = 0
    BY DEF InHand
  <2>3. \A p \in Peers : given'[p] + InHand(p)' = taken[p] /\ taken[p] <= sent[p]
    BY <1>b DEF Counted, CountTypes
  <2>4. \A p \in Peers : told[p] # "connected" => given'[p] = given[p]
    BY <1>b, <2>1, <2>2 DEF CountTypes
  <2> QED BY <1>a, <2>3, <2>4 DEF Counted
<1>9. Ready'
  BY <1>q, FdsAre, PeersAre DEF DataReceived, Ready, Ahead, Readable, HasNews, Listening,
         Client, SlotTypes, WorkTypes, KernelTypes, PeerTypes, CountTypes
<1>s1. Stdin'
  <2>1. \A i \in Slots : i >= slot + 1 => i > slot
    BY <1>q, FdsAre
  <2>2. UNCHANGED serverVars
    BY DEF DataReceived
  <2> QED BY <1>a, <2>1, <2>2 DEF Stdin
<1>g1. Garbled'
  BY DEF DataReceived, Garbled, Client, AtSlot, PeerTypes
<1> QED BY <1>t, <1>s1, <1>g1, <1>1, <1>2, <1>3, <1>4, <1>5, <1>6, <1>7, <1>8, <1>9 DEF TypesOK, ServerInv

(* At the end of a peer everything it sent was handed over, and its        *)
(* descriptor and slot are freed together.                                 *)
LEMMA ClientDisconnectedKeeps ==
  ASSUME ClientDisconnected, TypesOK, ServerInv
  PROVE  TypesOK' /\ ServerInv'
<1> USE DEF serverVars, workerVars, peerVars, appVars, disconnectVars, Goes
<1> SUFFICES ASSUME ServerTypes, SlotTypes, WorkTypes, KernelTypes, PeerTypes, CountTypes,
                    AppTypes, Server, Slotted, Queued, AtSlot, Stdin, Announced, Counted,
                    Garbled, Ready, Untouched
             PROVE  TypesOK' /\ ServerInv'
  BY DEF TypesOK, ServerInv
<1>q. slot \in Slots /\ Client = ClientsArray[slot] /\ Client.Fd \in Fds /\ Client.Fd > 0
      /\ Client.who \in Peers /\ file[Client.Fd] = Client.who /\ peer[Client.who] = "accepted"
      /\ \A i \in Slots : ClientsArray[i].Fd > 0 /\ ClientsArray[i].who = Client.who => i = slot
  BY AtClient DEF ClientDisconnected
<1>a. /\ worker = "close" /\ worker' = "scan" /\ slot' = slot + 1 /\ file' = Closed(Client.Fd)
      /\ ClientsArray' = [ClientsArray EXCEPT ![slot].Fd = 0]
      /\ told' = [told EXCEPT ![Client.who] = "disconnected"]
      /\ UNCHANGED <<owner, Status, ServerSocket, peer, queue, use, readfds, taken, sent, ended, given>>
  BY DEF ClientDisconnected
<1>f. /\ \A fd \in Fds : file'[fd] = IF fd = Client.Fd THEN "free" ELSE file[fd]
      /\ \A i \in Slots : /\ ClientsArray'[i].who = ClientsArray[i].who
                          /\ ClientsArray'[i].Fd = IF i = slot THEN 0 ELSE ClientsArray[i].Fd
      /\ ClientsArray' \in [Slots -> [Fd : Fds \cup {0, -1}, who : Peers \cup {None}]]
      /\ KernelTypes' /\ Server' /\ Slotted'
  BY <1>a, <1>q, Freed
<1>1. ServerTypes' /\ WorkTypes' /\ PeerTypes' /\ CountTypes' /\ Untouched'
  BY DEF ClientDisconnected, ServerTypes, WorkTypes, PeerTypes, CountTypes, Untouched
<1>2. Queued'
  BY DEF ClientDisconnected, Queued
<1>3. SlotTypes'
  BY <1>a, <1>f DEF SlotTypes
<1>4. KernelTypes'
  BY <1>f
<1>5. AppTypes'
  BY <1>q, FdsAre, PeersAre DEF ClientDisconnected, AppTypes
<1>6. Server'
  BY <1>f
<1>7. Slotted'
  BY <1>f
<1>8. AtSlot'
  BY <1>q, FdsAre, PeersAre DEF ClientDisconnected, AtSlot, Client, SlotTypes
<1>9. Announced'
  <2>1. \A i \in Slots : ClientsArray'[i].Fd > 0 =>
          i # slot /\ ClientsArray'[i].Fd = ClientsArray[i].Fd /\ ClientsArray[i].who \in Peers
          /\ ClientsArray'[i].who = ClientsArray[i].who /\ ClientsArray[i].who # Client.who
    BY <1>f, <1>q, InSlot
  <2>2. \A i \in Slots : ClientsArray'[i].Fd > 0 => told'[ClientsArray'[i].who] = "connected"
    BY <1>a, <2>1 DEF Announced, AppTypes
  <2>3. \A p \in Peers : peer[p] \in {"new", "queued"} => told'[p] = "nothing"
    BY <1>a, <1>q DEF Announced, AppTypes
  <2> QED BY <1>a, <2>2, <2>3 DEF Announced
<1>10. Counted'
  <2>1. \A p \in Peers : InHand(p) = 0 /\ InHand(p)' = 0
    BY <1>a DEF InHand
  <2>2. \A p \in Peers : given[p] = taken[p] /\ taken[p] <= sent[p]
    BY <2>1 DEF Counted, CountTypes
  <2>3. ended[Client.who] # "no" /\ taken[Client.who] = sent[Client.who]
    BY <1>a DEF Counted
  <2>4. \A p \in Peers : told'[p] = IF p = Client.who THEN "disconnected" ELSE told[p]
    BY <1>a DEF AppTypes
  <2> QED BY <1>a, <1>q, <2>1, <2>2, <2>3, <2>4 DEF Counted, CountTypes
<1>11. Ready'
  <2>1. \A i \in Slots : ClientsArray'[i].Fd > 0 /\ ClientsArray'[i].Fd \in readfds =>
          /\ i # slot /\ ClientsArray'[i].Fd = ClientsArray[i].Fd /\ ClientsArray[i].Fd \in Fds
          /\ file[ClientsArray[i].Fd] \in Peers /\ ClientsArray[i].Fd # Client.Fd
    <3>1. \A i \in Slots : ClientsArray'[i].Fd > 0 /\ ClientsArray'[i].Fd \in readfds =>
            i # slot /\ ClientsArray'[i].Fd = ClientsArray[i].Fd /\ ClientsArray[i].Fd > 0
      BY <1>f, FdsAre DEF WorkTypes
    <3>2. \A i \in Slots : i # slot /\ ClientsArray[i].Fd > 0 => ClientsArray[i].Fd # Client.Fd
      BY <1>q DEF Slotted
    <3> QED BY <3>1, <3>2, InSlot
  <2>2. \A fd \in Fds : file[fd] \in Peers /\ fd # Client.Fd /\ Readable(fd) => Readable(fd)'
    BY <1>a, <1>f, PeersAre DEF Readable, HasNews
  <2>3. \A i \in Slots : Ahead(i)' /\ i # slot => Ahead(i)
    BY <1>a, FdsAre DEF Ahead, SlotTypes
  <2> QED BY <1>a, <2>1, <2>2, <2>3 DEF Ready
<1>s1. Stdin'
  BY FdsAre DEF ClientDisconnected, Stdin, Client, AtSlot
<1>g1. Garbled'
  BY DEF ClientDisconnected, Garbled, Client, AtSlot, PeerTypes
<1> QED BY <1>s1, <1>g1, <1>1, <1>2, <1>3, <1>4, <1>5, <1>6, <1>7, <1>8, <1>9, <1>10, <1>11 DEF
         TypesOK, ServerInv

-----------------------------------------------------------------------------
(* Every step of the system, with no thread that disconnects, keeps the    *)
(* invariant.                                                              *)
LEMMA NextKeeps ==
  ASSUME NoThread, TypesOK, ServerInv, [Next]_vars
  PROVE  NoThread' /\ TypesOK' /\ ServerInv'
<1>1. ASSUME Next PROVE TypesOK' /\ ServerInv'
  <2>1. Untouched
    BY DEF ServerInv
  <2>2. ~ Application
    BY <2>1 DEF Untouched, Application, Disconnect, DisconnectCloses, DisconnectReturns, NoThread
  <2>3. ASSUME NEW p \in Peers, Peer(p) PROVE TypesOK' /\ ServerInv'
    BY <2>3, ConnectKeeps, SendKeeps, EndKeeps DEF Peer
  <2>4. CASE Owner
    BY <2>4, StartKeeps, StopKeeps, StopClosesKeeps, StopForgetsKeeps, StopReturnsKeeps
       DEF Owner
  <2>5. CASE BackgroundWork \/ Interrupted \/ StdinWakes
    BY <2>5, TestServerKeeps, AddServerKeeps, MaxServerKeeps, TestSlotKeeps, AddSlotKeeps,
       CompareSlotKeeps, MaxSlotKeeps, SelectKeeps, WakesKeeps, StdinWakesKeeps,
       InterruptedKeeps, CheckKeeps, AcceptKeeps, RefuseKeeps, ClientConnectedKeeps, ScanKeeps,
       CallsReadKeeps, ReadReturnsKeeps, DataReceivedKeeps, ClientDisconnectedKeeps
       DEF BackgroundWork
  <2> QED BY <1>1, <2>2, <2>3, <2>4, <2>5 DEF Next
<1>2. ASSUME UNCHANGED vars PROVE TypesOK' /\ ServerInv'
  <2>1. TypesOK'
    BY <1>2 DEF vars, serverVars, workerVars, peerVars, appVars, disconnectVars, TypesOK, ServerTypes,
       SlotTypes, WorkTypes, KernelTypes, PeerTypes, CountTypes, AppTypes
  <2>2. Server' /\ Slotted' /\ Queued' /\ Stdin' /\ Untouched'
    BY <1>2 DEF vars, serverVars, workerVars, peerVars, appVars, disconnectVars, ServerInv,
       Server, Slotted, Queued, Stdin, Untouched
  <2>5. AtSlot'
    BY <1>2 DEF vars, serverVars, workerVars, ServerInv, AtSlot, Client
  <2>3. Announced' /\ Counted' /\ Garbled'
    BY <1>2 DEF vars, serverVars, workerVars, peerVars, appVars, ServerInv, Announced,
       Counted, Garbled, InHand, Client
  <2>4. Ready'
    BY <1>2 DEF vars, serverVars, workerVars, peerVars, appVars, ServerInv, Ready, Ahead,
       Readable, HasNews, Listening, Client
  <2> QED BY <2>1, <2>2, <2>3, <2>4, <2>5 DEF ServerInv
<1>3. use' = use
  <2>1. CASE Next
    BY <2>1 DEF Next, Owner, Application, BackgroundWork, Peer, Start, Stop, StopCloses,
       StopForgets, StopReturns, Disconnect, DisconnectCloses, DisconnectReturns, TestServer,
       AddServer, MaxServer, TestSlot, AddSlot, CompareSlot, MaxSlot, Select, Wakes, StdinWakes,
       Interrupted, Check, Accept, Refuse, ClientConnected, Scan, CallsRead, ReadReturns,
       DataReceived, ClientDisconnected, Connect, Send, End, serverVars
  <2> QED BY <2>1 DEF vars, serverVars
<1> QED BY <1>1, <1>2, <1>3 DEF NoThread

(* The invariant holds when the server is constructed.                     *)
LEMMA InitKeeps ==
  ASSUME Init
  PROVE  TypesOK /\ ServerInv
<1>1. TypesOK
  BY FdsAre, EmptySeq DEF Init, TypesOK, ServerTypes, SlotTypes, WorkTypes, KernelTypes,
     PeerTypes, CountTypes, AppTypes
<1>2. Len(queue) = 0 /\ \A i \in Slots : ClientsArray[i].Fd = 0
  BY DEF Init
<1>3. Server /\ Slotted /\ Queued /\ AtSlot /\ Stdin /\ Untouched
  BY <1>2, FdsAre, PeersAre DEF Init, Server, Slotted, Queued, AtSlot, Stdin, Untouched
<1>4. Announced /\ Counted /\ Garbled /\ Ready
  BY <1>2 DEF Init, Announced, Counted, Garbled, InHand, Ready, Ahead
<1> QED BY <1>1, <1>3, <1>4 DEF ServerInv

(* For any use without a thread that disconnects.                          *)
THEOREM ServerSafe == Spec /\ NoThread => [](NoThread /\ TypesOK /\ ServerInv)
<1>1. Init /\ NoThread => NoThread /\ TypesOK /\ ServerInv
  BY InitKeeps
<1>2. NoThread /\ TypesOK /\ ServerInv /\ [Next]_vars => (NoThread /\ TypesOK /\ ServerInv)'
  BY NextKeeps
<1> QED BY <1>1, <1>2, PTL DEF Spec

(* No connection is leaked, and no slot is stale: SlotsMatchFiles, for any *)
(* number of peers and slots.                                              *)
THEOREM SlotsSafe == Spec /\ NoThread => []SlotsMatchFiles
<1>1. ASSUME TypesOK, ServerInv PROVE SlotsMatchFiles
  <2> USE <1>1 DEF TypesOK, ServerInv
  <2>1. ASSUME NEW fd \in Fds, file[fd] \in Peers
        PROVE  Cardinality({i \in Slots : ClientsArray[i].Fd = fd}) = 1
    <3>1. PICK i \in Slots : ClientsArray[i].Fd = fd
      BY <2>1 DEF Slotted
    <3>2. {j \in Slots : ClientsArray[j].Fd = fd} = {i}
      <4>1. fd > 0
        BY FdsAre
      <4>2. \A j \in Slots : ClientsArray[j].Fd = fd => i = j
        BY <3>1, <4>1 DEF Slotted
      <4> QED BY ONLY <3>1, <4>2
    <3> QED BY <3>2, FS_Singleton
  <2> QED BY <2>1 DEF SlotsMatchFiles, Slotted
<1> QED BY <1>1, ServerSafe, PTL

(* The application hears the whole story of each peer: StoryComplete.      *)
THEOREM StorySafe == Spec /\ NoThread => []StoryComplete
<1>1. ASSUME TypesOK, ServerInv PROVE StoryComplete
  <2>1. \A p \in Peers : InHand(p) \in Nat
    BY <1>1 DEF TypesOK, WorkTypes, InHand
  <2>2. \A p \in Peers : given[p] \in Nat /\ taken[p] \in Nat /\ given[p] + InHand(p) = taken[p]
    BY <1>1 DEF TypesOK, CountTypes, ServerInv, Counted
  <2>3. \A p \in Peers : given[p] <= taken[p]
    BY <2>1, <2>2
  <2> QED BY <1>1, <2>3 DEF StoryComplete, ServerInv, Counted, Garbled
<1> QED BY <1>1, ServerSafe, PTL

(* Unless signals interrupt select(), the worker sleeps nowhere else:      *)
(* SleepsOnlyInSelect.                                                     *)
THEOREM SleepsSafe ==
  Spec /\ NoThread /\ ~ use.interrupts => []SleepsOnlyInSelect
<1> DEFINE Quiet == ~ use.interrupts
<1>1. ASSUME TypesOK, ServerInv, Quiet PROVE SleepsOnlyInSelect
  <2>1. ASSUME worker = "reading" PROVE HasNews(reading)
    <3>1. slot \in Slots /\ Client = ClientsArray[slot] /\ Client.Fd > 0 /\ Ahead(slot)
      <4>1. slot \in Slots /\ Client.Fd > 0
        BY <1>1, <2>1 DEF ServerInv, AtSlot
      <4>2. slot \in Int /\ slot >= slot
        BY <1>1 DEF TypesOK, SlotTypes
      <4> QED BY <2>1, <4>1, <4>2 DEF Client, Ahead
    <3>2. file[Client.Fd] = reading /\ reading \in Peers
      BY <1>1, <2>1, AtClient DEF TypesOK, ServerInv, AtSlot
    <3>3. Readable(Client.Fd)
      BY <1>1, <2>1, <3>1 DEF ServerInv, Ready
    <3> QED BY <3>2, <3>3, PeersAre DEF Readable
  <2> QED BY <1>1, <2>1 DEF SleepsOnlyInSelect, ServerInv, Ready
<1>2. Quiet /\ [Next]_vars => Quiet'
  <2>1. ASSUME Next PROVE use' = use
    BY <2>1 DEF Next, Owner, Application, BackgroundWork, Peer, Start, Stop, StopCloses,
       StopForgets, StopReturns, Disconnect, DisconnectCloses, DisconnectReturns, TestServer,
       AddServer, MaxServer, TestSlot, AddSlot, CompareSlot, MaxSlot, Select, Wakes, StdinWakes,
       Interrupted, Check, Accept, Refuse, ClientConnected, Scan, CallsRead, ReadReturns,
       DataReceived, ClientDisconnected, Connect, Send, End, serverVars
  <2> QED BY <2>1 DEF vars, serverVars
<1> HIDE DEF Quiet
<1>3. Spec /\ Quiet => []Quiet
  BY <1>2, PTL DEF Spec
<1>4. Spec /\ NoThread /\ Quiet => []SleepsOnlyInSelect
  BY <1>1, <1>3, ServerSafe, PTL
<1> QED BY <1>4 DEF Quiet

(* A peer is refused only while every slot is in use: RefusedOnlyWhenFull. *)
THEOREM RefusedSafe == Spec /\ NoThread => RefusedOnlyWhenFull
<1> DEFINE Full == \A p \in Peers : peer'[p] = "refused" /\ peer[p] # "refused"
                     => \A i \in Slots : ClientsArray[i].Fd > 0
<1>1. ASSUME TypesOK, ServerInv, Next PROVE Full
  <2>1. CASE Refuse
    <3>1. worker = "refuse"
      BY <2>1 DEF Refuse, Goes
    <3> QED BY <1>1, <3>1 DEF ServerInv, AtSlot
  <2>2. CASE Accept
    <3>1. queue # <<>> => Head(queue) \in Peers
      BY <1>1, HeadGone DEF TypesOK, KernelTypes
    <3> QED BY <1>1, <2>2, <3>1 DEF Accept, TypesOK, PeerTypes
  <2>3. ASSUME NEW p \in Peers, Connect(p) PROVE Full
    BY <1>1, <2>3 DEF Connect, TypesOK, PeerTypes
  <2>4. CASE Stop
    BY <2>4 DEF Stop
  <2>5. CASE peer' = peer
    BY <2>5
  <2> HIDE DEF Full
  <2> QED
    BY <1>1, <2>1, <2>2, <2>3, <2>4, <2>5 DEF Next, Owner, Application, BackgroundWork, Peer,
       Start, StopCloses, StopForgets, StopReturns, Disconnect, DisconnectCloses,
       DisconnectReturns, TestServer, AddServer, MaxServer, TestSlot, AddSlot, CompareSlot,
       MaxSlot, Select, Wakes, StdinWakes, Interrupted, Check, ClientConnected, Scan,
       CallsRead, ReadReturns, DataReceived, ClientDisconnected, Send, End, peerVars
<1>2. ASSUME TypesOK, ServerInv, [Next]_vars PROVE [Full]_vars
  BY <1>1, <1>2
<1>3. TypesOK /\ ServerInv /\ [Next]_vars => [Full]_vars
  BY <1>2
<1> QED BY <1>3, ServerSafe, PTL DEF Spec, RefusedOnlyWhenFull
=============================================================================
