--------------------------------- MODULE Spi ---------------------------------
(***************************************************************************)
(* drivers/SPI: a spidev device used by several threads without a lock.    *)
(* The device keeps the mode bits, the word size and the speed; each       *)
(* ioctl(), external, is one step and may fail, and every failure is       *)
(* thrown.  A setter of the mode reads it in one ioctl() and writes it in  *)
(* another; a transfer asks for the word size in one and is made in        *)
(* another.  The setters read back what they wrote, only to return it:     *)
(* this is left out, and so is BackgroundWork(), which does nothing for    *)
(* as long as IsAvailable() returns 0.                                     *)
(***************************************************************************)
EXTENDS Integers

CONSTANTS
  Users,                    \* the threads
  MaxTransferSize,          \* MAX_TRANSFER_SIZE, in bytes
  CharRange,                \* the values of a char, unsigned on the Pi
  WordSizes,                \* bits per word
  Words,                    \* numbers of words that are asked for
  MaxUses                   \* bound: calls of a thread

ASSUME SpiAssumption ==
  /\ MaxTransferSize \in Nat /\ MaxUses \in Nat /\ CharRange \in Nat \ {0}
  /\ WordSizes \subseteq Nat \ {0} /\ 8 \in WordSizes
  /\ Words \subseteq Nat

ClockBits == {"CPHA", "CPOL"}
ModeBits == ClockBits \cup {"CS_HIGH", "NO_CS", "LOOP", "3WIRE"}
Speeds == {500000, 1000000}

VARIABLES
  mode, bits, speed,        \* what the device keeps
  at,                       \* per thread: the step it has come to
  change, snapshot,         \* per thread: the change to the mode it makes,
                            \* and the mode it has read
  want, word,               \* per thread: the transfer it makes, and the
                            \* word size it has read
  done,                     \* the last transfer
  uses,                     \* per thread: calls to make
  asked, since, lost        \* history: the mode bits as the setters asked for
                            \* them, those written by others since a thread
                            \* has read the mode, and those overwritten so

deviceVars == <<mode, bits, speed>>
setterVars == <<change, snapshot, asked, since, lost>>
transferVars == <<want, word, done>>
spiVars == <<deviceVars, at, setterVars, transferVars, uses>>

NoChange == [clear |-> {}, set |-> {}]
NoTransfer == [call |-> "Read", tx |-> 0, rx |-> 0]
NothingDone == [want |-> NoTransfer, txLen |-> 0, rxLen |-> 0, bits |-> 8,
                result |-> 0]

(* The constructor sets the word size and the speed; the mode is as the    *)
(* last program left it.                                                   *)
InitSpi ==
  /\ mode \in {{}, ModeBits} /\ bits = 8 /\ speed = 500000
  /\ at = [u \in Users |-> "idle"]
  /\ change = [u \in Users |-> NoChange] /\ snapshot = [u \in Users |-> {}]
  /\ want = [u \in Users |-> NoTransfer] /\ word = [u \in Users |-> 8]
  /\ done = NothingDone
  /\ uses = [u \in Users |-> MaxUses]
  /\ asked = mode /\ since = [u \in Users |-> {}] /\ lost = {}

Calls(u) == at[u] = "idle" /\ uses[u] > 0 /\ uses' = [uses EXCEPT ![u] = @ - 1]

-----------------------------------------------------------------------------
(* What each setter changes.                                               *)
SetClockMode(clock) == [clear |-> ClockBits, set |-> clock]
SetCSActiveLow == [clear |-> {"CS_HIGH"}, set |-> {}]
SetCSActiveHigh == [clear |-> {}, set |-> {"CS_HIGH"}]
EnableCS == [clear |-> {"NO_CS"}, set |-> {}]
DisableCS == [clear |-> {}, set |-> {"NO_CS"}]
EnableLoopback == [clear |-> {}, set |-> {"LOOP"}]
DisableLoopback == [clear |-> {"LOOP"}, set |-> {}]
Enable3Wire == [clear |-> {}, set |-> {"3WIRE"}]
Disable3Wire == [clear |-> {"3WIRE"}, set |-> {}]

Setters ==
  {SetClockMode(clock) : clock \in {{}, {"CPHA"}, ClockBits}} \cup
  {SetCSActiveLow, SetCSActiveHigh, EnableCS, DisableCS, EnableLoopback,
   DisableLoopback, Enable3Wire, Disable3Wire}

(* GetMode()                                                               *)
GetMode(u, c) ==
  /\ Calls(u)
  /\ \/ UNCHANGED <<at, setterVars>>
     \/ /\ at' = [at EXCEPT ![u] = "set mode"]
        /\ change' = [change EXCEPT ![u] = c]
        /\ snapshot' = [snapshot EXCEPT ![u] = mode]
        /\ since' = [since EXCEPT ![u] = {}]
        /\ UNCHANGED <<asked, lost>>
  /\ UNCHANGED <<deviceVars, transferVars>>

(* Faulty variants of the operations, Bug<n>_..., stand before the          *)
(* operation they replace: the properties below tell them apart.           *)

(* a SetMode() that can only set bits                                      *)
Bug1_SetMode(u, c, m) ==
  LET mine == c.clear \cup c.set
  IN \/ /\ mode' = mode \cup m
        /\ asked' = (asked \ c.clear) \cup c.set
        /\ lost' = (lost \cup since[u]) \ mine
        /\ since' = [v \in Users |->
                      IF v # u /\ at[v] = "set mode" THEN since[v] \cup mine
                      ELSE {}]
     \/ /\ since' = [since EXCEPT ![u] = {}]
        /\ UNCHANGED <<mode, asked, lost>>

(* SetMode(m), by a thread that means the change c.                        *)
SetMode(u, c, m) ==
  LET mine == c.clear \cup c.set
  IN \/ /\ mode' = m
        /\ asked' = (asked \ c.clear) \cup c.set
        /\ lost' = (lost \cup since[u]) \ mine
        /\ since' = [v \in Users |->
                      IF v # u /\ at[v] = "set mode" THEN since[v] \cup mine
                      ELSE {}]
     \/ /\ since' = [since EXCEPT ![u] = {}]
        /\ UNCHANGED <<mode, asked, lost>>

(* A setter writes what it has read with its change made to it.            *)
Sets(u) ==
  /\ at[u] = "set mode"
  /\ SetMode(u, change[u], (snapshot[u] \ change[u].clear) \cup change[u].set)
  /\ at' = [at EXCEPT ![u] = "idle"]
  /\ change' = [change EXCEPT ![u] = NoChange]
  /\ snapshot' = [snapshot EXCEPT ![u] = {}]
  /\ UNCHANGED <<bits, speed, transferVars, uses>>

(* A client that calls SetMode() itself means all the bits.                *)
SetsAll(u, m) ==
  /\ Calls(u)
  /\ SetMode(u, [clear |-> ModeBits, set |-> m], m)
  /\ UNCHANGED <<bits, speed, at, change, snapshot, transferVars>>

SetBitsPerWord(u, b) ==
  /\ Calls(u)
  /\ bits' \in {b, bits}
  /\ UNCHANGED <<mode, speed, at, setterVars, transferVars>>

SetSpeedHz(u, s) ==
  /\ Calls(u)
  /\ speed' \in {s, speed}
  /\ UNCHANGED <<mode, bits, at, setterVars, transferVars>>

-----------------------------------------------------------------------------
(* The number of bytes for n words: rounded, not rounded up, and limited.  *)
Least(m, n) == IF m < n THEN m ELSE n

Bytes(b, n) == Least((b * n + 4) \div 8, MaxTransferSize)

(* The four calls.                                                         *)
Read(n) == [call |-> "Read", tx |-> 0, rx |-> n]
Write(n) == [call |-> "Write", tx |-> n, rx |-> 0]
Transaction(n, m) == [call |-> "Transaction", tx |-> n, rx |-> m]
Transfer(n) == [call |-> "Transfer", tx |-> n, rx |-> n]

Transfers ==
  {Read(n) : n \in Words} \cup {Write(n) : n \in Words} \cup
  {Transfer(n) : n \in Words} \cup {Transaction(n, m) : n, m \in Words}

(* The bytes a call computes, for words of b bits; the number of words is  *)
(* a parameter of type char in Transfer().                                 *)
Count(t, n) == IF t.call = "Transfer" THEN n % CharRange ELSE n
TxBytes(t, b) == Bytes(b, Count(t, t.tx))
RxBytes(t, b) == Bytes(b, Count(t, t.rx))

(* GetBitsPerWord(); a call of no bytes returns 0 here.                    *)
GetBitsPerWord(u, t) ==
  /\ Calls(u)
  /\ \/ UNCHANGED <<at, transferVars>>
     \/ /\ TxBytes(t, bits) = 0 /\ RxBytes(t, bits) = 0
        /\ done' = [want |-> t, txLen |-> 0, rxLen |-> 0, bits |-> bits, result |-> 0]
        /\ UNCHANGED <<at, want, word>>
     \/ /\ TxBytes(t, bits) > 0 \/ RxBytes(t, bits) > 0
        /\ at' = [at EXCEPT ![u] = "transfer"]
        /\ want' = [want EXCEPT ![u] = t]
        /\ word' = [word EXCEPT ![u] = bits]
        /\ UNCHANGED done
  /\ UNCHANGED <<deviceVars, setterVars>>

(* The message of the call t, in words of b bits, which the device takes   *)
(* for words of c bits.  Transaction() receives a byte more than it has    *)
(* computed; all return the words received, but Write() returns 1.         *)
Made(t, b, c) ==
  LET rx == RxBytes(t, b)
      extra == IF t.call = "Transaction" /\ rx > 0 THEN 1 ELSE 0
  IN  [want |-> t, txLen |-> TxBytes(t, b), rxLen |-> rx + extra, bits |-> c,
       result |-> IF t.call = "Write" THEN 1 ELSE (rx * 8) \div b]

Sends(u, message) ==
  /\ at[u] = "transfer"
  /\ at' = [at EXCEPT ![u] = "idle"]
  /\ want' = [want EXCEPT ![u] = NoTransfer]
  /\ word' = [word EXCEPT ![u] = 8]
  /\ done' \in {message, done}
  /\ UNCHANGED <<deviceVars, setterVars, uses>>

(* a message that leaves the word size to the device                       *)
Bug1_Message(u) == Sends(u, Made(want[u], word[u], bits))

(* ioctl(SPI_IOC_MESSAGE), which is told the word size.                    *)
Message(u) == Sends(u, Made(want[u], word[u], word[u]))

-----------------------------------------------------------------------------
SpiNext ==
  \E u \in Users :
    \/ \E c \in Setters : GetMode(u, c)
    \/ Sets(u)
    \/ \E m \in {{}, ModeBits} : SetsAll(u, m)
    \/ \E b \in WordSizes : SetBitsPerWord(u, b)
    \/ \E s \in Speeds : SetSpeedHz(u, s)
    \/ \E t \in Transfers : GetBitsPerWord(u, t)
    \/ Message(u)

-----------------------------------------------------------------------------
(* A mode bit is as it was last asked for, whatever has failed since,      *)
(* unless another thread's setter overlapped: only a bit that was written  *)
(* between the reading and the writing of another setter may be lost.      *)
OnlyOverlapsLose == \A b \in ModeBits \ lost : b \in mode <=> b \in asked

(* Whatever other threads do to the word size meanwhile, a transfer moves  *)
(* the words it was asked for (Transfer(): what is left of their number in *)
(* a char), or as much as one message may hold: whole bytes, the nearest   *)
(* number of them, so that up to three bits of the last word may be cut.   *)
(* And the number of words it returns were received; it is that of those   *)
(* asked for, or one less where a word is not of whole bytes.  (Words of   *)
(* less than five bits may be returned that were not asked for; Write()    *)
(* returns 1, and a call of no bytes 0.)                                   *)
WordsAsAsked ==
  LET b == done.bits
      words(n) == IF done.want.call = "Transfer" THEN n % CharRange ELSE n
      moves(length, n) ==
        /\ 8 * length <= b * n + 4
        /\ 8 * length > b * n - 4 \/ length = MaxTransferSize
      most == Least(words(done.want.rx), (MaxTransferSize * 8) \div b)
  IN /\ moves(done.txLen, words(done.want.tx))
     /\ done.want.call # "Transaction" => moves(done.rxLen, words(done.want.rx))
     /\ done.want.call # "Write" =>
          /\ done.result * b <= 8 * done.rxLen
          /\ b >= 5 => done.result <= most /\ done.result >= most - 1
          /\ b % 8 = 0 => done.result = most
=============================================================================
