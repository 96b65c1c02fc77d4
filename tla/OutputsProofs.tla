---------------------------- MODULE OutputsProofs ----------------------------
(***************************************************************************)
(* The invariants of the motor and of the lamp hold for every set of duty  *)
(* cycles and intervals and every resolution and bound of the clock; those *)
(* of the SPI device for any threads and calls, any word sizes, lengths    *)
(* and limit of a message, whatever ioctl() fails.                         *)
(***************************************************************************)
EXTENDS Outputs, TLAPS

-----------------------------------------------------------------------------
(* The motor.  The three invariants are inductive together with the types  *)
(* and the fact that nobody writes a pin that is not wired.                *)
OnlyWired == directed => "direction" \in wired

MotorInv ==
  MotorTypeOK /\ DrivenAsTold /\ DriverFollows /\ DirectionAgrees /\ OnlyWired

LEMMA MotorInit == InitMotor => MotorInv
<1> SUFFICES ASSUME InitMotor PROVE MotorInv
  OBVIOUS
<1> USE DEF InitMotor, IsRunning
<1>1. MotorTypeOK
  BY DEF MotorTypeOK, EnableLevel, DisableLevel, FORWARD, BACKWARD
<1>2. DrivenAsTold /\ DirectionAgrees /\ OnlyWired
  BY DEF DrivenAsTold, DirectionAgrees, OnlyWired
<1>3. DriverFollows
  BY DEF DriverFollows, EnableLevel, DisableLevel
<1> QED BY <1>1, <1>2, <1>3 DEF MotorInv

LEMMA MotorStep == MotorInv /\ [MotorNext]_motorVars => MotorInv'
<1> SUFFICES ASSUME MotorInv, [MotorNext]_motorVars PROVE MotorInv'
  OBVIOUS
<1> USE MotorAssumption DEF MotorInv, MotorTypeOK, DrivenAsTold, DriverFollows,
      DirectionAgrees, OnlyWired, IsRunning, EnableLevel, DisableLevel, EnablePin,
      FORWARD, BACKWARD, pinVars
<1>1. CASE Run
  BY <1>1 DEF Run
<1>2. CASE Stop
  <2>1. MotorTypeOK' /\ DrivenAsTold' /\ DirectionAgrees' /\ OnlyWired'
    BY <1>2 DEF Stop
  <2>2. DriverFollows'
    BY <1>2 DEF Stop
  <2> QED BY <2>1, <2>2
<1>3. CASE Enable
  BY <1>3 DEF Enable
<1>4. CASE Disable
  BY <1>4 DEF Disable
<1>5. ASSUME NEW duty \in Duties, PwmConfig(duty) PROVE MotorInv'
  BY <1>5 DEF PwmConfig
<1>6. ASSUME NEW duty \in Duties, SetSpeed(duty) PROVE MotorInv'
  BY <1>6 DEF SetSpeed
<1>7. ASSUME NEW reversed \in BOOLEAN, SetEnableReversed(reversed)
      PROVE MotorInv'
  BY <1>7 DEF SetEnableReversed
<1>8. ASSUME NEW direction \in {FORWARD, BACKWARD}, SetDirection(direction)
      PROVE MotorInv'
  BY <1>8 DEF SetDirection
<1>9. CASE ReverseDirection
  <2> DEFINE direction == IF CurrentDirection = BACKWARD THEN FORWARD ELSE BACKWARD
  <2>1. direction \in {FORWARD, BACKWARD}
    OBVIOUS
  <2>2. CASE SetDirection(direction)
    <3> HIDE DEF direction
    <3> QED BY <1>8, <2>1, <2>2
  <2>3. CASE ~SetDirection(direction)
    <3>1. /\ "direction" \notin wired /\ CurrentDirection' = direction
          /\ UNCHANGED <<wired, CurrentState, EnbReversed, PwmDuty, pinVars,
                         directed, tampered>>
      BY <1>9, <2>3 DEF ReverseDirection
    <3>2. MotorTypeOK' /\ DrivenAsTold' /\ DirectionAgrees' /\ OnlyWired'
      BY <2>1, <3>1
    <3>3. DriverFollows'
      BY <3>1
    <3> QED BY <3>2, <3>3
  <2> QED BY <2>2, <2>3
<1>10. CASE UNCHANGED motorVars
  BY <1>10 DEF motorVars
<1> QED BY <1>1, <1>2, <1>3, <1>4, <1>5, <1>6, <1>7, <1>8, <1>9, <1>10
        DEF MotorNext

-----------------------------------------------------------------------------
(* The lamp.                                                               *)
(* Rounding to milliseconds loses less than one of them.                   *)
LEMMA Rounding ==
  ASSUME NEW t \in Nat, NEW m \in Nat \ {0}
  PROVE  /\ t \div m \in Nat
         /\ m * (t \div m) <= t
         /\ t < m * (t \div m) + m
OBVIOUS

(* A multiple of m grows with its factor.                                  *)
LEMMA Multiples ==
  ASSUME NEW m \in Nat \ {0}, NEW a \in Int, NEW b \in Int, a <= b
  PROVE  m * a <= m * b
OBVIOUS

(* A later time is not an earlier millisecond.                             *)
LEMMA Monotonic ==
  ASSUME NEW s \in Nat, NEW t \in Nat, NEW m \in Nat \ {0}, s <= t
  PROVE  s \div m <= t \div m
<1> DEFINE p == s \div m  q == t \div m
<1>1. p \in Nat /\ q \in Nat /\ m * p <= s /\ t < m * q + m
  BY Rounding
<1>2. SUFFICES ASSUME q + 1 <= p PROVE FALSE
  BY <1>1
<1> HIDE DEF p, q
<1>3. m * (q + 1) <= m * p
  BY <1>1, <1>2, Multiples
<1>4. m * (q + 1) = m * q + m
  BY <1>1
<1> QED BY <1>1, <1>3, <1>4

(* What the lamp needs to go out in time: the time stamp is that of the    *)
(* last On(), which is past unless the clock was set back, and State is    *)
(* right unless the polarity was changed.                                  *)
Stamped ==
  State = "ON" =>
    /\ LedOnTimestamp = onAt \div MsUs
    /\ steady => onAt <= now

StateRight == asWired => (Shines <=> State = "ON")

LedInv == LedTypeOK /\ Stamped /\ StateRight

LEMMA LedInit == InitLed => LedInv
<1> SUFFICES ASSUME InitLed PROVE LedInv
  OBVIOUS
<1> USE LedAssumption DEF InitLed
<1>1. 0 \in 0..(MaxTime \div MsUs)
  BY Rounding
<1>2. LedTypeOK
  <2>1. now \in 1..MaxTime /\ onAt \in 0..MaxTime /\ pin \in {0, 1}
    BY DEF LitLevel
  <2>2. IsReversed \in BOOLEAN /\ steady \in BOOLEAN /\ asWired \in BOOLEAN
    OBVIOUS
  <2> QED BY <1>1, <2>1, <2>2 DEF LedTypeOK
<1>3. State # "ON"
  OBVIOUS
<1>4. ~Shines
  BY DEF Shines, LitLevel
<1> HIDE DEF InitLed
<1>5. Stamped
  BY <1>3 DEF Stamped
<1>6. StateRight
  BY <1>3, <1>4 DEF StateRight
<1> QED BY <1>2, <1>5, <1>6 DEF LedInv

LEMMA LedStep == LedInv /\ [LedNext]_ledVars => LedInv'
<1> SUFFICES ASSUME LedInv, [LedNext]_ledVars PROVE LedInv'
  OBVIOUS
<1> USE LedAssumption DEF LedInv, LedTypeOK, Stamped, StateRight, Shines, LitLevel
<1>1. CASE TimePasses
  BY <1>1 DEF TimePasses
<1>2. CASE ClockSetBack
  <2>1. now' \in 1..MaxTime
    BY <1>2 DEF ClockSetBack
  <2>2. /\ UNCHANGED <<State, LedOnTimestamp, AutoTurnOffInterval, onAt, asWired,
                       pin, IsReversed>>
        /\ steady' = FALSE
    BY <1>2 DEF ClockSetBack
  <2>3. Stamped'
    BY <2>2
  <2>4. StateRight'
    BY <2>2
  <2>5. LedTypeOK'
    BY <2>1, <2>2
  <2> QED BY <2>3, <2>4, <2>5
<1>3. CASE On
  <2>1. millis \in 0..(MaxTime \div MsUs)
    BY Rounding, Monotonic DEF millis
  <2> QED BY <1>3, <2>1 DEF On, millis
<1>4. CASE Off
  BY <1>4 DEF Off
<1>5. CASE LedTick
  BY <1>5 DEF LedTick, Off
<1>6. ASSUME NEW reversed \in BOOLEAN, SetReversedPolarity(reversed)
      PROVE LedInv'
  BY <1>6 DEF SetReversedPolarity
<1>7. CASE UNCHANGED ledVars
  BY <1>7 DEF ledVars
<1> QED BY <1>1, <1>2, <1>3, <1>4, <1>5, <1>6, <1>7 DEF LedNext

(* Tick()'s test, made of rounded times, against the true ones.            *)
LEMMA LedInTime == LedInv => OnInTime
<1> SUFFICES ASSUME LedInv, Shines, steady, asWired
             PROVE  /\ State = "ON"
                    /\ Expired => now - onAt > AutoTurnOffInterval * MsUs
                    /\ now - onAt >= (AutoTurnOffInterval + 1) * MsUs => Expired
  BY DEF OnInTime
<1>1. State = "ON" /\ LedOnTimestamp = onAt \div MsUs /\ onAt <= now
  BY DEF LedInv, Stamped, StateRight
<1>2. /\ now \in Nat /\ onAt \in Nat /\ AutoTurnOffInterval \in Nat
      /\ now < Width /\ MsUs \in Nat \ {0} /\ Width \in Nat
  BY LedAssumption DEF LedInv, LedTypeOK
<1> DEFINE p == onAt \div MsUs  q == now \div MsUs  i == AutoTurnOffInterval
           m == MsUs
<1>3. /\ p \in Nat /\ m * p <= onAt /\ onAt < m * p + m
      /\ q \in Nat /\ m * q <= now /\ now < m * q + m
  BY <1>2, Rounding
<1>4. p <= q
  BY <1>1, <1>2, Monotonic
<1>5. q <= now
  <2>1. 1 * q <= m * q
    BY <1>2, <1>3
  <2> QED BY <1>2, <1>3, <2>1
<1>6. Expired <=> q - p > i
  <2>1. q - p \in 0..(Width - 1)
    BY <1>2, <1>3, <1>4, <1>5
  <2>2. (q - p) % Width = q - p
    BY <1>2, <2>1
  <2> QED BY <1>1, <2>2 DEF Expired, millis
<1>7. i \in Nat /\ m \in Nat \ {0} /\ now \in Nat /\ onAt \in Nat
  BY <1>2
<1>8. ASSUME q - p > i PROVE now - onAt > i * m
  <2> HIDE DEF p, q, i, m
  <2>1. m * (p + i + 1) <= m * q
    BY <1>3, <1>7, <1>8, Multiples
  <2>2. m * (p + i + 1) = m * p + i * m + m
    BY <1>3, <1>7
  <2> QED BY <1>3, <1>7, <2>1, <2>2
<1>9. ASSUME now - onAt >= (i + 1) * m PROVE q - p > i
  <2> HIDE DEF p, q, i, m
  <2>1. SUFFICES ASSUME q <= p + i PROVE FALSE
    BY <1>3, <1>7
  <2>2. m * q <= m * (p + i)
    BY <1>3, <1>7, <2>1, Multiples
  <2>3. m * (p + i) = m * p + i * m /\ (i + 1) * m = i * m + m
    BY <1>3, <1>7
  <2> QED BY <1>3, <1>7, <1>9, <2>2, <2>3
<1> QED BY <1>1, <1>6, <1>8, <1>9

-----------------------------------------------------------------------------
(* The invariants of a program that uses either.                           *)
Inv == MotorInv /\ LedInv

LEMMA Invariance == Spec => []Inv
<1>1. Init => Inv
  BY MotorInit, LedInit DEF Init, Inv
<1>2. Inv /\ [Next]_vars => Inv'
  BY MotorStep, LedStep DEF Inv, Next, vars
<1> QED BY <1>1, <1>2, PTL DEF Spec

(* The members and the pins of both objects keep their types.              *)
THEOREM TypeCorrect == Spec => []TypeOK
<1>1. Inv => TypeOK
  BY DEF Inv, MotorInv, LedInv, TypeOK
<1> QED BY <1>1, Invariance, PTL

(* The duty cycle on the pulse pin is the one last configured while the    *)
(* motor runs, and zero while it is stopped, after any calls.              *)
THEOREM DrivenSafe == Spec => []DrivenAsTold
<1>1. Inv => DrivenAsTold
  BY DEF Inv, MotorInv
<1> QED BY <1>1, Invariance, PTL

(* The enable pin follows Run() and Stop(), whichever polarity is chosen   *)
(* before them.                                                            *)
THEOREM FollowsSafe == Spec => []DriverFollows
<1>1. Inv => DriverFollows
  BY DEF Inv, MotorInv
<1> QED BY <1>1, Invariance, PTL

(* Once written, the direction pin agrees with CurrentDirection.           *)
THEOREM DirectionSafe == Spec => []DirectionAgrees
<1>1. Inv => DirectionAgrees
  BY DEF Inv, MotorInv
<1> QED BY <1>1, Invariance, PTL

(* The members and the pins of a motor agree after any calls.              *)
THEOREM MotorSafe == Spec => []MotorAgrees
<1>1. Inv => MotorAgrees
  BY DEF Inv, MotorInv, MotorAgrees
<1> QED BY <1>1, Invariance, PTL

(* Tick() turns a lamp off in time, for every interval and every           *)
(* resolution of the clock.                                                *)
THEOREM InTime == Spec => []OnInTime
<1>1. Inv => OnInTime
  BY LedInTime DEF Inv
<1> QED BY <1>1, Invariance, PTL

-----------------------------------------------------------------------------
(* The SPI device.  A setter that is under way has read every bit as it    *)
(* was asked for, but those that are lost and those that others have       *)
(* written since.                                                          *)
SpiTypeOK ==
  /\ mode \in SUBSET ModeBits /\ asked \in SUBSET ModeBits
  /\ at \in [Users -> {"idle", "set mode", "transfer"}]
  /\ change \in [Users -> [clear : SUBSET ModeBits, set : SUBSET ModeBits]]
  /\ snapshot \in [Users -> SUBSET ModeBits]
  /\ since \in [Users -> SUBSET ModeBits] /\ lost \in SUBSET ModeBits

ReadAsAsked ==
  \A u \in Users : at[u] = "set mode" =>
    \A b \in ModeBits \ (lost \cup since[u]) : b \in snapshot[u] <=> b \in asked

SpiInv == SpiTypeOK /\ OnlyOverlapsLose /\ ReadAsAsked

LEMMA SpiInit == InitSpi => SpiInv
  BY DEF InitSpi, SpiInv, SpiTypeOK, OnlyOverlapsLose, ReadAsAsked, NoChange

LEMMA SettersTyped == Setters \subseteq [clear : SUBSET ModeBits, set : SUBSET ModeBits]
  BY DEF Setters, SetClockMode, SetCSActiveLow, SetCSActiveHigh, EnableCS, DisableCS,
     EnableLoopback, DisableLoopback, Enable3Wire, Disable3Wire, ModeBits, ClockBits

(* A successful SetMode() keeps the invariant if what it writes is right   *)
(* but for the bits lost so.                                               *)
LEMMA ModeSet ==
  ASSUME SpiInv, NEW u \in Users, NEW m \in SUBSET ModeBits,
         NEW c \in [clear : SUBSET ModeBits, set : SUBSET ModeBits],
         SetMode(u, c, m),
         at' = [at EXCEPT ![u] = "idle"] \/ (at' = at /\ at[u] = "idle"),
         snapshot' = [snapshot EXCEPT ![u] = {}] \/ snapshot' = snapshot,
         change' = [change EXCEPT ![u] = NoChange] \/ change' = change,
         \A b \in ModeBits \ ((lost \cup since[u]) \ (c.clear \cup c.set)) :
           b \in m <=> b \in (asked \ c.clear) \cup c.set
  PROVE  SpiInv'
<1> USE DEF SpiInv, SpiTypeOK
<1> DEFINE mine == c.clear \cup c.set
<1>1. /\ at' \in [Users -> {"idle", "set mode", "transfer"}] /\ at'[u] = "idle"
      /\ snapshot' \in [Users -> SUBSET ModeBits]
      /\ \A v \in Users \ {u} : at'[v] = at[v] /\ snapshot'[v] = snapshot[v]
  OBVIOUS
<1>2. change' \in [Users -> [clear : SUBSET ModeBits, set : SUBSET ModeBits]]
  <2>1. NoChange \in [clear : SUBSET ModeBits, set : SUBSET ModeBits]
    BY DEF NoChange
  <2> QED BY <2>1
<1>3. CASE /\ mode' = m
           /\ asked' = (asked \ c.clear) \cup c.set
           /\ lost' = (lost \cup since[u]) \ mine
           /\ since' = [v \in Users |->
                         IF v # u /\ at[v] = "set mode" THEN since[v] \cup mine
                         ELSE {}]
  <2>1. SpiTypeOK'
    BY <1>1, <1>2, <1>3
  <2>2. OnlyOverlapsLose'
    BY <1>3 DEF OnlyOverlapsLose
  <2>3. ASSUME NEW v \in Users, at'[v] = "set mode",
               NEW b \in ModeBits, b \notin lost', b \notin since'[v]
        PROVE  b \in snapshot'[v] <=> b \in asked'
    <3>1. v # u /\ at[v] = "set mode" /\ since'[v] = since[v] \cup mine
      BY <1>1, <1>3, <2>3
    <3>2. b \notin mine /\ b \notin lost /\ b \notin since[v]
      BY <1>3, <2>3, <3>1
    <3>3. b \in snapshot[v] <=> b \in asked
      BY <2>3, <3>1, <3>2 DEF ReadAsAsked
    <3>4. b \in asked' <=> b \in asked
      BY <1>3, <3>2
    <3> QED BY <1>1, <3>1, <3>3, <3>4
  <2> QED BY <2>1, <2>2, <2>3 DEF ReadAsAsked
<1>4. CASE since' = [since EXCEPT ![u] = {}] /\ UNCHANGED <<mode, asked, lost>>
  <2>1. SpiTypeOK'
    BY <1>1, <1>2, <1>4
  <2>2. OnlyOverlapsLose'
    BY <1>4 DEF OnlyOverlapsLose
  <2>3. ASSUME NEW v \in Users, at'[v] = "set mode",
               NEW b \in ModeBits, b \notin lost', b \notin since'[v]
        PROVE  b \in snapshot'[v] <=> b \in asked'
    <3>1. v # u /\ at[v] = "set mode" /\ since'[v] = since[v]
      BY <1>1, <1>4, <2>3
    <3>2. b \in snapshot[v] <=> b \in asked
      BY <1>4, <2>3, <3>1 DEF ReadAsAsked
    <3> QED BY <1>1, <1>4, <3>1, <3>2
  <2> QED BY <2>1, <2>2, <2>3 DEF ReadAsAsked
<1> QED BY <1>3, <1>4 DEF SetMode

LEMMA SpiStep == SpiInv /\ [SpiNext]_spiVars => SpiInv'
<1> SUFFICES ASSUME SpiInv, [SpiNext]_spiVars PROVE SpiInv'
  OBVIOUS
<1> USE DEF SpiInv, SpiTypeOK, deviceVars, setterVars, transferVars
<1>1. ASSUME NEW u \in Users, NEW c \in Setters, GetMode(u, c) PROVE SpiInv'
  <2>1. CASE UNCHANGED <<at, setterVars>>
    BY <1>1, <2>1 DEF GetMode, OnlyOverlapsLose, ReadAsAsked
  <2>2. CASE /\ at' = [at EXCEPT ![u] = "set mode"]
             /\ change' = [change EXCEPT ![u] = c]
             /\ snapshot' = [snapshot EXCEPT ![u] = mode]
             /\ since' = [since EXCEPT ![u] = {}]
             /\ UNCHANGED <<asked, lost>>
    <3>1. mode' = mode
      BY <1>1 DEF GetMode
    <3>2. SpiTypeOK'
      BY <1>1, <2>2, <3>1, SettersTyped
    <3>3. OnlyOverlapsLose' /\ ReadAsAsked'
      BY <2>2, <3>1 DEF OnlyOverlapsLose, ReadAsAsked
    <3> QED BY <3>2, <3>3
  <2> QED BY <1>1, <2>1, <2>2 DEF GetMode
<1>2. ASSUME NEW u \in Users, Sets(u) PROVE SpiInv'
  <2> DEFINE c == change[u]
             m == (snapshot[u] \ c.clear) \cup c.set
  <2>1. /\ c \in [clear : SUBSET ModeBits, set : SUBSET ModeBits]
        /\ m \in SUBSET ModeBits
    OBVIOUS
  <2>2. \A b \in ModeBits \ ((lost \cup since[u]) \ (c.clear \cup c.set)) :
          b \in m <=> b \in (asked \ c.clear) \cup c.set
    BY <1>2 DEF Sets, ReadAsAsked
  <2> HIDE DEF c, m
  <2>3. SetMode(u, c, m)
    BY <1>2 DEF Sets, c, m
  <2>4. /\ at' = [at EXCEPT ![u] = "idle"]
        /\ snapshot' = [snapshot EXCEPT ![u] = {}]
        /\ change' = [change EXCEPT ![u] = NoChange]
    BY <1>2 DEF Sets
  <2> QED BY <2>1, <2>2, <2>3, <2>4, ModeSet
<1>3. ASSUME NEW u \in Users, NEW m \in {{}, ModeBits}, SetsAll(u, m) PROVE SpiInv'
  <2> DEFINE c == [clear |-> ModeBits, set |-> m]
  <2>1. /\ c \in [clear : SUBSET ModeBits, set : SUBSET ModeBits]
        /\ m \in SUBSET ModeBits /\ c.clear = ModeBits /\ c.set = m
    OBVIOUS
  <2>2. SetMode(u, c, m) /\ at[u] = "idle" /\ UNCHANGED <<at, snapshot, change>>
    BY <1>3 DEF SetsAll, Calls
  <2> HIDE DEF c
  <2> QED BY <2>1, <2>2, ModeSet
<1>4. ASSUME NEW u \in Users, NEW b \in WordSizes, SetBitsPerWord(u, b) PROVE SpiInv'
  BY <1>4 DEF SetBitsPerWord, OnlyOverlapsLose, ReadAsAsked
<1>5. ASSUME NEW u \in Users, NEW s \in Speeds, SetSpeedHz(u, s) PROVE SpiInv'
  BY <1>5 DEF SetSpeedHz, OnlyOverlapsLose, ReadAsAsked
<1>6. ASSUME NEW u \in Users, NEW t \in Transfers, GetBitsPerWord(u, t) PROVE SpiInv'
  BY <1>6 DEF GetBitsPerWord, OnlyOverlapsLose, ReadAsAsked
<1>7. ASSUME NEW u \in Users, Message(u) PROVE SpiInv'
  BY <1>7 DEF Message, Sends, OnlyOverlapsLose, ReadAsAsked
<1>8. CASE UNCHANGED spiVars
  BY <1>8 DEF spiVars, OnlyOverlapsLose, ReadAsAsked
<1> QED BY <1>1, <1>2, <1>3, <1>4, <1>5, <1>6, <1>7, <1>8 DEF SpiNext

-----------------------------------------------------------------------------
(* Transfers.  What is lost by rounding down to whole words.               *)
LEMMA Quotient ==
  ASSUME NEW b \in Nat \ {0}, NEW x \in Nat, NEW n \in Nat
  PROVE  n <= x \div b <=> b * n <= x
<1> DEFINE q == x \div b
<1>1. q \in Nat /\ b * q <= x /\ x < b * q + b
  BY Rounding
<1> HIDE DEF q
<1>2. ASSUME n <= q PROVE b * n <= x
  <2>1. b * n <= b * q
    BY <1>1, <1>2, Multiples
  <2>2. b * n \in Nat /\ b * q \in Nat
    BY <1>1
  <2> QED BY <1>1, <2>1, <2>2
<1>3. ASSUME q + 1 <= n PROVE x < b * n
  <2>1. b * (q + 1) <= b * n
    BY <1>1, <1>3, Multiples
  <2>2. b * (q + 1) = b * q + b /\ b * n \in Nat /\ b * q \in Nat
    BY <1>1
  <2> QED BY <1>1, <2>1, <2>2
<1>4. n <= q <=> b * n <= x
  <2>1. b * n \in Nat
    OBVIOUS
  <2> QED BY <1>1, <1>2, <1>3, <2>1
<1> QED BY <1>4 DEF q

(* For words of whole bytes, as many as fit into one message.              *)
LEMMA WholeWords ==
  ASSUME NEW b \in Nat \ {0}, b % 8 = 0, NEW n \in Nat
  PROVE  /\ Bytes(b, n) \in Nat
         /\ (Bytes(b, n) * 8) \div b = Least(n, (MaxTransferSize * 8) \div b)
<1> DEFINE p == b * n  M == MaxTransferSize
<1>1. p \in Nat /\ M \in Nat
  BY SpiAssumption
<1>2. p % 8 = 0
  <2> DEFINE k == b \div 8
  <2>1. k \in Nat /\ b = 8 * k
    OBVIOUS
  <2> HIDE DEF k
  <2>2. k * n \in Nat /\ p = 8 * (k * n)
    BY <2>1
  <2> HIDE DEF p
  <2> QED BY <2>2
<1> HIDE DEF p, M
<1>3. (p + 4) \div 8 = p \div 8 /\ (p \div 8) * 8 = p /\ p \div 8 \in Nat
  BY <1>1, <1>2
<1>4. Bytes(b, n) = Least(p \div 8, M)
  BY <1>3 DEF Bytes, p, M
<1>5. Bytes(b, n) \in Nat /\ Bytes(b, n) * 8 = Least(p, M * 8)
  BY <1>1, <1>3, <1>4 DEF Least
<1>6. p \div b = n
  <2>1. n <= p \div b
    BY <1>1, Quotient DEF p
  <2>2. ~(n + 1 <= p \div b)
    <3>1. b * (n + 1) = p + b
      BY DEF p
    <3> QED BY <1>1, <3>1, Quotient
  <2>3. p \div b \in Nat
    BY <1>1, Rounding
  <2> QED BY <2>1, <2>2, <2>3
<1>7. (M * 8) \div b \in Nat
  BY <1>1, Rounding
<1>8. n <= (M * 8) \div b <=> p <= M * 8
  BY <1>1, Quotient DEF p
<1>9. Least(p, M * 8) \div b = Least(n, (M * 8) \div b)
  <2>1. CASE p < M * 8
    BY <1>1, <1>6, <1>7, <1>8, <2>1 DEF Least
  <2>2. CASE p = M * 8
    BY <1>1, <1>6, <1>7, <1>8, <2>2 DEF Least
  <2>3. CASE p > M * 8
    BY <1>1, <1>6, <1>7, <1>8, <2>3 DEF Least
  <2> QED BY <1>1, <2>1, <2>2, <2>3
<1> QED BY <1>5, <1>9 DEF M

(* The nearest number of bytes, or as many as one message may hold.        *)
LEMMA NearestBytes ==
  ASSUME NEW b \in Nat \ {0}, NEW n \in Nat
  PROVE  /\ Bytes(b, n) \in Nat /\ Bytes(b, n) <= MaxTransferSize
         /\ 8 * Bytes(b, n) <= b * n + 4
         /\ 8 * Bytes(b, n) > b * n - 4 \/ Bytes(b, n) = MaxTransferSize
<1> DEFINE p == b * n  M == MaxTransferSize  q == (p + 4) \div 8
<1>1. p \in Nat /\ M \in Nat
  BY SpiAssumption
<1>2. Bytes(b, n) = Least(q, M)
  BY DEF Bytes
<1> HIDE DEF p, M
<1>3. q \in Nat /\ 8 * q <= p + 4 /\ 8 * q > p - 4
  BY <1>1
<1> HIDE DEF q
<1>4. /\ Least(q, M) \in Nat /\ Least(q, M) <= M /\ 8 * Least(q, M) <= p + 4
      /\ 8 * Least(q, M) > p - 4 \/ Least(q, M) = M
  BY <1>1, <1>3 DEF Least
<1> QED BY <1>2, <1>4 DEF p, M

(* The words returned: none that was not received; and for words of five   *)
(* bits or more, none that was not asked for and at most one too few.      *)
LEMMA NearestWords ==
  ASSUME NEW b \in Nat \ {0}, NEW n \in Nat
  PROVE  LET r == (Bytes(b, n) * 8) \div b
             most == Least(n, (MaxTransferSize * 8) \div b)
         IN /\ r \in Nat /\ b * r <= 8 * Bytes(b, n)
            /\ b >= 5 => r <= most /\ r >= most - 1
<1> DEFINE B == Bytes(b, n)  M == MaxTransferSize  p == b * n
           r == (B * 8) \div b  l == (M * 8) \div b
<1>1. /\ B \in Nat /\ M \in Nat /\ B <= M /\ p \in Nat
      /\ 8 * B <= p + 4 /\ (8 * B > p - 4 \/ B = M)
  <2>1. p \in Nat /\ M \in Nat
    BY SpiAssumption
  <2>2. /\ B \in Nat /\ B <= M /\ 8 * B <= p + 4
        /\ 8 * B > p - 4 \/ B = M
    <3> HIDE DEF B, p, M
    <3> QED BY NearestBytes, Zenon DEF B, p, M
  <2> QED BY <2>1, <2>2
<1> HIDE DEF B, M
<1>2. r \in Nat /\ b * r <= B * 8 /\ B * 8 < b * r + b
  BY <1>1, Rounding
<1>3. l \in Nat /\ b * l <= M * 8 /\ M * 8 < b * l + b
  BY <1>1, Rounding
<1> HIDE DEF r, l
<1>4. r <= l
  <2>1. b * r \in Nat /\ b * r <= M * 8
    BY <1>1, <1>2
  <2> QED BY <1>1, <1>2, <2>1, Quotient DEF l
<1>5. ASSUME b >= 5 PROVE r <= n
  <2> SUFFICES ASSUME n + 1 <= r PROVE FALSE
    BY <1>2
  <2>1. b * (n + 1) <= b * r
    BY <1>2, Multiples
  <2>2. b * (n + 1) = p + b /\ b * r \in Nat
    BY <1>2
  <2> HIDE DEF p
  <2> QED BY <1>1, <1>2, <1>5, <2>1, <2>2
<1>6. ASSUME b >= 5, r + 2 <= n, r + 2 <= l PROVE FALSE
  <2>1. b * (r + 2) <= b * n /\ b * (r + 2) <= b * l
    BY <1>2, <1>3, <1>6, Multiples
  <2>2. b * (r + 2) = b * r + b + b /\ b * r \in Nat /\ b * l \in Nat /\ b * n = p
    BY <1>2, <1>3
  <2> HIDE DEF p
  <2> QED BY <1>1, <1>2, <1>3, <1>6, <2>1, <2>2
<1>7. b >= 5 => r <= Least(n, l) /\ r >= Least(n, l) - 1
  BY <1>2, <1>3, <1>4, <1>5, <1>6 DEF Least
<1>8. r = (Bytes(b, n) * 8) \div b /\ l = (MaxTransferSize * 8) \div b
  BY DEF r, l, B, M
<1>9. b * r <= 8 * Bytes(b, n)
  BY <1>1, <1>2 DEF B
<1> QED BY <1>2, <1>7, <1>8, <1>9

CallTypes ==
  [call : {"Read", "Write", "Transaction", "Transfer"}, tx : Nat, rx : Nat]

TransferTypeOK ==
  /\ bits \in WordSizes
  /\ word \in [Users -> WordSizes]
  /\ want \in [Users -> CallTypes]

(* The last call, when it has returned: its lengths are in words of the    *)
(* size that the device was told.                                          *)
DoneAsComputed ==
  LET rx == RxBytes(done.want, done.bits)
  IN /\ done.bits \in WordSizes
     /\ done.want \in CallTypes
     /\ done.txLen = TxBytes(done.want, done.bits)
     /\ done.rxLen = rx \/ (done.want.call = "Transaction" /\ done.rxLen = rx + 1)
     /\ done.want.call # "Write" => done.result = (rx * 8) \div done.bits

TransferInv == TransferTypeOK /\ DoneAsComputed

LEMMA TransferInit == InitSpi => TransferInv
<1> SUFFICES ASSUME InitSpi PROVE TransferInv
  OBVIOUS
<1>1. TransferTypeOK
  BY SpiAssumption DEF InitSpi, TransferTypeOK, NoTransfer, CallTypes
<1>2. /\ done.bits = 8 /\ done.want = NoTransfer
      /\ done.txLen = 0 /\ done.rxLen = 0 /\ done.result = 0
  BY DEF InitSpi, NothingDone
<1>3. Bytes(8, 0) = 0
  BY SpiAssumption DEF Bytes, Least
<1>4. /\ NoTransfer \in CallTypes
      /\ TxBytes(NoTransfer, 8) = 0 /\ RxBytes(NoTransfer, 8) = 0
  BY <1>3 DEF NoTransfer, CallTypes, TxBytes, RxBytes, Count
<1>5. DoneAsComputed
  BY <1>2, <1>4, SpiAssumption DEF DoneAsComputed
<1> QED BY <1>1, <1>5 DEF TransferInv

LEMMA TransferStep == TransferInv /\ [SpiNext]_spiVars => TransferInv'
<1> SUFFICES ASSUME TransferInv, [SpiNext]_spiVars PROVE TransferInv'
  OBVIOUS
<1> USE DEF TransferInv, TransferTypeOK, deviceVars, setterVars, transferVars
<1>0. Transfers \subseteq CallTypes
  BY SpiAssumption DEF Transfers, Read, Write, Transfer, Transaction, CallTypes
<1>1. ASSUME UNCHANGED <<bits, word, want, done>> PROVE TransferInv'
  BY <1>1 DEF DoneAsComputed
<1>2. ASSUME NEW u \in Users, NEW t \in Transfers, GetBitsPerWord(u, t) PROVE TransferInv'
  <2>1. bits' = bits
    BY <1>2 DEF GetBitsPerWord
  <2>2. TransferTypeOK'
    BY <1>0, <1>2, <2>1 DEF GetBitsPerWord
  <2>3. CASE done' = done
    BY <2>1, <2>2, <2>3 DEF DoneAsComputed
  <2>4. CASE done' # done
    <3>1. /\ TxBytes(t, bits) = 0 /\ RxBytes(t, bits) = 0
          /\ done' = [want |-> t, txLen |-> 0, rxLen |-> 0, bits |-> bits, result |-> 0]
      BY <1>2, <2>4 DEF GetBitsPerWord
    <3>2. /\ done'.want = t /\ done'.txLen = 0 /\ done'.rxLen = 0
          /\ done'.bits = bits /\ done'.result = 0
      BY <3>1
    <3>3. bits \in Nat \ {0} /\ (0 * 8) \div bits = 0
      BY SpiAssumption
    <3>4. DoneAsComputed'
      BY <1>0, <3>1, <3>2, <3>3 DEF DoneAsComputed, TxBytes, RxBytes, Count
    <3> QED BY <2>2, <3>4
  <2> QED BY <2>3, <2>4
<1>3. ASSUME NEW u \in Users, Message(u) PROVE TransferInv'
  <2>1. TransferTypeOK'
    BY <1>3, SpiAssumption DEF Message, Sends, NoTransfer, CallTypes
  <2>2. CASE done' = done
    BY <2>1, <2>2 DEF DoneAsComputed
  <2>3. CASE done' # done
    <3> DEFINE t == want[u]  b == word[u]
    <3>1. done' = Made(t, b, b)
      BY <1>3, <2>3 DEF Message, Sends
    <3>2. b \in WordSizes /\ t \in CallTypes
      OBVIOUS
    <3> HIDE DEF t, b
    <3>3. /\ done'.want = t /\ done'.bits = b /\ done'.txLen = TxBytes(t, b)
          /\ done'.rxLen = RxBytes(t, b) +
                IF t.call = "Transaction" /\ RxBytes(t, b) > 0 THEN 1 ELSE 0
          /\ done'.result = IF t.call = "Write" THEN 1 ELSE (RxBytes(t, b) * 8) \div b
      BY <3>1 DEF Made
    <3>4. RxBytes(t, b) \in Nat
      <4>1. b \in Nat \ {0} /\ Count(t, t.rx) \in Nat
        BY <3>2, SpiAssumption DEF Count, CallTypes
      <4> QED BY <4>1, NearestBytes DEF RxBytes
    <3>5. DoneAsComputed'
      BY <3>2, <3>3, <3>4 DEF DoneAsComputed, TxBytes, RxBytes, Count
    <3> QED BY <2>1, <3>5
  <2> QED BY <2>2, <2>3
<1>4. ASSUME NEW u \in Users, NEW b \in WordSizes, SetBitsPerWord(u, b) PROVE TransferInv'
  BY <1>4 DEF SetBitsPerWord, DoneAsComputed
<1>5. ASSUME NEW u \in Users, NEW c \in Setters, GetMode(u, c) PROVE TransferInv'
  BY <1>1, <1>5 DEF GetMode
<1>6. ASSUME NEW u \in Users, Sets(u) PROVE TransferInv'
  BY <1>1, <1>6 DEF Sets
<1>7. ASSUME NEW u \in Users, NEW m \in {{}, ModeBits}, SetsAll(u, m) PROVE TransferInv'
  BY <1>1, <1>7 DEF SetsAll
<1>8. ASSUME NEW u \in Users, NEW s \in Speeds, SetSpeedHz(u, s) PROVE TransferInv'
  BY <1>1, <1>8 DEF SetSpeedHz
<1>9. CASE UNCHANGED spiVars
  BY <1>1, <1>9 DEF spiVars
<1> QED BY <1>2, <1>3, <1>4, <1>5, <1>6, <1>7, <1>8, <1>9 DEF SpiNext

LEMMA TransferWords == TransferInv => WordsAsAsked
<1> SUFFICES ASSUME TransferInv PROVE WordsAsAsked
  OBVIOUS
<1> DEFINE b == done.bits  t == done.want
           words(n) == IF t.call = "Transfer" THEN n % CharRange ELSE n
           tx == words(t.tx)  rx == words(t.rx)
           most == Least(rx, (MaxTransferSize * 8) \div b)
           moves(length, n) ==
             /\ 8 * length <= b * n + 4
             /\ 8 * length > b * n - 4 \/ length = MaxTransferSize
<1>1. b \in Nat \ {0} /\ tx \in Nat /\ rx \in Nat
  <2>1. /\ b \in Nat \ {0} /\ CharRange \in Nat \ {0}
        /\ t.tx \in Nat /\ t.rx \in Nat
    BY SpiAssumption DEF TransferInv, DoneAsComputed, CallTypes
  <2> HIDE DEF b, t
  <2> QED BY <2>1
<1>2. /\ done.txLen = Bytes(b, tx)
      /\ done.rxLen = Bytes(b, rx) \/ (t.call = "Transaction" /\ done.rxLen = Bytes(b, rx) + 1)
      /\ t.call # "Write" => done.result = (Bytes(b, rx) * 8) \div b
  BY DEF TransferInv, DoneAsComputed, TxBytes, RxBytes, Count
<1> HIDE DEF b, t, tx, rx
<1>3. moves(Bytes(b, tx), tx) /\ moves(Bytes(b, rx), rx) /\ Bytes(b, rx) \in Nat
  BY <1>1, NearestBytes
<1>4. ASSUME t.call # "Write"
      PROVE  /\ done.result * b <= 8 * done.rxLen
             /\ b >= 5 => done.result <= most /\ done.result >= most - 1
             /\ b % 8 = 0 => done.result = most
  <2>1. /\ done.result \in Nat /\ b * done.result <= 8 * Bytes(b, rx)
        /\ b >= 5 => done.result <= most /\ done.result >= most - 1
    BY <1>1, <1>2, <1>4, NearestWords
  <2>2. b % 8 = 0 => done.result = most
    BY <1>1, <1>2, <1>4, WholeWords
  <2>3. done.rxLen \in Nat /\ Bytes(b, rx) <= done.rxLen
    BY <1>2, <1>3
  <2>4. b * done.result = done.result * b /\ done.result * b \in Nat
    BY <1>1, <2>1
  <2>5. done.result * b <= 8 * done.rxLen
    BY <1>3, <2>1, <2>3, <2>4
  <2> QED BY <2>1, <2>2, <2>5
<1>5. /\ moves(done.txLen, tx)
      /\ t.call # "Transaction" => moves(done.rxLen, rx)
  BY <1>2, <1>3
<1> QED BY <1>4, <1>5 DEF WordsAsAsked, b, t, tx, rx

-----------------------------------------------------------------------------
BusInv == SpiInv /\ TransferInv

LEMMA BusInvariance == Spec => []BusInv
<1>1. Init => BusInv
  BY SpiInit, TransferInit DEF Init, BusInv
<1>2. BusInv /\ [Next]_vars => BusInv'
  <2>1. [Next]_vars => [SpiNext]_spiVars
    BY DEF Next, vars
  <2> QED BY <2>1, SpiStep, TransferStep DEF BusInv
<1> QED BY <1>1, <1>2, PTL DEF Spec

(* A mode bit is as it was last asked for, unless a setter of another      *)
(* thread overlapped: for any threads, calls and failures.                 *)
THEOREM OverlapSafe == Spec => []OnlyOverlapsLose
<1>1. BusInv => OnlyOverlapsLose
  BY DEF BusInv, SpiInv
<1> QED BY <1>1, BusInvariance, PTL

(* For every word size, limit and number of words, and whoever changes the *)
(* word size meanwhile: a transfer moves the nearest number of bytes for   *)
(* the words it was asked for, or as much as a message holds, in words of  *)
(* the size by which it has reckoned, and returns no word that it has not  *)
(* received.                                                               *)
THEOREM WordsSafe == Spec => []WordsAsAsked
<1>1. BusInv => WordsAsAsked
  BY TransferWords DEF BusInv
<1> QED BY <1>1, BusInvariance, PTL
=============================================================================
