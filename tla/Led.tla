--------------------------------- MODULE Led ---------------------------------
(***************************************************************************)
(* drivers/Led: a lamp that Tick() turns off when it has been on for       *)
(* longer than an interval.  The interval is 0 with the constructor that   *)
(* has no such argument.  The clock is external; MsUs units of it are a    *)
(* millisecond, and it may be set back.                                    *)
(***************************************************************************)
EXTENDS Integers

CONSTANTS
  Intervals,                \* values of AutoTurnOffInterval, milliseconds
  MsUs,                     \* units of the clock in a millisecond
  Width,                    \* the modulus of uint64_t
  MaxTime                   \* bound: the clock

ASSUME LedAssumption ==
  /\ Intervals \subseteq Nat
  /\ MsUs \in Nat \ {0} /\ MaxTime \in Nat /\ Width \in Nat
  /\ MsUs <= MaxTime /\ MaxTime < Width

VARIABLES
  State, LedOnTimestamp, AutoTurnOffInterval, IsReversed,   \* members
  pin,                      \* the level of the pin
  now,                      \* the clock
  onAt,                     \* history: when On() was called last
  steady,                   \* history: the clock was not set back since On()
  asWired                   \* history: the polarity was not changed since
                            \* On() or Off()

ledVars == <<State, LedOnTimestamp, AutoTurnOffInterval, IsReversed, pin, now,
             onAt, steady, asWired>>

LitLevel(reversed) == IF reversed THEN 0 ELSE 1

InitLed ==
  /\ State = "OFF" /\ LedOnTimestamp = 0
  /\ AutoTurnOffInterval \in Intervals
  /\ IsReversed = FALSE
  /\ pin = 1 - LitLevel(FALSE)
  /\ now = MsUs
  /\ onAt = 0 /\ steady = TRUE /\ asWired = TRUE

millis == now \div MsUs

-----------------------------------------------------------------------------
(* The clock.                                                              *)
TimePasses ==
  /\ now < MaxTime
  /\ now' = now + 1
  /\ UNCHANGED <<State, LedOnTimestamp, AutoTurnOffInterval, IsReversed, pin,
                 onAt, steady, asWired>>

ClockSetBack ==
  /\ now' \in 1..(now - 1)
  /\ steady' = FALSE
  /\ UNCHANGED <<State, LedOnTimestamp, AutoTurnOffInterval, IsReversed, pin,
                 onAt, asWired>>

-----------------------------------------------------------------------------
(* Faulty variants of the operations, Bug<n>_..., stand before the          *)
(* operation they replace: the properties below tell them apart.           *)

(* an On() that does not start the time again when the lamp is on          *)
Bug1_On ==
  /\ LedOnTimestamp' = IF State = "ON" THEN LedOnTimestamp ELSE millis
  /\ pin' = LitLevel(IsReversed)
  /\ State' = "ON"
  /\ onAt' = now /\ steady' = TRUE /\ asWired' = TRUE
  /\ UNCHANGED <<AutoTurnOffInterval, IsReversed, now>>

On ==
  /\ LedOnTimestamp' = millis
  /\ pin' = LitLevel(IsReversed)
  /\ State' = "ON"
  /\ onAt' = now /\ steady' = TRUE /\ asWired' = TRUE
  /\ UNCHANGED <<AutoTurnOffInterval, IsReversed, now>>

(* Off(), which writes the pin whether or not the lamp is on.              *)
Off ==
  /\ pin' = 1 - LitLevel(IsReversed)
  /\ State' = "OFF"
  /\ asWired' = TRUE
  /\ UNCHANGED <<LedOnTimestamp, AutoTurnOffInterval, IsReversed, now, onAt,
                 steady>>

(* Tick(); the difference is taken in unsigned arithmetic.                 *)
Expired == (millis - LedOnTimestamp) % Width > AutoTurnOffInterval

LedTick == State = "ON" /\ Expired /\ Off

SetReversedPolarity(reversed) ==
  /\ IsReversed' = reversed
  /\ asWired' = (asWired /\ reversed = IsReversed)
  /\ UNCHANGED <<State, LedOnTimestamp, AutoTurnOffInterval, pin, now, onAt,
                 steady>>

LedNext ==
  \/ TimePasses \/ ClockSetBack \/ On \/ Off \/ LedTick
  \/ \E reversed \in BOOLEAN : SetReversedPolarity(reversed)

-----------------------------------------------------------------------------
LedTypeOK ==
  /\ State \in {"ON", "OFF"} /\ AutoTurnOffInterval \in Intervals
  /\ LedOnTimestamp \in 0..(MaxTime \div MsUs)
  /\ now \in 1..MaxTime /\ onAt \in 0..MaxTime
  /\ IsReversed \in BOOLEAN /\ pin \in {0, 1}
  /\ steady \in BOOLEAN /\ asWired \in BOOLEAN

(* A lamp that shines is turned off in time: Tick() does it, not before    *)
(* the lamp was on for the whole interval since the last On(), and at the  *)
(* latest a millisecond after that; rounding to milliseconds costs no      *)
(* more.  A clock set back since On() is exempt, and so is a polarity      *)
(* changed since the lamp was switched, which leaves it as it was.         *)
Shines == pin = LitLevel(IsReversed)

OnInTime ==
  Shines /\ steady /\ asWired =>
    /\ State = "ON"
    /\ Expired => now - onAt > AutoTurnOffInterval * MsUs
    /\ now - onAt >= (AutoTurnOffInterval + 1) * MsUs => Expired
=============================================================================
