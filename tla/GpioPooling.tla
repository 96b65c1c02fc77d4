----------------------------- MODULE GpioPooling -----------------------------
(***************************************************************************)
(* drivers/Gpio: an input pin that the main loop polls with Tick(), and    *)
(* the timer that debounces it.  Several inputs share the clock.  The      *)
(* subclasses PushButton and Encoder are in PolledInputs.                  *)
(*                                                                         *)
(* The wires and the clock are external: a level may change at any time,   *)
(* and std::chrono's clock advances, or is set back by the administrator.  *)
(* MsUs units of the clock are a millisecond.  PreviousState, which is     *)
(* written and never read, is left out.                                    *)
(***************************************************************************)
EXTENDS Integers

CONSTANTS
  Inputs,                   \* the GpioPooling objects, one pin each
  Programs,                 \* the sets of them that one program constructs
  DebounceTimeMs,           \* per input
  MsUs,                     \* units of the clock in a millisecond
  Width,                    \* the modulus of uint64_t
  MaxGap,                   \* the main loop calls each Tick() this often
  Start, MaxTime            \* the clock at construction; bound: the clock

ASSUME PoolingAssumption ==
  /\ DebounceTimeMs \in [Inputs -> Nat]
  /\ Programs \subseteq SUBSET Inputs
  /\ MsUs \in Nat \ {0} /\ MaxGap \in Nat \ {0}
  /\ MaxTime \in Nat /\ Start \in 1..MaxTime
  /\ Width \in Nat /\ MaxTime < Width

VARIABLES
  built,                    \* the inputs this program has constructed
  now,                      \* the clock
  level,                    \* per input: the level of the pin
  CurrentState,             \* per input: the debounced level
  PreviousUs,               \* per input: timer.PreviousUs
  lastTick, seen, since,    \* history per input: when the last Tick() was,
                            \* what it read, and since when all Ticks read it
  steady                    \* history: the clock was never set back

lineVars == <<built, level, now, steady>>
poolingVars == <<CurrentState, PreviousUs, lastTick, seen, since>>

Levels == {0, 1}

InitPooling ==
  /\ built \in Programs
  /\ now = Start
  /\ level \in [Inputs -> Levels]
  /\ \A i \in Inputs \ built : level[i] = 0
  /\ CurrentState = [i \in Inputs |-> 0]
  /\ PreviousUs = [i \in Inputs |-> 0]
  /\ lastTick = [i \in Inputs |-> Start]
  /\ seen = [i \in Inputs |-> 0] /\ since = [i \in Inputs |-> Start]
  /\ steady = TRUE

(* The wires and the clock.                                                *)
LevelChanges(i) ==
  /\ i \in built
  /\ level' = [level EXCEPT ![i] = 1 - @]
  /\ UNCHANGED <<built, now, steady, poolingVars>>

TimePasses ==
  /\ now < MaxTime
  /\ \A i \in built : now - lastTick[i] < MaxGap
  /\ now' = now + 1
  /\ UNCHANGED <<built, level, steady, poolingVars>>

ClockSetBack ==
  /\ steady
  /\ now' \in 1..(now - 1)
  /\ steady' = FALSE
  /\ UNCHANGED <<built, level, poolingVars>>

-----------------------------------------------------------------------------
millis == now \div MsUs
micros == now

(* Timer::ElapsedMs(), in unsigned arithmetic.                             *)
ElapsedMs(i) == (millis - (PreviousUs[i] \div MsUs)) % Width

Differs(i) == level[i] # CurrentState[i]

(* The change is accepted: it is onGpioStateChanged()'s turn.              *)
Accepts(i) == Differs(i) /\ ElapsedMs(i) >= DebounceTimeMs[i]

History(i) ==
  /\ lastTick' = [lastTick EXCEPT ![i] = now]
  /\ seen' = [seen EXCEPT ![i] = level[i]]
  /\ since' = IF seen[i] = level[i] THEN since ELSE [since EXCEPT ![i] = now]

(* Faulty variants of the operations, Bug<n>_..., stand before the          *)
(* operation they replace: the properties below tell them apart.           *)

(* a Tick() that restarts the timer after a change only, and one that      *)
(* restarts it on every reading                                            *)
Bug1_Polls(i) ==
  /\ CurrentState' = IF Accepts(i) THEN [CurrentState EXCEPT ![i] = level[i]]
                     ELSE CurrentState
  /\ PreviousUs' = IF Accepts(i) THEN [PreviousUs EXCEPT ![i] = micros]
                   ELSE PreviousUs
  /\ History(i)
  /\ UNCHANGED lineVars

Bug2_Polls(i) ==
  /\ CurrentState' = IF Accepts(i) THEN [CurrentState EXCEPT ![i] = level[i]]
                     ELSE CurrentState
  /\ PreviousUs' = [PreviousUs EXCEPT ![i] = micros]
  /\ History(i)
  /\ UNCHANGED lineVars

(* Tick(), but for what onGpioStateChanged() does: timer.Restart() after a *)
(* change and whenever the reading is the debounced level.                 *)
Polls(i) ==
  /\ CurrentState' = IF Accepts(i) THEN [CurrentState EXCEPT ![i] = level[i]]
                     ELSE CurrentState
  /\ PreviousUs' = IF Accepts(i) \/ ~Differs(i)
                   THEN [PreviousUs EXCEPT ![i] = micros] ELSE PreviousUs
  /\ History(i)
  /\ UNCHANGED lineVars

-----------------------------------------------------------------------------
poolVars == <<lineVars, poolingVars>>

(* A bounce is filtered out: when a change is accepted, every Tick() for   *)
(* the debouncing time, but for the millisecond lost in rounding and the   *)
(* gap between two Ticks, has read the new level.  The first change after  *)
(* the construction, which no timer guards, is exempt, and so is a program *)
(* whose clock was set back.                                               *)
Debounced ==
  [][\A i \in Inputs :
       CurrentState'[i] # CurrentState[i] /\ steady /\ PreviousUs[i] # 0
         => now - since'[i] + MaxGap > (DebounceTimeMs[i] - 1) * MsUs]_poolVars

(* A real change is not missed: a level that every Tick() has read for the *)
(* debouncing time is accepted.                                            *)
Responsive ==
  [][\A i \in Inputs :
       Polls(i) /\ steady /\ now - since'[i] >= DebounceTimeMs[i] * MsUs
         => CurrentState'[i] = level[i]]_poolVars
=============================================================================
