---------------------------- MODULE InputsProofs ----------------------------
(***************************************************************************)
(* What holds of the polled buttons and encoders for any number of them,   *)
(* any debouncing times and gaps between two calls of Tick(), and any      *)
(* resolution of the clock.                                                *)
(***************************************************************************)
EXTENDS PolledInputs, TLAPS

-----------------------------------------------------------------------------
(* What rounding to milliseconds does to a difference.                     *)
LEMMA Rounding ==
  ASSUME NEW t \in Nat, NEW m \in Nat \ {0}
  PROVE  /\ t \div m \in Nat
         /\ m * (t \div m) <= t
         /\ t < m * (t \div m) + m
OBVIOUS

LEMMA Multiples ==
  ASSUME NEW m \in Nat \ {0}, NEW a \in Int, NEW b \in Int, a <= b
  PROVE  m * a <= m * b
OBVIOUS

LEMMA Elapsed ==
  ASSUME NEW m \in Nat \ {0}, NEW s \in Nat, NEW t \in Nat, s <= t,
         NEW w \in Nat, t < w, NEW d \in Nat
  PROVE  LET e == (t \div m - s \div m) % w
         IN /\ e >= d => t - s > (d - 1) * m
            /\ t - s >= d * m => e >= d
<1> DEFINE p == s \div m  q == t \div m
<1>1. p \in Nat /\ q \in Nat
  BY Rounding
<1>2. m * p <= s /\ s < m * p + m /\ m * q <= t /\ t < m * q + m
  BY Rounding
<1> HIDE DEF p, q
<1>3. p <= q
  <2>1. SUFFICES ASSUME q + 1 <= p PROVE FALSE
    BY <1>1
  <2>2. m * (q + 1) <= m * p
    BY <1>1, <2>1, Multiples
  <2>3. m * (q + 1) = m * q + m
    BY <1>1
  <2> QED BY <1>1, <1>2, <2>2, <2>3
<1>4. q <= t
  <2>1. 1 * q <= m * q
    BY <1>1
  <2> QED BY <1>1, <1>2, <2>1
<1>5. (q - p) % w = q - p
  BY <1>1, <1>3, <1>4
<1>6. ASSUME q - p >= d PROVE t - s > (d - 1) * m
  <2>1. m * (p + d) <= m * q
    BY <1>1, <1>6, Multiples
  <2>2. m * (p + d) = m * p + d * m /\ (d - 1) * m = d * m - m
    BY <1>1
  <2> QED BY <1>1, <1>2, <2>1, <2>2
<1>7. ASSUME t - s >= d * m PROVE q - p >= d
  <2>1. SUFFICES ASSUME q + 1 <= p + d PROVE FALSE
    BY <1>1
  <2>2. m * (q + 1) <= m * (p + d)
    BY <1>1, <2>1, Multiples
  <2>3. m * (q + 1) = m * q + m /\ m * (p + d) = m * p + d * m
    BY <1>1
  <2> QED BY <1>1, <1>2, <1>7, <2>2, <2>3
<1> QED BY <1>5, <1>6, <1>7 DEF p, q

-----------------------------------------------------------------------------
(* The debouncer.  An input that was not constructed is still as it was.   *)
LineTypeOK ==
  /\ built \subseteq Inputs
  /\ now \in 1..MaxTime
  /\ level \in [Inputs -> Levels] /\ CurrentState \in [Inputs -> Levels]
  /\ seen \in [Inputs -> Levels] /\ PreviousUs \in [Inputs -> Nat]
  /\ lastTick \in [Inputs -> Nat] /\ since \in [Inputs -> Nat]
  /\ steady \in BOOLEAN
  /\ \A i \in Inputs \ built : level[i] = 0 /\ CurrentState[i] = 0

(* The timer was restarted by the last Tick() that read the debounced      *)
(* level; the other level was read first at the Tick() after it.           *)
Timed ==
  steady => \A i \in built :
    /\ lastTick[i] <= now /\ now <= lastTick[i] + MaxGap
    /\ PreviousUs[i] <= now
    /\ seen[i] = CurrentState[i] /\ PreviousUs[i] # 0 => PreviousUs[i] = lastTick[i]
    /\ seen[i] # CurrentState[i] => PreviousUs[i] <= since[i]
    /\ seen[i] # CurrentState[i] /\ PreviousUs[i] # 0 =>
         since[i] <= PreviousUs[i] + MaxGap

PoolingInv == LineTypeOK /\ Timed

LEMMA PoolingInit == InitPooling => PoolingInv
  BY PoolingAssumption DEF InitPooling, PoolingInv, LineTypeOK, Timed, Levels

LEMMA PollsStep ==
  ASSUME PoolingInv, NEW i \in built, Polls(i)
  PROVE  PoolingInv'
<1> USE DEF PoolingInv
<1>1. /\ UNCHANGED <<built, level, now, steady>> /\ i \in Inputs /\ now \in Nat
  BY PoolingAssumption DEF Polls, LineTypeOK, lineVars
<1>2. /\ CurrentState' \in [Inputs -> Levels]
      /\ CurrentState'[i] = IF Accepts(i) THEN level[i] ELSE CurrentState[i]
      /\ \A j \in Inputs \ {i} : CurrentState'[j] = CurrentState[j]
  BY <1>1 DEF Polls, LineTypeOK
<1>3. /\ PreviousUs' \in [Inputs -> Nat]
      /\ PreviousUs'[i] = IF Accepts(i) \/ ~Differs(i) THEN now ELSE PreviousUs[i]
      /\ \A j \in Inputs \ {i} : PreviousUs'[j] = PreviousUs[j]
  BY <1>1 DEF Polls, LineTypeOK, micros
<1>4. /\ lastTick' \in [Inputs -> Nat] /\ lastTick'[i] = now
      /\ \A j \in Inputs \ {i} : lastTick'[j] = lastTick[j]
  BY <1>1 DEF Polls, History, LineTypeOK
<1>5. /\ seen' \in [Inputs -> Levels] /\ seen'[i] = level[i]
      /\ \A j \in Inputs \ {i} : seen'[j] = seen[j]
  BY <1>1 DEF Polls, History, LineTypeOK
<1>6. /\ since' \in [Inputs -> Nat]
      /\ since'[i] = IF seen[i] = level[i] THEN since[i] ELSE now
      /\ \A j \in Inputs \ {i} : since'[j] = since[j]
  BY <1>1 DEF Polls, History, LineTypeOK
<1>7. LineTypeOK'
  BY <1>1, <1>2, <1>3, <1>4, <1>5, <1>6 DEF LineTypeOK
<1>8. ASSUME steady', NEW j \in built'
      PROVE  /\ lastTick'[j] <= now' /\ now' <= lastTick'[j] + MaxGap
             /\ PreviousUs'[j] <= now'
             /\ seen'[j] = CurrentState'[j] /\ PreviousUs'[j] # 0 =>
                  PreviousUs'[j] = lastTick'[j]
             /\ seen'[j] # CurrentState'[j] => PreviousUs'[j] <= since'[j]
             /\ seen'[j] # CurrentState'[j] /\ PreviousUs'[j] # 0 =>
                  since'[j] <= PreviousUs'[j] + MaxGap
  <2>1. CASE j # i
    <3>1. j \in Inputs \ {i} /\ j \in built /\ steady
      BY <1>1, <1>8, <2>1 DEF LineTypeOK
    <3> QED BY <1>1, <1>2, <1>3, <1>4, <1>5, <1>6, <3>1 DEF Timed
  <2>2. CASE j = i
    <3>1. /\ steady /\ seen[i] \in Levels /\ CurrentState[i] \in Levels /\ level[i] \in Levels
          /\ lastTick[i] \in Nat /\ since[i] \in Nat /\ PreviousUs[i] \in Nat /\ MaxGap \in Nat
      BY <1>1, <1>8, PoolingAssumption DEF LineTypeOK
    <3>2. CASE Accepts(i) \/ ~Differs(i)
      BY <1>1, <1>2, <1>3, <1>4, <1>5, <2>2, <3>1, <3>2 DEF Differs
    <3>3. CASE Differs(i) /\ ~Accepts(i) /\ seen[i] = level[i]
      BY <1>1, <1>2, <1>3, <1>4, <1>5, <1>6, <2>2, <3>1, <3>3 DEF Differs, Timed
    <3>4. CASE Differs(i) /\ ~Accepts(i) /\ seen[i] # level[i]
      <4>1. seen[i] = CurrentState[i]
        BY <3>1, <3>4 DEF Differs, Levels
      <4> QED BY <1>1, <1>2, <1>3, <1>4, <1>5, <1>6, <2>2, <3>1, <3>4, <4>1 DEF Differs, Timed
    <3> QED BY <3>2, <3>3, <3>4
  <2> QED BY <2>1, <2>2
<1>9. Timed'
  BY <1>8 DEF Timed
<1> QED BY <1>7, <1>9

LEMMA EnvironmentStep ==
  ASSUME PoolingInv, TimePasses \/ ClockSetBack \/ \E i \in Inputs : LevelChanges(i)
  PROVE  PoolingInv'
<1> USE PoolingAssumption DEF PoolingInv, LineTypeOK
<1>1. CASE TimePasses
  <2>1. LineTypeOK'
    BY <1>1 DEF TimePasses, poolingVars
  <2>2. Timed'
    BY <1>1 DEF TimePasses, poolingVars, Timed
  <2> QED BY <2>1, <2>2
<1>2. CASE ClockSetBack
  <2>1. LineTypeOK'
    <3>1. now' \in 1..MaxTime
      BY <1>2 DEF ClockSetBack
    <3> QED BY <1>2, <3>1 DEF ClockSetBack, poolingVars
  <2>2. Timed'
    BY <1>2 DEF ClockSetBack, Timed
  <2> QED BY <2>1, <2>2
<1>3. ASSUME NEW i \in Inputs, LevelChanges(i) PROVE PoolingInv'
  <2>1. level' \in [Inputs -> Levels] /\ \A j \in Inputs \ {i} : level'[j] = level[j]
    BY <1>3 DEF LevelChanges, Levels
  <2>2. LineTypeOK'
    BY <1>3, <2>1 DEF LevelChanges, poolingVars
  <2>3. Timed'
    BY <1>3 DEF LevelChanges, poolingVars, Timed
  <2> QED BY <2>2, <2>3
<1> QED BY <1>1, <1>2, <1>3

(* When a constructed input takes a reading over, and when it must.        *)
LEMMA PollsDebounces ==
  ASSUME PoolingInv, NEW i \in built, steady, Polls(i)
  PROVE  /\ CurrentState'[i] # CurrentState[i] /\ PreviousUs[i] # 0
              => now - since'[i] + MaxGap > (DebounceTimeMs[i] - 1) * MsUs
         /\ now - since'[i] >= DebounceTimeMs[i] * MsUs => CurrentState'[i] = level[i]
<1> USE DEF PoolingInv
<1>1. /\ i \in Inputs /\ now \in Nat /\ now < Width /\ Width \in Nat /\ MsUs \in Nat \ {0}
      /\ MaxGap \in Nat /\ DebounceTimeMs[i] \in Nat
      /\ seen[i] \in Levels /\ CurrentState[i] \in Levels /\ level[i] \in Levels
      /\ lastTick[i] \in Nat /\ since[i] \in Nat /\ PreviousUs[i] \in Nat
  BY PoolingAssumption DEF LineTypeOK
<1>2. /\ CurrentState'[i] = IF Accepts(i) THEN level[i] ELSE CurrentState[i]
      /\ since'[i] = IF seen[i] = level[i] THEN since[i] ELSE now
  BY <1>1 DEF Polls, History, LineTypeOK
<1>3. /\ lastTick[i] <= now /\ now <= lastTick[i] + MaxGap /\ PreviousUs[i] <= now
      /\ seen[i] = CurrentState[i] /\ PreviousUs[i] # 0 => PreviousUs[i] = lastTick[i]
      /\ seen[i] # CurrentState[i] => PreviousUs[i] <= since[i]
      /\ seen[i] # CurrentState[i] /\ PreviousUs[i] # 0 => since[i] <= PreviousUs[i] + MaxGap
  BY DEF Timed
<1>4. Differs(i) => seen[i] = level[i] <=> seen[i] # CurrentState[i]
  BY <1>1 DEF Differs, Levels
<1> DEFINE d == DebounceTimeMs[i]  p == PreviousUs[i]
<1>5. /\ ElapsedMs(i) >= d => now - p > (d - 1) * MsUs
      /\ now - p >= d * MsUs => ElapsedMs(i) >= d
  <2>1. ElapsedMs(i) = (now \div MsUs - p \div MsUs) % Width
    BY DEF ElapsedMs, millis
  <2> HIDE DEF d, p
  <2>2. p \in Nat /\ d \in Nat /\ p <= now
    BY <1>1, <1>3 DEF p, d
  <2>3. LET e == (now \div MsUs - p \div MsUs) % Width
        IN /\ e >= d => now - p > (d - 1) * MsUs
           /\ now - p >= d * MsUs => e >= d
    BY <1>1, <2>2, Elapsed
  <2> QED BY <2>1, <2>3
<1>6. (d - 1) * MsUs \in Int /\ d * MsUs \in Nat
  BY <1>1
<1>7. ASSUME CurrentState'[i] # CurrentState[i], p # 0
      PROVE  now - since'[i] + MaxGap > (d - 1) * MsUs
  <2>1. Differs(i) /\ ElapsedMs(i) >= d
    BY <1>2, <1>7 DEF Accepts
  <2>2. since'[i] <= p + MaxGap /\ since'[i] \in Nat
    BY <1>1, <1>2, <1>3, <1>4, <1>7, <2>1
  <2> HIDE DEF d, p
  <2>3. p \in Nat
    BY <1>1 DEF p
  <2> QED BY <1>1, <1>5, <1>6, <2>1, <2>2, <2>3
<1>8. ASSUME now - since'[i] >= d * MsUs PROVE CurrentState'[i] = level[i]
  <2>1. CASE ~Differs(i)
    BY <1>2, <2>1 DEF Differs
  <2>2. CASE Differs(i)
    <3>1. p <= since'[i] /\ since'[i] \in Nat
      BY <1>1, <1>2, <1>3, <1>4, <2>2
    <3>2. now - p >= d * MsUs
      <4> HIDE DEF d
      <4> QED BY <1>1, <1>6, <1>8, <3>1
    <3>3. Accepts(i)
      BY <1>5, <2>2, <3>2 DEF Accepts
    <3> QED BY <1>2, <3>3
  <2> QED BY <2>1, <2>2
<1> QED BY <1>7, <1>8

-----------------------------------------------------------------------------
(* The buttons and the encoders.  Only a callback that is set is reported  *)
(* to, and it stays set.                                                   *)
Heard ==
  /\ ButtonState \in [Buttons -> {"UP", "DOWN"}]
  /\ StateChangedCbFunc \in [Buttons -> BOOLEAN]
  /\ reported \in [Buttons -> {"nothing", "UP", "DOWN"}]
  /\ polled \in [Buttons -> BOOLEAN]
  /\ ReversedPolarity \in [Inputs -> BOOLEAN]
  /\ \A b \in Buttons : reported[b] # "nothing" => StateChangedCbFunc[b]

Counted ==
  /\ Steps \in [Encoders -> Nat]
  /\ stateAtReset \in [Encoders -> Levels]

InputsInv == PoolingInv /\ Heard /\ Counted /\ ListenerKnows /\ StepsParity

LEMMA InputsInit == Init => InputsInv
<1> SUFFICES ASSUME Init PROVE InputsInv
  OBVIOUS
<1>1. PoolingInv
  BY PoolingInit DEF Init
<1>2. Heard /\ ListenerKnows
  BY InputsAssumption DEF Init, Heard, ListenerKnows, LogicalLevel2State
<1>3. Counted /\ StepsParity
  BY InputsAssumption DEF Init, InitPooling, Counted, StepsParity, Levels
<1> QED BY <1>1, <1>2, <1>3 DEF InputsInv

LEMMA ButtonStep ==
  ASSUME InputsInv, NEW b \in Buttons \cap built, PushButton(b)
  PROVE  InputsInv'
<1> USE DEF InputsInv, lineVars, poolingVars, encoderVars, buttonVars
<1>1. /\ b \in Buttons /\ b \in built /\ b \in Inputs /\ b \notin Encoders
      /\ Encoders \subseteq Inputs /\ Buttons \subseteq Inputs
  BY InputsAssumption
<1>2. Counted'
  BY DEF PushButton, ButtonTick, ReadState, SetReversedPolarity, SetStateChangedCallback,
     Counted
<1>3. \A r \in BOOLEAN, l \in Levels : LogicalLevel2State(r, l) \in {"UP", "DOWN"}
  BY DEF LogicalLevel2State
<1>4. CASE ButtonTick(b)
  <2>1. PoolingInv'
    BY <1>1, <1>4, PollsStep DEF ButtonTick
  <2>2. /\ UNCHANGED <<ReversedPolarity, StateChangedCbFunc, Steps, stateAtReset>>
        /\ \A j \in Inputs \ {b} : CurrentState'[j] = CurrentState[j]
        /\ CurrentState'[b] = IF Accepts(b) THEN level[b] ELSE CurrentState[b]
    BY <1>1, <1>4 DEF ButtonTick, Polls, PoolingInv, LineTypeOK
  <2>3. StepsParity'
    BY <1>1, <2>2 DEF StepsParity
  <2>4. CASE Accepts(b)
    <3> DEFINE state == LogicalLevel2State(ReversedPolarity[b], level[b])
    <3>1. /\ ButtonState' = [ButtonState EXCEPT ![b] = state]
          /\ reported' = IF StateChangedCbFunc[b] THEN [reported EXCEPT ![b] = state]
                         ELSE reported
          /\ polled' = [polled EXCEPT ![b] = TRUE]
      BY <1>4, <2>4 DEF ButtonTick, Report
    <3>2. state \in {"UP", "DOWN"}
      BY <1>1, <1>3 DEF Heard, PoolingInv, LineTypeOK
    <3>3. state = LogicalLevel2State(ReversedPolarity'[b], CurrentState'[b])
      BY <2>2, <2>4
    <3> HIDE DEF state
    <3>4. Heard'
      BY <1>1, <2>2, <3>1, <3>2 DEF Heard
    <3>5. ListenerKnows'
      BY <1>1, <2>2, <3>1, <3>2, <3>3 DEF Heard, ListenerKnows
    <3> QED BY <1>2, <2>1, <2>3, <3>4, <3>5
  <2>5. CASE ~Accepts(b)
    <3>1. UNCHANGED <<ButtonState, reported, polled>>
      BY <1>4, <2>5 DEF ButtonTick
    <3>2. \A j \in Inputs : CurrentState'[j] = CurrentState[j]
      BY <2>2, <2>5
    <3>3. Heard' /\ ListenerKnows'
      BY <1>1, <2>2, <3>1, <3>2 DEF Heard, ListenerKnows
    <3> QED BY <1>2, <2>1, <2>3, <3>3
  <2> QED BY <2>4, <2>5
<1>5. ASSUME UNCHANGED <<lineVars, poolingVars, encoderVars>>
      PROVE  PoolingInv' /\ StepsParity'
  BY <1>5 DEF PoolingInv, LineTypeOK, Timed, StepsParity
<1>6. CASE ReadState(b)
  <2> DEFINE state == LogicalLevel2State(ReversedPolarity[b], level[b])
  <2>1. /\ UNCHANGED <<lineVars, poolingVars, ReversedPolarity, StateChangedCbFunc, encoderVars>>
        /\ ButtonState' = [ButtonState EXCEPT ![b] = state]
        /\ polled' = [polled EXCEPT ![b] = FALSE]
    BY <1>6 DEF ReadState
  <2>2. state \in {"UP", "DOWN"}
    BY <1>1, <1>3 DEF Heard, PoolingInv, LineTypeOK
  <2>3. reported' = IF state # ButtonState[b] /\ StateChangedCbFunc[b]
                    THEN [reported EXCEPT ![b] = state] ELSE reported
    BY <1>6 DEF ReadState, Report
  <2> HIDE DEF state
  <2>4. Heard'
    BY <1>1, <2>1, <2>2, <2>3 DEF Heard
  <2>5. ListenerKnows'
    BY <1>1, <2>1, <2>2, <2>3 DEF Heard, ListenerKnows
  <2> QED BY <1>2, <1>5, <2>1, <2>4, <2>5
<1>7. CASE SetReversedPolarity(b)
  <2>1. Heard' /\ ListenerKnows'
    BY <1>1, <1>7 DEF SetReversedPolarity, Heard, ListenerKnows
  <2> QED BY <1>2, <1>5, <1>7, <2>1 DEF SetReversedPolarity
<1>8. CASE SetStateChangedCallback(b)
  <2>1. Heard' /\ ListenerKnows'
    BY <1>1, <1>8 DEF SetStateChangedCallback, Heard, ListenerKnows
  <2> QED BY <1>2, <1>5, <1>8, <2>1 DEF SetStateChangedCallback
<1> QED BY <1>4, <1>6, <1>7, <1>8 DEF PushButton

LEMMA EncoderStep ==
  ASSUME InputsInv, NEW e \in Encoders \cap built, Encoder(e)
  PROVE  InputsInv'
<1> USE DEF InputsInv, lineVars, poolingVars, encoderVars, buttonVars
<1>1. /\ e \in Encoders /\ e \in built /\ e \in Inputs /\ e \notin Buttons
      /\ Encoders \subseteq Inputs /\ Buttons \subseteq Inputs
  BY InputsAssumption
<1>2. CASE EncoderTick(e)
  <2>1. PoolingInv'
    BY <1>1, <1>2, PollsStep DEF EncoderTick
  <2>2. /\ UNCHANGED <<ReversedPolarity, buttonVars, stateAtReset>>
        /\ \A j \in Inputs \ {e} : CurrentState'[j] = CurrentState[j]
        /\ CurrentState'[e] = IF Accepts(e) THEN level[e] ELSE CurrentState[e]
        /\ Steps' = IF Accepts(e) THEN [Steps EXCEPT ![e] = @ + 1] ELSE Steps
    BY <1>1, <1>2 DEF EncoderTick, Polls, PoolingInv, LineTypeOK
  <2>3. Heard' /\ ListenerKnows'
    BY <1>1, <2>2 DEF Heard, ListenerKnows
  <2>4. Counted'
    BY <1>1, <2>2 DEF Counted
  <2>5. StepsParity'
    <3>1. /\ Steps[e] \in Nat /\ stateAtReset[e] \in Levels
          /\ CurrentState[e] \in Levels /\ level[e] \in Levels
      BY <1>1 DEF Counted, PoolingInv, LineTypeOK
    <3>2. \A f \in Encoders \ {e} : Steps'[f] = Steps[f] /\ CurrentState'[f] = CurrentState[f]
      BY <1>1, <2>2 DEF Counted
    <3>3. Steps'[e] % 2 = 0 <=> CurrentState'[e] = stateAtReset'[e]
      <4>1. CASE Accepts(e)
        <5>1. Steps'[e] = Steps[e] + 1 /\ CurrentState'[e] = level[e]
          BY <1>1, <2>2, <4>1 DEF Counted
        <5>2. level[e] # CurrentState[e]
          BY <4>1 DEF Accepts, Differs
        <5>3. (Steps[e] + 1) % 2 = 0 <=> ~(Steps[e] % 2 = 0)
          BY <3>1
        <5> QED BY <1>1, <2>2, <3>1, <5>1, <5>2, <5>3 DEF StepsParity, Levels
      <4>2. CASE ~Accepts(e)
        BY <1>1, <2>2, <4>2 DEF StepsParity
      <4> QED BY <4>1, <4>2
    <3> QED BY <2>2, <3>2, <3>3 DEF StepsParity
  <2> QED BY <2>1, <2>3, <2>4, <2>5
<1>3. ASSUME UNCHANGED <<lineVars, poolingVars, buttonVars>>,
             \A b \in Buttons : ReversedPolarity'[b] = ReversedPolarity[b],
             ReversedPolarity' \in [Inputs -> BOOLEAN]
      PROVE  PoolingInv' /\ Heard' /\ ListenerKnows'
  BY <1>3 DEF PoolingInv, LineTypeOK, Timed, Heard, ListenerKnows
<1>4. CASE Reset(e)
  <2>1. PoolingInv' /\ Heard' /\ ListenerKnows'
    BY <1>3, <1>4 DEF Reset, Heard
  <2>2. Counted'
    BY <1>1, <1>4 DEF Reset, Counted, PoolingInv, LineTypeOK
  <2>3. StepsParity'
    BY <1>1, <1>4 DEF Reset, Counted, StepsParity
  <2> QED BY <2>1, <2>2, <2>3
<1>5. CASE ReversePolarity(e)
  <2>1. PoolingInv' /\ Heard' /\ ListenerKnows'
    BY <1>1, <1>3, <1>5 DEF ReversePolarity, Heard
  <2>2. Counted' /\ StepsParity'
    BY <1>5 DEF ReversePolarity, Counted, StepsParity
  <2> QED BY <2>1, <2>2
<1> QED BY <1>2, <1>4, <1>5 DEF Encoder

LEMMA InputsStep == InputsInv /\ [Next]_vars => InputsInv'
<1> SUFFICES ASSUME InputsInv, [Next]_vars PROVE InputsInv'
  OBVIOUS
<1>1. CASE Environment
  <2>1. PoolingInv'
    BY <1>1, EnvironmentStep DEF Environment, InputsInv
  <2>2. UNCHANGED <<ReversedPolarity, buttonVars, encoderVars, CurrentState>>
    BY <1>1 DEF Environment, TimePasses, ClockSetBack, LevelChanges, poolingVars
  <2> QED BY <2>1, <2>2 DEF InputsInv, Heard, Counted, ListenerKnows, StepsParity,
             buttonVars, encoderVars
<1>2. CASE UNCHANGED vars
  BY <1>2 DEF vars, lineVars, poolingVars, buttonVars, encoderVars, InputsInv, PoolingInv,
     LineTypeOK, Timed, Heard, Counted, ListenerKnows, StepsParity
<1> QED BY <1>1, <1>2, ButtonStep, EncoderStep DEF Next

LEMMA InputsInvariance == Spec => []InputsInv
  BY InputsInit, InputsStep, PTL DEF Spec

-----------------------------------------------------------------------------
(* A client that only listens to a button's callback knows its state.      *)
THEOREM ListenerSafe == Spec => []ListenerKnows
<1>1. InputsInv => ListenerKnows
  BY DEF InputsInv
<1> QED BY <1>1, InputsInvariance, PTL

(* The parity of an encoder's steps agrees with its level.                 *)
THEOREM ParitySafe == Spec => []StepsParity
<1>1. InputsInv => StepsParity
  BY DEF InputsInv
<1> QED BY <1>1, InputsInvariance, PTL

(* No bounce is accepted, for any debouncing time, gap and resolution.     *)
THEOREM DebouncedSafe == Spec => Debounced
<1> USE DEF InputsInv
<1>1. InputsInv /\ [Next]_vars =>
        [\A i \in Inputs :
           CurrentState'[i] # CurrentState[i] /\ steady /\ PreviousUs[i] # 0
             => now - since'[i] + MaxGap > (DebounceTimeMs[i] - 1) * MsUs]_poolVars
  <2> SUFFICES ASSUME InputsInv, [Next]_vars, NEW i \in Inputs,
                      CurrentState'[i] # CurrentState[i], steady, PreviousUs[i] # 0
               PROVE  now - since'[i] + MaxGap > (DebounceTimeMs[i] - 1) * MsUs
    OBVIOUS
  <2>1. CurrentState' # CurrentState
    OBVIOUS
  <2>2. PICK j \in built : Polls(j)
    BY <2>1 DEF Next, Environment, TimePasses, ClockSetBack, LevelChanges, PushButton,
       Encoder, ButtonTick, ReadState, SetReversedPolarity, SetStateChangedCallback,
       EncoderTick, Reset, ReversePolarity, vars, poolingVars
  <2>3. j = i
    BY <2>2 DEF Polls, PoolingInv, LineTypeOK
  <2> QED BY <2>2, <2>3, PollsDebounces
<1> QED BY <1>1, InputsInvariance, PTL DEF Spec, Debounced

(* No lasting change is missed, for any debouncing time, gap and           *)
(* resolution.                                                             *)
THEOREM ResponsiveSafe == Spec => Responsive
<1> USE DEF InputsInv
<1>1. InputsInv /\ [Next]_vars =>
        [\A i \in Inputs :
           Polls(i) /\ steady /\ now - since'[i] >= DebounceTimeMs[i] * MsUs
             => CurrentState'[i] = level[i]]_poolVars
  <2> SUFFICES ASSUME InputsInv, NEW i \in Inputs, Polls(i), steady,
                      now - since'[i] >= DebounceTimeMs[i] * MsUs
               PROVE  CurrentState'[i] = level[i]
    OBVIOUS
  <2>1. CASE i \in built
    BY <2>1, PollsDebounces
  <2>2. CASE i \notin built
    BY <2>2 DEF Polls, Accepts, Differs, PoolingInv, LineTypeOK
  <2> QED BY <2>1, <2>2
<1> QED BY <1>1, InputsInvariance, PTL DEF Spec, Responsive
=============================================================================
