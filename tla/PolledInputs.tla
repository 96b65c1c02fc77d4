---------------------------- MODULE PolledInputs ----------------------------
(***************************************************************************)
(* drivers/PushButton and drivers/Encoder: the two kinds of GpioPooling    *)
(* input.  The main loop calls Tick(); between two Ticks the client may    *)
(* call ReadState(), SetReversedPolarity() and SetStateChangedCallback()   *)
(* of a button, Reset() and ReversePolarity() of an encoder.  PushButton   *)
(* has a CurrentState and a ReversedPolarity of its own that hide those of *)
(* GpioPooling: here ButtonState, and ReversedPolarity of a button.        *)
(* Encoder::State, written and never read, is left out.                    *)
(***************************************************************************)
EXTENDS GpioPooling

CONSTANTS
  Buttons, Encoders,        \* the inputs of either kind
  MaxSteps                  \* bound: Encoder::Steps

ASSUME InputsAssumption ==
  /\ Inputs = Buttons \cup Encoders /\ Buttons \cap Encoders = {}
  /\ MaxSteps \in Nat

VARIABLES
  ReversedPolarity,         \* per input
  ButtonState,              \* per button: PushButton::CurrentState
  StateChangedCbFunc,       \* per button: whether the callback is set
  Steps,                    \* per encoder
  reported,                 \* history per button: the last state reported
  polled,                   \* history per button: nothing but Tick() has
                            \* touched ButtonState since it last changed it
  stateAtReset              \* history per encoder: CurrentState at Reset()

buttonVars == <<ButtonState, StateChangedCbFunc, reported, polled>>
encoderVars == <<Steps, stateAtReset>>
vars == <<lineVars, poolingVars, ReversedPolarity, buttonVars, encoderVars>>

LogicalLevel2State(reversed, l) ==
  IF reversed THEN (IF l = 1 THEN "UP" ELSE "DOWN")
  ELSE (IF l = 1 THEN "DOWN" ELSE "UP")

(* The constructors; PushButton's reads the pin.                           *)
Init ==
  /\ InitPooling
  /\ ReversedPolarity = [i \in Inputs |-> FALSE]
  /\ ButtonState = [b \in Buttons |-> LogicalLevel2State(FALSE, level[b])]
  /\ StateChangedCbFunc = [b \in Buttons |-> FALSE]
  /\ Steps = [e \in Encoders |-> 0]
  /\ reported = [b \in Buttons |-> "nothing"]
  /\ polled = [b \in Buttons |-> FALSE]
  /\ stateAtReset = [e \in Encoders |-> 0]

-----------------------------------------------------------------------------
(* The state is given to the callback, if there is one.                    *)
Report(b, state) ==
  reported' = IF StateChangedCbFunc[b] THEN [reported EXCEPT ![b] = state]
              ELSE reported

(* Tick() of a button: onGpioStateChanged() for an accepted change.        *)
ButtonTick(b) ==
  /\ Polls(b)
  /\ IF Accepts(b)
     THEN LET state == LogicalLevel2State(ReversedPolarity[b], level[b])
          IN /\ ButtonState' = [ButtonState EXCEPT ![b] = state]
             /\ Report(b, state)
             /\ polled' = [polled EXCEPT ![b] = TRUE]
     ELSE UNCHANGED <<ButtonState, reported, polled>>
  /\ UNCHANGED <<ReversedPolarity, StateChangedCbFunc, encoderVars>>

(* a ReadState() that leaves the report to the next Tick()                 *)
Bug1_ReadState(b) ==
  /\ ButtonState' =
       [ButtonState EXCEPT ![b] = LogicalLevel2State(ReversedPolarity[b], level[b])]
  /\ polled' = [polled EXCEPT ![b] = FALSE]
  /\ UNCHANGED <<lineVars, poolingVars, ReversedPolarity, StateChangedCbFunc,
                 reported, encoderVars>>

(* ReadState(): the pin itself, and the callback if it differs.            *)
ReadState(b) ==
  LET state == LogicalLevel2State(ReversedPolarity[b], level[b])
  IN /\ ButtonState' = [ButtonState EXCEPT ![b] = state]
     /\ IF state # ButtonState[b] THEN Report(b, state) ELSE UNCHANGED reported
     /\ polled' = [polled EXCEPT ![b] = FALSE]
     /\ UNCHANGED <<lineVars, poolingVars, ReversedPolarity, StateChangedCbFunc,
                    encoderVars>>

SetReversedPolarity(b) ==
  /\ ReversedPolarity' = [ReversedPolarity EXCEPT ![b] = ~@]
  /\ polled' = [polled EXCEPT ![b] = FALSE]
  /\ UNCHANGED <<lineVars, poolingVars, ButtonState, StateChangedCbFunc,
                 reported, encoderVars>>

SetStateChangedCallback(b) ==
  /\ StateChangedCbFunc' = [StateChangedCbFunc EXCEPT ![b] = TRUE]
  /\ UNCHANGED <<lineVars, poolingVars, ReversedPolarity, ButtonState,
                 reported, polled, encoderVars>>

-----------------------------------------------------------------------------
(* an encoder that counts every differing reading                          *)
Bug1_EncoderTick(e) ==
  /\ Steps[e] < MaxSteps
  /\ Polls(e)
  /\ Steps' = IF Differs(e) THEN [Steps EXCEPT ![e] = @ + 1] ELSE Steps
  /\ UNCHANGED <<ReversedPolarity, buttonVars, stateAtReset>>

(* Tick() of an encoder: an accepted change is a step.                     *)
EncoderTick(e) ==
  /\ Steps[e] < MaxSteps
  /\ Polls(e)
  /\ Steps' = IF Accepts(e) THEN [Steps EXCEPT ![e] = @ + 1] ELSE Steps
  /\ UNCHANGED <<ReversedPolarity, buttonVars, stateAtReset>>

Reset(e) ==
  /\ Steps' = [Steps EXCEPT ![e] = 0]
  /\ stateAtReset' = [stateAtReset EXCEPT ![e] = CurrentState[e]]
  /\ UNCHANGED <<lineVars, poolingVars, ReversedPolarity, buttonVars>>

(* The member it changes is used by nobody.                                *)
ReversePolarity(e) ==
  /\ ReversedPolarity' = [ReversedPolarity EXCEPT ![e] = ~@]
  /\ UNCHANGED <<lineVars, poolingVars, buttonVars, encoderVars>>

-----------------------------------------------------------------------------
Environment ==
  /\ TimePasses \/ ClockSetBack \/ \E i \in Inputs : LevelChanges(i)
  /\ UNCHANGED <<ReversedPolarity, buttonVars, encoderVars>>

PushButton(b) ==
  ButtonTick(b) \/ ReadState(b) \/ SetReversedPolarity(b)
    \/ SetStateChangedCallback(b)

Encoder(e) == EncoderTick(e) \/ Reset(e) \/ ReversePolarity(e)

Next ==
  \/ Environment
  \/ \E b \in Buttons \cap built : PushButton(b)
  \/ \E e \in Encoders \cap built : Encoder(e)

Spec == Init /\ [][Next]_vars

-----------------------------------------------------------------------------
(* A client that only listens to the callback of a button knows its state, *)
(* however Tick(), ReadState() and SetReversedPolarity() follow each other *)
(* after the first report; and while nothing but Tick() touches it, this   *)
(* state is the debounced level.                                           *)
ListenerKnows ==
  \A b \in Buttons :
    /\ reported[b] # "nothing" => reported[b] = ButtonState[b]
    /\ polled[b] =>
         ButtonState[b] = LogicalLevel2State(ReversedPolarity[b], CurrentState[b])

(* No step is lost or counted twice: an encoder has made an even number of *)
(* steps since Reset() exactly when it is back at the level it had then.   *)
StepsParity ==
  \A e \in Encoders :
    Steps[e] % 2 = 0 <=> CurrentState[e] = stateAtReset[e]
=============================================================================
