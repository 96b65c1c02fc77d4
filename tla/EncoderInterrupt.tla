-------------------------- MODULE EncoderInterrupt --------------------------
(***************************************************************************)
(* drivers/Gpio/GpioInterrupt and drivers/Encoder/EncoderInterrupt: inputs *)
(* whose level changes pigpio reports from its alert thread, while the     *)
(* client may call Reset().  All objects share the static LastTicks of the *)
(* handler.  The two threads share Steps without a lock: Steps++ is a load *)
(* and a store.                                                            *)
(*                                                                         *)
(* pigpio and the wires are external: a change of a level is an alert with *)
(* the tick, a 32-bit count of microseconds, at which it happened; alerts  *)
(* are handled in order, later.  Watchdog alerts, which the driver never   *)
(* asks for and the handler ignores, are left out, and so are the members  *)
(* that are written and never read: PreviousState, State and the reversed  *)
(* polarity.                                                               *)
(***************************************************************************)
EXTENDS Integers, Sequences

CONSTANTS
  Pins,                     \* the encoders
  DebounceTimeUs,           \* per encoder
  Wrap,                     \* ticks are counted modulo this, 2^32
  MaxTime, MaxEdges, MaxLag \* bounds: time, edges per pin, waiting alerts

ASSUME EncoderAssumption ==
  /\ DebounceTimeUs \in [Pins -> Nat]
  /\ Wrap \in Nat \ {0}
  /\ \A p \in Pins : DebounceTimeUs[p] < Wrap
  /\ MaxTime \in Nat /\ MaxEdges \in Nat /\ MaxLag \in Nat

VARIABLES
  now,                      \* time since the start, in microseconds
  level,                    \* per encoder: the level of the pin
  alerts,                   \* what the alert thread has still to handle
  CurrentState,             \* per encoder; 2 is neither HIGH nor LOW
  LastTicks,                \* static, for all encoders
  Steps,                    \* per encoder
  callback,                 \* the alert thread: "idle", "load" or "store"
  alert, loaded,            \* the alert in hand, and the value incremented
  edges,                    \* bound: edges so far
  handled, raced, fresh,    \* history per encoder since Reset(): alerts
                            \* handled, whether Reset() came between load and
                            \* store, and whether it was never called since
                            \* the first alert
  accepted                  \* history per encoder: when it last changed

wireVars == <<now, level, edges>>
memberVars == <<CurrentState, LastTicks, Steps>>
threadVars == <<callback, alert, loaded>>
historyVars == <<handled, raced, fresh, accepted>>
vars == <<wireVars, alerts, memberVars, threadVars, historyVars>>

Levels == {0, 1}
NoAlert == [pin |-> CHOOSE p \in Pins : TRUE, level |-> 0, at |-> 0]
Never == -1

(* CurrentState has no initial value.                                      *)
Init ==
  /\ now = 0
  /\ level \in [Pins -> Levels]
  /\ edges = [p \in Pins |-> 0]
  /\ alerts = <<>>
  /\ CurrentState \in [Pins -> {0, 1, 2}]
  /\ LastTicks = 0
  /\ Steps = [p \in Pins |-> 0]
  /\ callback = "idle" /\ alert = NoAlert /\ loaded = 0
  /\ handled = [p \in Pins |-> 0]
  /\ raced = [p \in Pins |-> FALSE] /\ fresh = [p \in Pins |-> TRUE]
  /\ accepted = [p \in Pins |-> Never]

-----------------------------------------------------------------------------
TimePasses ==
  /\ now < MaxTime
  /\ now' = now + 1
  /\ UNCHANGED <<level, edges, alerts, memberVars, threadVars, historyVars>>

Edge(p) ==
  /\ edges[p] < MaxEdges /\ Len(alerts) < MaxLag
  /\ edges' = [edges EXCEPT ![p] = @ + 1]
  /\ level' = [level EXCEPT ![p] = 1 - @]
  /\ alerts' = Append(alerts, [pin |-> p, level |-> 1 - level[p], at |-> now])
  /\ UNCHANGED <<now, memberVars, threadVars, historyVars>>

-----------------------------------------------------------------------------
(* Faulty variants of the operations, Bug<n>_..., stand before the          *)
(* operation they replace: the properties below tell them apart.           *)

(* The tick of an alert.                                                   *)
Tick(a) == a.at % Wrap

(* ticks compared as they are, and a test that needs one tick more         *)
Bug1_Debounced(a) == Tick(a) - LastTicks >= DebounceTimeUs[a.pin]

Bug2_Debounced(a) == (Tick(a) - LastTicks) % Wrap > DebounceTimeUs[a.pin]

(* uint32_t subtraction.                                                   *)
Debounced(a) == (Tick(a) - LastTicks) % Wrap >= DebounceTimeUs[a.pin]

(* internal_gpio_callback(): a change that is new, and not too soon, is    *)
(* taken over ...                                                          *)
Begin ==
  /\ callback = "idle" /\ alerts # <<>>
  /\ alerts' = Tail(alerts)
  /\ LET a == Head(alerts)
     IN /\ handled' = [handled EXCEPT ![a.pin] = @ + 1]
        /\ IF a.level # CurrentState[a.pin] /\ Debounced(a)
           THEN /\ CurrentState' = [CurrentState EXCEPT ![a.pin] = a.level]
                /\ accepted' = [accepted EXCEPT ![a.pin] = a.at]
                /\ callback' = "load" /\ alert' = a
           ELSE UNCHANGED <<CurrentState, accepted, callback, alert>>
  /\ UNCHANGED <<wireVars, LastTicks, Steps, loaded, raced, fresh>>

(* ... onGpioStateChanged() counts it, Steps++ ...                         *)
Load ==
  /\ callback = "load"
  /\ callback' = "store"
  /\ loaded' = Steps[alert.pin]
  /\ UNCHANGED <<wireVars, alerts, memberVars, alert, historyVars>>

(* a handler that forgets when the change was                              *)
Bug1_Store ==
  /\ callback = "store"
  /\ callback' = "idle"
  /\ Steps' = [Steps EXCEPT ![alert.pin] = loaded + 1]
  /\ loaded' = 0 /\ alert' = NoAlert
  /\ UNCHANGED <<wireVars, alerts, CurrentState, LastTicks, historyVars>>

(* ... and its tick is remembered.                                         *)
Store ==
  /\ callback = "store"
  /\ callback' = "idle"
  /\ Steps' = [Steps EXCEPT ![alert.pin] = loaded + 1]
  /\ LastTicks' = Tick(alert)
  /\ loaded' = 0 /\ alert' = NoAlert
  /\ UNCHANGED <<wireVars, alerts, CurrentState, historyVars>>

(* The client.                                                             *)
Reset(p) ==
  /\ Steps' = [Steps EXCEPT ![p] = 0]
  /\ handled' = [handled EXCEPT ![p] = IF callback # "idle" /\ alert.pin = p
                                       THEN 1 ELSE 0]
  /\ raced' = [raced EXCEPT ![p] = callback = "store" /\ alert.pin = p]
  /\ fresh' = [fresh EXCEPT ![p] = @ /\ accepted[p] = Never]
  /\ UNCHANGED <<wireVars, alerts, CurrentState, LastTicks, threadVars, accepted>>

-----------------------------------------------------------------------------
AlertThread == Begin \/ Load \/ Store

Next ==
  \/ TimePasses \/ AlertThread
  \/ \E p \in Pins : Edge(p) \/ Reset(p)

Spec == Init /\ [][Next]_vars

-----------------------------------------------------------------------------
(* Two changes that an encoder counts are as far apart as its debouncing   *)
(* time, although LastTicks is shared with the other encoders and the      *)
(* ticks wrap around.                                                      *)
Spaced ==
  [][\A p \in Pins :
       accepted'[p] # accepted[p] /\ accepted[p] # Never
         => accepted'[p] - accepted[p] >= DebounceTimeUs[p]]_vars

(* Without debouncing no change is missed: an encoder whose alerts have    *)
(* all been handled is in the state its pin has.                           *)
Heard(p) == \A i \in 1..Len(alerts) : alerts[i].pin # p

FollowsPin ==
  \A p \in Pins :
    DebounceTimeUs[p] = 0 /\ edges[p] > 0 /\ Heard(p) => CurrentState[p] = level[p]

(* Without debouncing the count is exact: as many steps as alerts handled  *)
(* since Reset(), unless Reset() fell between the load and the store of    *)
(* Steps++; the first alert of all may be taken for no change, because the *)
(* state has no initial value.                                             *)
CountExact ==
  \A p \in Pins :
    DebounceTimeUs[p] = 0 /\ callback = "idle" /\ ~raced[p]
      => \/ Steps[p] = handled[p]
         \/ fresh[p] /\ Steps[p] = handled[p] - 1
=============================================================================
