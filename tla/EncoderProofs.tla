---------------------------- MODULE EncoderProofs ----------------------------
(***************************************************************************)
(* What holds of the encoders on interrupts for any number of them, any    *)
(* debouncing times, any width of the ticks and any time between two edges *)
(* of a pin, many times that width included.                               *)
(***************************************************************************)
EXTENDS EncoderInterrupt, TLAPS

-----------------------------------------------------------------------------
(* Ticks.                                                                  *)
LEMMA Ticks ==
  ASSUME NEW t \in Nat, NEW w \in Nat \ {0}
  PROVE  /\ t % w \in 0..(w - 1)
         /\ \E q \in Nat : t = w * q + (t % w)
<1>1. t % w \in 0..(w - 1)
  OBVIOUS
<1>2. t = w * (t \div w) + (t % w) /\ t \div w \in Nat
  OBVIOUS
<1> QED BY <1>1, <1>2

LEMMA Multiples ==
  ASSUME NEW w \in Nat \ {0}, NEW a \in Int, NEW b \in Int, a <= b
  PROVE  w * a <= w * b
OBVIOUS

(* A difference of ticks is never more than the time that has passed.      *)
LEMMA Difference ==
  ASSUME NEW w \in Nat \ {0}, NEW s \in Nat, NEW t \in Nat, s <= t
  PROVE  ((t % w) - (s % w)) % w <= t - s
<1>1. PICK p \in Nat : s = w * p + (s % w)
  BY Ticks
<1>2. PICK q \in Nat : t = w * q + (t % w)
  BY Ticks
<1> DEFINE u == s % w  v == t % w
<1>3. u \in 0..(w - 1) /\ v \in 0..(w - 1)
  BY Ticks
<1>4. s = w * p + u /\ t = w * q + v
  BY <1>1, <1>2
<1> HIDE DEF u, v
<1>5. p <= q
  <2>1. SUFFICES ASSUME q + 1 <= p PROVE FALSE
    OBVIOUS
  <2>2. w * (q + 1) <= w * p /\ w * (q + 1) = w * q + w
    BY <2>1, Multiples
  <2> QED BY <1>3, <1>4, <2>2
<1>6. CASE u <= v
  <2>1. (v - u) % w = v - u
    BY <1>3, <1>6
  <2>2. w * p <= w * q
    BY <1>5, Multiples
  <2> QED BY <1>3, <1>4, <2>1, <2>2 DEF u, v
<1>7. CASE v < u
  <2>1. (v - u) % w = v - u + w
    <3>1. v - u + w \in 0..(w - 1)
      BY <1>3, <1>7
    <3> QED BY <1>3, <3>1
  <2>2. p + 1 <= q
    <3>1. SUFFICES ASSUME p = q PROVE FALSE
      BY <1>5
    <3> QED BY <1>3, <1>4, <1>7, <3>1
  <2>3. w * (p + 1) <= w * q /\ w * (p + 1) = w * p + w
    BY <2>2, Multiples
  <2> QED BY <1>3, <1>4, <2>1, <2>3 DEF u, v
<1> QED BY <1>3, <1>6, <1>7

-----------------------------------------------------------------------------
Alerts == [pin : Pins, level : Levels, at : Nat]

TimesOK ==
  /\ now \in Nat /\ level \in [Pins -> Levels]
  /\ alerts \in Seq(Alerts)
  /\ accepted \in [Pins -> Nat \cup {Never}]
  /\ callback \in {"idle", "load", "store"}
  /\ callback # "idle" => alert.at \in Nat

(* Alerts are handled in the order of their ticks.                         *)
InTurn ==
  /\ \A i \in 1..Len(alerts) : alerts[i].at <= now
  /\ \A i, j \in 1..Len(alerts) : i <= j => alerts[i].at <= alerts[j].at

(* No change was accepted after t, and what is left to handle is no older. *)
Latest(t) ==
  /\ t <= now
  /\ \A p \in Pins : accepted[p] <= t
  /\ \A i \in 1..Len(alerts) : t <= alerts[i].at

(* LastTicks is the tick of such a time, but while the alert that sets it  *)
(* is in hand.                                                             *)
Remembered ==
  IF callback = "idle" THEN \E t \in Nat : LastTicks = t % Wrap /\ Latest(t)
                       ELSE Latest(alert.at)

SpacedInv == TimesOK /\ InTurn /\ Remembered

LEMMA Queue ==
  ASSUME TimesOK
  PROVE  \A i \in 1..Len(alerts) : alerts[i] \in Alerts /\ alerts[i].at \in Nat
<1>1. \A i \in 1..Len(alerts) : alerts[i] \in Alerts
  BY DEF TimesOK
<1>2. \A x \in Alerts : x.at \in Nat
  BY DEF Alerts
<1> QED BY <1>1, <1>2

LEMMA SpacedInit == Init => SpacedInv
<1> SUFFICES ASSUME Init PROVE SpacedInv
  OBVIOUS
<1>1. TimesOK
  BY DEF Init, TimesOK, Levels, Never
<1>2. InTurn
  BY DEF Init, InTurn
<1>3. LastTicks = 0 % Wrap
  BY EncoderAssumption DEF Init
<1>4. Latest(0)
  BY DEF Init, Latest, Never
<1>5. Remembered
  BY <1>3, <1>4 DEF Init, Remembered
<1> QED BY <1>1, <1>2, <1>5 DEF SpacedInv

(* Steps of the wires, the clock and the client.                           *)
LEMMA SpacedWires ==
  ASSUME SpacedInv,
         TimePasses \/ (\E p \in Pins : Edge(p) \/ Reset(p)) \/ UNCHANGED vars
  PROVE  SpacedInv' /\ accepted' = accepted
<1> USE DEF SpacedInv
<1>1. ASSUME UNCHANGED <<accepted, callback, alert, LastTicks, alerts>>, level' = level,
             now' \in Nat, now <= now'
      PROVE  SpacedInv'
  <2>1. TimesOK'
    BY <1>1 DEF TimesOK
  <2>2. \A i \in 1..Len(alerts) : alerts[i].at \in Nat
    BY Queue
  <2>3. InTurn'
    BY <1>1, <2>2 DEF InTurn, TimesOK
  <2>4. \A t \in Nat : Latest(t) => Latest(t)'
    BY <1>1 DEF Latest, TimesOK
  <2>5. Remembered'
    BY <1>1, <2>4 DEF Remembered, TimesOK
  <2> QED BY <2>1, <2>3, <2>5
<1>2. CASE TimePasses
  BY <1>1, <1>2 DEF TimePasses, memberVars, threadVars, historyVars, TimesOK
<1>3. CASE \E p \in Pins : Reset(p)
  BY <1>1, <1>3 DEF Reset, wireVars, threadVars, TimesOK
<1>4. CASE UNCHANGED vars
  BY <1>1, <1>4 DEF vars, wireVars, memberVars, threadVars, historyVars, TimesOK
<1>5. ASSUME NEW p \in Pins, Edge(p) PROVE SpacedInv' /\ accepted' = accepted
  <2> DEFINE a == [pin |-> p, level |-> 1 - level[p], at |-> now]
  <2>1. /\ UNCHANGED <<now, accepted, callback, alert, LastTicks>>
        /\ alerts' = Append(alerts, a)
        /\ level' = [level EXCEPT ![p] = 1 - @]
    BY <1>5 DEF Edge, memberVars, threadVars, historyVars
  <2>2. a \in Alerts /\ a.at = now
    BY DEF TimesOK, Alerts, Levels
  <2> HIDE DEF a
  <2>3. /\ Len(alerts') = Len(alerts) + 1
        /\ alerts'[Len(alerts) + 1] = a
        /\ \A i \in 1..Len(alerts) : alerts'[i] = alerts[i] /\ alerts[i].at \in Nat
    BY <2>1, <2>2, Queue DEF TimesOK
  <2>4. TimesOK'
    BY <2>1, <2>2 DEF TimesOK, Levels
  <2>5. \A i \in 1..Len(alerts') : i \in 1..Len(alerts) \/ i = Len(alerts) + 1
    BY <2>3 DEF TimesOK
  <2>6. InTurn'
    BY <2>1, <2>2, <2>3, <2>5 DEF InTurn, TimesOK
  <2>7. \A t \in Nat : Latest(t) => Latest(t)'
    BY <2>1, <2>2, <2>3, <2>5 DEF Latest, TimesOK
  <2>8. Remembered'
    BY <2>1, <2>7 DEF Remembered, TimesOK
  <2> QED BY <2>1, <2>4, <2>6, <2>8
<1> QED BY <1>2, <1>3, <1>4, <1>5 DEF TimePasses, Reset, vars, historyVars

(* Begin looks at an alert that is not older than the last accepted one:   *)
(* the difference of the ticks is at most that of the times.               *)
LEMMA SpacedBegin ==
  ASSUME SpacedInv, Begin
  PROVE  /\ SpacedInv'
         /\ \A p \in Pins : accepted'[p] # accepted[p] /\ accepted[p] # Never
                             => accepted'[p] - accepted[p] >= DebounceTimeUs[p]
<1> USE DEF SpacedInv
<1>1. /\ callback = "idle" /\ alerts # <<>> /\ alerts' = Tail(alerts)
      /\ UNCHANGED <<now, level, LastTicks>>
  BY DEF Begin, wireVars
<1>2. PICK a \in Alerts :
        a = Head(alerts) /\ a = alerts[1] /\ Len(alerts) \in Nat /\ Len(alerts) >= 1
  BY <1>1 DEF TimesOK
<1>3. /\ alerts' \in Seq(Alerts) /\ Len(alerts') = Len(alerts) - 1
      /\ \A i \in 1..Len(alerts') : /\ i + 1 \in 1..Len(alerts)
                                    /\ alerts'[i] = alerts[i + 1]
  BY <1>1, <1>2 DEF TimesOK
<1>4. \A i \in 1..Len(alerts) : alerts[i].at \in Nat
  BY Queue
<1>5. InTurn'
  <2>1. \A i \in 1..Len(alerts') : alerts'[i].at <= now'
    BY <1>1, <1>3 DEF InTurn
  <2>2. \A i, j \in 1..Len(alerts') : i <= j => alerts'[i].at <= alerts'[j].at
    BY <1>2, <1>3 DEF InTurn
  <2> QED BY <2>1, <2>2 DEF InTurn
<1>6. PICK t \in Nat : LastTicks = t % Wrap /\ Latest(t)
  BY <1>1 DEF Remembered
<1>7. a.at \in Nat /\ t <= a.at /\ a.at <= now /\ a.pin \in Pins
  BY <1>2, <1>4, <1>6 DEF Latest, InTurn, Alerts
<1>8. \A i \in 1..Len(alerts') : a.at <= alerts'[i].at
  BY <1>2, <1>3 DEF InTurn
<1>9. CASE a.level # CurrentState[a.pin] /\ Debounced(a)
  <2>1. /\ accepted' = [accepted EXCEPT ![a.pin] = a.at]
        /\ callback' = "load" /\ alert' = a
    BY <1>2, <1>9 DEF Begin
  <2>2. TimesOK'
    BY <1>1, <1>3, <1>7, <2>1 DEF TimesOK
  <2>3. \A p \in Pins : accepted[p] \in Nat \cup {Never} /\ accepted[p] <= t
    BY <1>6 DEF Latest, TimesOK
  <2>4. /\ accepted'[a.pin] = a.at
        /\ \A p \in Pins \ {a.pin} : accepted'[p] = accepted[p]
    BY <1>7, <2>1 DEF TimesOK
  <2>5. \A p \in Pins : accepted'[p] <= a.at
    BY <1>7, <2>3, <2>4 DEF Never
  <2>6. Latest(a.at)'
    BY <1>1, <1>7, <1>8, <2>1, <2>5 DEF Latest
  <2>7. Remembered'
    BY <2>1, <2>6 DEF Remembered
  <2>8. ((a.at % Wrap) - (t % Wrap)) % Wrap >= DebounceTimeUs[a.pin]
    BY <1>6, <1>9 DEF Debounced, Tick
  <2>9. a.at - t >= DebounceTimeUs[a.pin]
    <3>1. ((a.at % Wrap) - (t % Wrap)) % Wrap <= a.at - t
      BY <1>7, EncoderAssumption, Difference
    <3>2. ((a.at % Wrap) - (t % Wrap)) % Wrap \in Int /\ DebounceTimeUs[a.pin] \in Nat
      BY <1>7, EncoderAssumption
    <3> QED BY <1>7, <2>8, <3>1, <3>2
  <2>10. ASSUME accepted[a.pin] # Never
         PROVE  accepted'[a.pin] - accepted[a.pin] >= DebounceTimeUs[a.pin]
    <3>1. DebounceTimeUs[a.pin] \in Nat
      BY <1>7, EncoderAssumption
    <3> QED BY <1>7, <2>3, <2>4, <2>9, <2>10, <3>1
  <2> QED BY <1>5, <2>2, <2>4, <2>7, <2>10
<1>10. CASE ~(a.level # CurrentState[a.pin] /\ Debounced(a))
  <2>1. UNCHANGED <<accepted, callback, alert>>
    BY <1>2, <1>10 DEF Begin
  <2>2. TimesOK'
    BY <1>1, <1>3, <2>1 DEF TimesOK
  <2>3. Latest(t)'
    BY <1>1, <1>3, <1>6, <2>1 DEF Latest
  <2>4. Remembered'
    BY <1>1, <1>6, <2>1, <2>3 DEF Remembered
  <2> QED BY <1>5, <2>1, <2>2, <2>4
<1> QED BY <1>9, <1>10

(* The rest of the handler, which puts the tick of its alert in LastTicks. *)
LEMMA SpacedCounts ==
  ASSUME SpacedInv, Load \/ Store
  PROVE  SpacedInv' /\ accepted' = accepted
<1> USE DEF SpacedInv
<1>1. /\ UNCHANGED <<now, level, alerts, accepted>> /\ callback # "idle"
      /\ callback' \in {"store", "idle"}
  BY DEF Load, Store, wireVars, historyVars
<1>2. alert.at \in Nat /\ Latest(alert.at)
  BY <1>1 DEF TimesOK, Remembered
<1>3. Latest(alert.at) => (\A t : t = alert.at => Latest(t)')
  BY <1>1 DEF Latest
<1>4. InTurn'
  BY <1>1 DEF InTurn
<1>5. CASE Load
  <2>1. alert' = alert /\ callback' = "store"
    BY <1>5 DEF Load
  <2>2. TimesOK'
    BY <1>1, <1>2, <2>1 DEF TimesOK
  <2>3. Latest(alert.at)'
    BY <1>1, <1>2, <2>1 DEF Latest
  <2> QED BY <1>1, <1>4, <2>1, <2>2, <2>3 DEF Remembered
<1>6. CASE Store
  <2>1. callback' = "idle" /\ LastTicks' = alert.at % Wrap
    BY <1>6 DEF Store, Tick
  <2>2. TimesOK'
    BY <1>1, <2>1 DEF TimesOK
  <2>3. PICK t \in Nat : t = alert.at
    BY <1>2
  <2>4. Latest(t)' /\ LastTicks' = t % Wrap
    BY <1>2, <1>3, <2>1, <2>3
  <2>5. Remembered'
    BY <2>1, <2>4 DEF Remembered
  <2> QED BY <1>1, <1>4, <2>2, <2>5
<1> QED BY <1>5, <1>6

-----------------------------------------------------------------------------
(* However the encoders share LastTicks and however often the ticks wrap   *)
(* around, GpioInterrupt's handler never lets an encoder count two changes *)
(* that are closer than its debouncing time.                               *)
THEOREM SpacedSafe == Spec => Spaced
<1> DEFINE Apart ==
      \A p \in Pins : accepted'[p] # accepted[p] /\ accepted[p] # Never
                        => accepted'[p] - accepted[p] >= DebounceTimeUs[p]
<1>1. Init => SpacedInv
  BY SpacedInit
<1>2. SpacedInv /\ [Next]_vars => SpacedInv' /\ Apart
  <2> SUFFICES ASSUME SpacedInv, [Next]_vars PROVE SpacedInv' /\ Apart
    OBVIOUS
  <2>1. CASE Begin
    BY <2>1, SpacedBegin
  <2>2. CASE Load \/ Store
    BY <2>2, SpacedCounts
  <2>3. CASE TimePasses \/ (\E p \in Pins : Edge(p) \/ Reset(p)) \/ UNCHANGED vars
    BY <2>3, SpacedWires
  <2> QED BY <2>1, <2>2, <2>3 DEF Next, AlertThread
<1>3. SpacedInv /\ [Next]_vars => [Apart]_vars
  BY <1>2
<1> QED BY <1>1, <1>2, <1>3, PTL DEF Spec, Spaced

-----------------------------------------------------------------------------
(* Encoders without debouncing.  The alerts of a pin that wait alternate,  *)
(* and the last of them has the level the pin has.                         *)
Waiting(p) == {i \in 1..Len(alerts) : alerts[i].pin = p}

LastIsLevel(p) ==
  \A i \in Waiting(p) :
    (\A j \in Waiting(p) : j <= i) => alerts[i].level = level[p]

Alternate(p) ==
  \A i, j \in Waiting(p) :
    i < j /\ (\A k \in Waiting(p) : k <= i \/ j <= k)
      => alerts[i].level # alerts[j].level

(* The next alert of a pin is a change, unless none was ever handled.      *)
NextIsChange(p) ==
  \A i \in Waiting(p) :
    (\A j \in Waiting(p) : i <= j) => alerts[i].level # CurrentState[p]

Busy(p) == callback # "idle" /\ alert.pin = p

Untouched(p) ==
  handled[p] = 0 /\ Steps[p] = 0 /\ fresh[p] /\ accepted[p] = Never /\ ~Busy(p)

Exact(p, n) == n = handled[p] \/ (fresh[p] /\ n = handled[p] - 1)

(* The count, and the value that is about to be stored.                    *)
Counted(p) ==
  ~raced[p] =>
    /\ ~Busy(p) => Exact(p, Steps[p])
    /\ Busy(p) /\ callback = "load" => Exact(p, Steps[p] + 1)
    /\ Busy(p) /\ callback = "store" => Exact(p, loaded + 1)

Follows(p) ==
  /\ LastIsLevel(p) /\ Alternate(p)
  /\ NextIsChange(p) \/ Untouched(p)
  /\ Waiting(p) = {} => CurrentState[p] = level[p] \/ edges[p] = 0
  /\ edges[p] = 0 => Waiting(p) = {} /\ Untouched(p)
  /\ Counted(p)

MembersOK ==
  /\ level \in [Pins -> Levels] /\ CurrentState \in [Pins -> {0, 1, 2}]
  /\ alerts \in Seq(Alerts)
  /\ edges \in [Pins -> Nat] /\ Steps \in [Pins -> Nat] /\ loaded \in Nat
  /\ handled \in [Pins -> Nat] /\ accepted \in [Pins -> Nat \cup {Never}]
  /\ raced \in [Pins -> BOOLEAN] /\ fresh \in [Pins -> BOOLEAN]
  /\ callback \in {"idle", "load", "store"}
  /\ callback # "idle" => alert.pin \in Pins
  /\ now \in Nat /\ LastTicks \in Nat
  /\ callback # "idle" => alert.at \in Nat

CountInv == MembersOK /\ \A p \in Pins : DebounceTimeUs[p] = 0 => Follows(p)

LEMMA CountInit == Init => CountInv
<1> SUFFICES ASSUME Init PROVE CountInv
  OBVIOUS
<1>1. MembersOK
  BY DEF Init, MembersOK, Levels, Never
<1>2. ASSUME NEW p \in Pins PROVE Follows(p)
  <2>1. Waiting(p) = {}
    BY DEF Init, Waiting
  <2>2. LastIsLevel(p) /\ Alternate(p) /\ NextIsChange(p)
    BY <2>1 DEF LastIsLevel, Alternate, NextIsChange
  <2>3. edges[p] = 0 /\ Untouched(p) /\ Counted(p)
    BY DEF Init, Untouched, Counted, Busy, Exact
  <2> QED BY <2>1, <2>2, <2>3 DEF Follows
<1> QED BY <1>1, <1>2 DEF CountInv

(* A step that leaves the wire and the debounced level of a pin alone.     *)
LEMMA SameLine ==
  ASSUME NEW p \in Pins, UNCHANGED <<alerts, level, CurrentState>>
  PROVE  /\ Waiting(p)' = Waiting(p)
         /\ LastIsLevel(p)' <=> LastIsLevel(p)
         /\ Alternate(p)' <=> Alternate(p)
         /\ NextIsChange(p)' <=> NextIsChange(p)
<1>1. Waiting(p)' = Waiting(p)
  BY DEF Waiting
<1> QED BY <1>1 DEF LastIsLevel, Alternate, NextIsChange

(* TimePasses, and the steps that do nothing.                              *)
LEMMA CountIdles ==
  ASSUME CountInv, TimePasses \/ UNCHANGED vars
  PROVE  CountInv'
<1> USE DEF CountInv
<1>1. /\ UNCHANGED <<level, edges, alerts, CurrentState, LastTicks, Steps>>
      /\ UNCHANGED <<callback, alert, loaded, handled, raced, fresh, accepted>>
      /\ now' \in Nat
  BY DEF TimePasses, vars, wireVars, memberVars, threadVars, historyVars, MembersOK
<1>2. MembersOK'
  BY <1>1 DEF MembersOK
<1>3. ASSUME NEW p \in Pins, DebounceTimeUs[p] = 0 PROVE Follows(p)'
  <2>1. /\ Busy(p)' <=> Busy(p)
        /\ Untouched(p)' <=> Untouched(p)
    BY <1>1 DEF Busy, Untouched
  <2>2. Counted(p)' <=> Counted(p)
    BY <1>1, <2>1 DEF Counted, Exact
  <2> QED BY <1>1, <1>3, <2>1, <2>2, SameLine DEF Follows
<1> QED BY <1>2, <1>3

(* Load, Store.                                                            *)
LEMMA CountStores ==
  ASSUME CountInv, Load \/ Store
  PROVE  CountInv'
<1> USE DEF CountInv
<1>1. /\ UNCHANGED <<now, level, edges, alerts, CurrentState>>
      /\ UNCHANGED <<handled, raced, fresh, accepted>>
      /\ callback \in {"load", "store"} /\ alert.pin \in Pins
  BY DEF Load, Store, wireVars, memberVars, historyVars, MembersOK
<1>2. CASE Load
  <2>1. /\ callback = "load" /\ callback' = "store" /\ alert' = alert
        /\ loaded' = Steps[alert.pin] /\ UNCHANGED <<Steps, LastTicks>>
    BY <1>2 DEF Load, memberVars
  <2>2. MembersOK'
    BY <1>1, <2>1 DEF MembersOK
  <2>3. ASSUME NEW p \in Pins, DebounceTimeUs[p] = 0 PROVE Follows(p)'
    <3>1. Busy(p)' <=> Busy(p)
      BY <2>1 DEF Busy
    <3>2. Untouched(p)' <=> Untouched(p)
      BY <1>1, <2>1, <3>1 DEF Untouched
    <3>3. Counted(p)'
      BY <1>1, <2>1, <2>3, <3>1 DEF Follows, Counted, Exact, Busy
    <3> QED BY <1>1, <2>3, <3>2, <3>3, SameLine DEF Follows
  <2> QED BY <2>2, <2>3
<1>3. CASE Store
  <2>1. /\ callback = "store" /\ callback' = "idle" /\ loaded' = 0
        /\ Steps' = [Steps EXCEPT ![alert.pin] = loaded + 1]
        /\ LastTicks' = alert.at % Wrap
    BY <1>3 DEF Store, Tick
  <2>2. LastTicks' \in Nat
    BY <1>1, <2>1, EncoderAssumption DEF MembersOK
  <2>3. MembersOK'
    BY <1>1, <2>1, <2>2 DEF MembersOK
  <2>4. ASSUME NEW p \in Pins, DebounceTimeUs[p] = 0 PROVE Follows(p)'
    <3>1. ~Busy(p)' /\ (Busy(p) <=> alert.pin = p)
      BY <1>1, <2>1 DEF Busy
    <3>2. Steps'[p] = IF alert.pin = p THEN loaded + 1 ELSE Steps[p]
      BY <1>1, <2>1 DEF MembersOK
    <3>3. Untouched(p) => Untouched(p)'
      BY <1>1, <3>1, <3>2 DEF Untouched
    <3>4. Counted(p)'
      BY <1>1, <2>1, <2>4, <3>1, <3>2 DEF Follows, Counted, Exact
    <3>5. edges'[p] = edges[p] /\ CurrentState'[p] = CurrentState[p] /\ level'[p] = level[p]
      BY <1>1
    <3> QED BY <1>1, <2>4, <3>3, <3>4, <3>5, SameLine DEF Follows
  <2> QED BY <2>3, <2>4
<1> QED BY <1>2, <1>3

LEMMA CountReset ==
  ASSUME CountInv, NEW q \in Pins, Reset(q)
  PROVE  CountInv'
<1> USE DEF CountInv
<1>1. /\ UNCHANGED <<now, level, edges, alerts, CurrentState, LastTicks>>
      /\ UNCHANGED <<callback, alert, loaded, accepted>>
  BY DEF Reset, wireVars, threadVars
<1>2. /\ Steps' = [Steps EXCEPT ![q] = 0]
      /\ handled' = [handled EXCEPT ![q] = IF Busy(q) THEN 1 ELSE 0]
      /\ raced' = [raced EXCEPT ![q] = callback = "store" /\ alert.pin = q]
      /\ fresh' = [fresh EXCEPT ![q] = fresh[q] /\ accepted[q] = Never]
  BY DEF Reset, Busy
<1>3. (callback = "store" /\ alert.pin = q) \in BOOLEAN
      /\ (fresh[q] /\ accepted[q] = Never) \in BOOLEAN
  OBVIOUS
<1>4. MembersOK'
  <2>1. /\ Steps' \in [Pins -> Nat] /\ handled' \in [Pins -> Nat]
        /\ raced' \in [Pins -> BOOLEAN] /\ fresh' \in [Pins -> BOOLEAN]
    BY <1>2, <1>3 DEF MembersOK
  <2> QED BY <1>1, <2>1 DEF MembersOK
<1>5. ASSUME NEW p \in Pins, DebounceTimeUs[p] = 0 PROVE Follows(p)'
  <2>1. Busy(p)' <=> Busy(p)
    BY <1>1 DEF Busy
  <2>2. CASE p # q
    <3>1. /\ Steps'[p] = Steps[p] /\ handled'[p] = handled[p]
          /\ raced'[p] = raced[p] /\ fresh'[p] = fresh[p]
      BY <1>2, <2>2 DEF MembersOK
    <3>2. Untouched(p)' <=> Untouched(p)
      BY <1>1, <2>1, <3>1 DEF Untouched
    <3>3. Counted(p)' <=> Counted(p)
      BY <1>1, <2>1, <3>1 DEF Counted, Exact
    <3> QED BY <1>1, <1>5, <3>2, <3>3, SameLine DEF Follows
  <2>3. CASE p = q
    <3>1. /\ Steps'[p] = 0 /\ handled'[p] = IF Busy(p) THEN 1 ELSE 0
          /\ raced'[p] <=> callback = "store" /\ alert.pin = p
          /\ fresh'[p] <=> fresh[p] /\ accepted[p] = Never
      BY <1>2, <2>3 DEF MembersOK
    <3>2. Untouched(p) => Untouched(p)'
      BY <1>1, <2>1, <3>1 DEF Untouched
    <3>3. Counted(p)'
      BY <1>1, <2>1, <3>1 DEF Counted, Exact, Busy
    <3> QED BY <1>1, <1>5, <3>2, <3>3, SameLine DEF Follows
  <2> QED BY <2>2, <2>3
<1> QED BY <1>4, <1>5

(* A new alert is a change from the level of the one before it.            *)
LEMMA CountEdge ==
  ASSUME CountInv, NEW q \in Pins, Edge(q)
  PROVE  CountInv'
<1> USE DEF CountInv
<1>1. PICK a \in Alerts : a.pin = q /\ a.level = 1 - level[q] /\ alerts' = Append(alerts, a)
  <2>1. level[q] \in {0, 1}
    BY DEF MembersOK, Levels
  <2>2. 1 - level[q] \in Levels /\ now \in Nat
    BY <2>1 DEF MembersOK, Levels
  <2> QED BY <2>2 DEF Edge, Alerts
<1>2. /\ edges' = [edges EXCEPT ![q] = @ + 1]
      /\ level' = [level EXCEPT ![q] = 1 - @]
      /\ UNCHANGED <<now, CurrentState, LastTicks, Steps, callback, alert, loaded>>
      /\ UNCHANGED <<handled, raced, fresh, accepted>>
  BY DEF Edge, memberVars, threadVars, historyVars
<1>3. MembersOK'
  <2>1. edges' \in [Pins -> Nat] /\ level' \in [Pins -> Levels]
    <3>1. level[q] \in {0, 1} /\ edges[q] \in Nat
      BY DEF MembersOK, Levels
    <3>2. 1 - level[q] \in Levels /\ edges[q] + 1 \in Nat
      BY <3>1 DEF Levels
    <3>3. level \in [Pins -> Levels] /\ edges \in [Pins -> Nat]
      BY DEF MembersOK
    <3> QED BY <1>2, <3>2, <3>3
  <2>2. alerts' \in Seq(Alerts)
    BY <1>1 DEF MembersOK
  <2> QED BY <1>2, <2>1, <2>2 DEF MembersOK
<1>4. PICK n \in Nat : n = Len(alerts)
  BY DEF MembersOK
<1>5. /\ Len(alerts') = n + 1 /\ alerts'[n + 1] = a
      /\ \A i \in 1..n : alerts'[i] = alerts[i]
  BY <1>1, <1>4 DEF MembersOK
<1>6. ASSUME NEW p \in Pins, DebounceTimeUs[p] = 0 PROVE Follows(p)'
  <2>1. /\ Busy(p)' <=> Busy(p)
        /\ Untouched(p)' <=> Untouched(p)
    BY <1>2 DEF Busy, Untouched
  <2>2. Counted(p)' <=> Counted(p)
    BY <1>2, <2>1 DEF Counted, Exact
  <2>3. CASE p # q
    <3>1. Waiting(p)' = Waiting(p)
      BY <1>1, <1>4, <1>5, <2>3 DEF Waiting
    <3>2. \A i \in Waiting(p) : alerts'[i] = alerts[i]
      BY <1>4, <1>5 DEF Waiting
    <3>3. level'[p] = level[p] /\ edges'[p] = edges[p]
      BY <1>2, <2>3 DEF MembersOK
    <3>4. /\ LastIsLevel(p)' <=> LastIsLevel(p)
          /\ Alternate(p)' <=> Alternate(p)
          /\ NextIsChange(p)' <=> NextIsChange(p)
      BY <1>2, <3>1, <3>2, <3>3 DEF LastIsLevel, Alternate, NextIsChange
    <3> QED BY <1>2, <1>6, <2>1, <2>2, <3>1, <3>3, <3>4 DEF Follows
  <2>4. CASE p = q
    <3>1. /\ Waiting(p)' = Waiting(p) \cup {n + 1}
          /\ Waiting(p) \subseteq 1..n
      BY <1>1, <1>4, <1>5, <2>4 DEF Waiting
    <3>2. /\ \A i \in Waiting(p) : alerts'[i] = alerts[i] /\ i \in Nat /\ i < n + 1
          /\ alerts'[n + 1].level = 1 - level[p]
      BY <1>1, <1>5, <2>4, <3>1
    <3>3. level'[p] = 1 - level[p] /\ level[p] \in {0, 1} /\ edges'[p] > 0
      BY <1>2, <2>4 DEF MembersOK, Levels
    <3>4. LastIsLevel(p)'
      BY <3>1, <3>2, <3>3 DEF LastIsLevel
    <3>5. Alternate(p)'
      <4>1. SUFFICES ASSUME NEW i \in Waiting(p)', NEW j \in Waiting(p)', i < j,
                            \A k \in Waiting(p)' : k <= i \/ j <= k
                     PROVE  alerts'[i].level # alerts'[j].level
        BY DEF Alternate
      <4>2. i \in Waiting(p)
        BY <3>1, <3>2, <4>1
      <4>3. CASE j \in Waiting(p)
        BY <1>6, <3>1, <3>2, <4>1, <4>2, <4>3 DEF Follows, Alternate
      <4>4. CASE j = n + 1
        <5>1. \A k \in Waiting(p) : k <= i
          BY <3>1, <3>2, <4>1, <4>4
        <5>2. alerts[i].level = level[p]
          BY <1>6, <4>2, <5>1 DEF Follows, LastIsLevel
        <5> QED BY <3>2, <3>3, <4>2, <4>4, <5>2
      <4> QED BY <3>1, <4>3, <4>4
    <3>6. NextIsChange(p)' \/ Untouched(p)
      <4>1. SUFFICES ASSUME ~Untouched(p), NEW i \in Waiting(p)',
                            \A j \in Waiting(p)' : i <= j
                     PROVE  alerts'[i].level # CurrentState'[p]
        BY DEF NextIsChange
      <4>2. CASE i \in Waiting(p)
        BY <1>2, <1>6, <3>1, <3>2, <4>1, <4>2 DEF Follows, NextIsChange
      <4>3. CASE i = n + 1
        <5>1. Waiting(p) = {}
          BY <3>1, <3>2, <4>1, <4>3
        <5>2. CurrentState[p] = level[p]
          BY <1>6, <4>1, <5>1 DEF Follows
        <5> QED BY <1>2, <3>2, <3>3, <4>3, <5>2
      <4> QED BY <3>1, <4>2, <4>3
    <3> QED BY <1>6, <2>1, <2>2, <3>1, <3>3, <3>4, <3>5, <3>6 DEF Follows
  <2> QED BY <2>3, <2>4
<1> QED BY <1>3, <1>6

(* Begin takes every change over; only the first alert of all may be none. *)
LEMMA CountBegin ==
  ASSUME CountInv, Begin
  PROVE  CountInv'
<1> USE DEF CountInv
<1>1. /\ callback = "idle" /\ alerts # <<>> /\ alerts' = Tail(alerts)
      /\ UNCHANGED <<now, level, edges, LastTicks, Steps, loaded, raced, fresh>>
  BY DEF Begin, wireVars
<1>2. PICK a \in Alerts : a = Head(alerts) /\ a = alerts[1]
  BY <1>1 DEF MembersOK
<1>3. a.pin \in Pins /\ a.level \in {0, 1} /\ a.at \in Nat
  BY DEF Alerts, Levels
<1>4. PICK n \in Nat : Len(alerts) = n + 1
  <2>1. Len(alerts) \in Nat /\ Len(alerts) # 0
    BY <1>1 DEF MembersOK
  <2> QED BY <2>1, Len(alerts) - 1 \in Nat
<1>5. /\ Len(alerts') = n /\ alerts' \in Seq(Alerts)
      /\ \A i \in 1..n : alerts'[i] = alerts[i + 1]
  BY <1>1, <1>4 DEF MembersOK
<1> DEFINE taken == a.level # CurrentState[a.pin] /\ Debounced(a)
<1>6. /\ handled' = [handled EXCEPT ![a.pin] = @ + 1]
      /\ taken => /\ CurrentState' = [CurrentState EXCEPT ![a.pin] = a.level]
                  /\ accepted' = [accepted EXCEPT ![a.pin] = a.at]
                  /\ callback' = "load" /\ alert' = a
      /\ ~taken => UNCHANGED <<CurrentState, accepted, callback, alert>>
  BY <1>2 DEF Begin
<1>7. DebounceTimeUs[a.pin] = 0 => Debounced(a)
  <2>1. Tick(a) - LastTicks \in Int
    BY <1>3, EncoderAssumption DEF Tick, MembersOK
  <2>2. (Tick(a) - LastTicks) % Wrap >= 0
    BY <2>1, EncoderAssumption
  <2> QED BY <2>2 DEF Debounced
<1> HIDE DEF taken
<1>8. MembersOK'
  <2>1. handled' \in [Pins -> Nat]
    BY <1>3, <1>6 DEF MembersOK
  <2>2. CASE taken
    <3>1. /\ CurrentState' \in [Pins -> {0, 1, 2}]
          /\ accepted' \in [Pins -> Nat \cup {Never}]
      BY <1>3, <1>6, <2>2 DEF MembersOK
    <3>2. alert'.pin \in Pins /\ alert'.at \in Nat /\ callback' = "load"
      BY <1>3, <1>6, <2>2
    <3> QED BY <1>1, <1>5, <2>1, <3>1, <3>2 DEF MembersOK
  <2>3. CASE ~taken
    BY <1>1, <1>5, <1>6, <2>1, <2>3 DEF MembersOK
  <2> QED BY <2>2, <2>3
<1>9. ASSUME NEW p \in Pins, DebounceTimeUs[p] = 0 PROVE Follows(p)'
  <2>1. /\ \A i \in Waiting(p)' : /\ i \in 1..n /\ i + 1 \in Waiting(p)
                                 /\ alerts'[i] = alerts[i + 1]
        /\ \A i \in 1..n : i + 1 \in Waiting(p) => i \in Waiting(p)'
        /\ Waiting(p) \subseteq 1..(n + 1)
    BY <1>4, <1>5 DEF Waiting
  <2>2. \A k \in Waiting(p) : k = 1 \/ (k - 1 \in Waiting(p)' /\ k > 1)
    <3>1. SUFFICES ASSUME NEW k \in Waiting(p), k # 1
                   PROVE  k - 1 \in Waiting(p)' /\ k > 1
      OBVIOUS
    <3>2. k - 1 \in 1..n /\ k > 1 /\ (k - 1) + 1 = k
      BY <2>1, <3>1
    <3> QED BY <2>1, <3>2
  <2>3. 1 \in Waiting(p) <=> a.pin = p
    BY <1>2, <1>4 DEF Waiting
  <2>4. LastIsLevel(p)'
    <3>1. SUFFICES ASSUME NEW i \in Waiting(p)', \A j \in Waiting(p)' : j <= i
                   PROVE  alerts'[i].level = level[p]
      BY <1>1 DEF LastIsLevel
    <3>2. \A k \in Waiting(p) : k <= i + 1
      BY <2>1, <2>2, <3>1
    <3> QED BY <1>9, <2>1, <3>1, <3>2 DEF Follows, LastIsLevel
  <2>5. Alternate(p)'
    <3>1. SUFFICES ASSUME NEW i \in Waiting(p)', NEW j \in Waiting(p)', i < j,
                          \A k \in Waiting(p)' : k <= i \/ j <= k
                   PROVE  alerts'[i].level # alerts'[j].level
      BY DEF Alternate
    <3>2. \A k \in Waiting(p) : k <= i + 1 \/ j + 1 <= k
      BY <2>1, <2>2, <3>1
    <3> QED BY <1>9, <2>1, <3>1, <3>2 DEF Follows, Alternate
  <2>6. CASE a.pin # p
    <3>1. /\ CurrentState'[p] = CurrentState[p] /\ accepted'[p] = accepted[p]
          /\ handled'[p] = handled[p] /\ ~Busy(p) /\ ~Busy(p)'
      BY <1>1, <1>3, <1>6, <2>6 DEF MembersOK, Busy
    <3>2. \A k \in Waiting(p) : k - 1 \in Waiting(p)' /\ k > 1
      BY <2>2, <2>3, <2>6
    <3>3. NextIsChange(p) => NextIsChange(p)'
      <4>1. SUFFICES ASSUME NextIsChange(p), NEW i \in Waiting(p)',
                            \A j \in Waiting(p)' : i <= j
                     PROVE  alerts'[i].level # CurrentState'[p]
        BY DEF NextIsChange
      <4>2. \A k \in Waiting(p) : i + 1 <= k
        BY <2>1, <3>2, <4>1
      <4> QED BY <2>1, <3>1, <4>1, <4>2 DEF NextIsChange
    <3>4. /\ Untouched(p) => Untouched(p)'
          /\ Counted(p) => Counted(p)'
      BY <1>1, <3>1 DEF Untouched, Counted, Exact
    <3>5. Waiting(p)' = {} <=> Waiting(p) = {}
      BY <2>1, <3>2
    <3> QED BY <1>1, <1>9, <2>4, <2>5, <3>1, <3>3, <3>4, <3>5 DEF Follows
  <2>7. CASE a.pin = p
    <3>1. taken <=> a.level # CurrentState[p]
      BY <1>7, <1>9, <2>7 DEF taken
    <3>2. /\ CurrentState'[p] = a.level
          /\ handled'[p] = handled[p] + 1
          /\ ~Busy(p) /\ (Busy(p)' <=> taken)
      BY <1>1, <1>6, <2>7, <3>1 DEF MembersOK, Busy
    <3>3. 1 \in Waiting(p) /\ \A k \in Waiting(p) : 1 <= k
      BY <2>1, <2>3, <2>7
    <3>4. edges[p] # 0
      BY <1>9, <3>3 DEF Follows
    <3>5. ~taken => Untouched(p)
      BY <1>2, <1>9, <3>1, <3>3 DEF Follows, NextIsChange
    <3>6. NextIsChange(p)'
      <4>1. SUFFICES ASSUME NEW i \in Waiting(p)', \A j \in Waiting(p)' : i <= j
                     PROVE  alerts'[i].level # CurrentState'[p]
        BY DEF NextIsChange
      <4>2. /\ i + 1 \in Waiting(p) /\ 1 < i + 1
            /\ \A k \in Waiting(p) : k <= 1 \/ i + 1 <= k
        BY <2>1, <2>2, <4>1
      <4>3. alerts[1].level # alerts[i + 1].level
        BY <1>9, <3>3, <4>2 DEF Follows, Alternate
      <4> QED BY <1>2, <2>1, <3>2, <4>1, <4>3
    <3>7. Waiting(p)' = {} => CurrentState'[p] = level'[p]
      <4>1. SUFFICES ASSUME Waiting(p)' = {} PROVE a.level = level[p]
        BY <1>1, <3>2
      <4>2. \A k \in Waiting(p) : k <= 1
        BY <2>2, <4>1
      <4> QED BY <1>2, <1>9, <3>3, <4>2 DEF Follows, LastIsLevel
    <3>8. Counted(p)'
      <4>1. SUFFICES ASSUME ~raced[p] PROVE Counted(p)'
        BY <1>1 DEF Counted
      <4>2. Exact(p, Steps[p]) /\ Steps'[p] = Steps[p] /\ (fresh'[p] <=> fresh[p])
        BY <1>1, <1>9, <3>2, <4>1 DEF Follows, Counted
      <4>3. handled[p] \in Nat /\ Steps[p] \in Nat
        BY DEF MembersOK
      <4>4. CASE taken
        BY <1>6, <3>2, <4>2, <4>3, <4>4 DEF Counted, Exact
      <4>5. CASE ~taken
        BY <3>2, <3>5, <4>2, <4>3, <4>5 DEF Counted, Exact, Untouched
      <4> QED BY <4>4, <4>5
    <3> QED BY <1>1, <2>4, <2>5, <3>4, <3>6, <3>7, <3>8 DEF Follows
  <2> QED BY <2>6, <2>7
<1> QED BY <1>8, <1>9

LEMMA CountInvariant == Spec => []CountInv
<1>1. CountInv /\ [Next]_vars => CountInv'
  BY CountIdles, CountStores, CountReset, CountEdge, CountBegin DEF Next, AlertThread
<1> QED BY <1>1, CountInit, PTL DEF Spec

-----------------------------------------------------------------------------
(* Without debouncing GpioInterrupt misses no change: once the alerts of   *)
(* an encoder are handled, CurrentState is the level of its pin.           *)
THEOREM FollowsSafe == Spec => []FollowsPin
<1>1. CountInv => FollowsPin
  <2>1. SUFFICES ASSUME CountInv, NEW p \in Pins, DebounceTimeUs[p] = 0,
                        edges[p] > 0, Heard(p)
                 PROVE  CurrentState[p] = level[p]
    BY DEF FollowsPin
  <2>2. Waiting(p) = {}
    BY <2>1 DEF Heard, Waiting
  <2> QED BY <2>1, <2>2 DEF CountInv, Follows
<1> QED BY <1>1, CountInvariant, PTL

(* Without debouncing EncoderInterrupt's Steps is the number of alerts     *)
(* since Reset(), but for the very first alert and for a Reset() that      *)
(* falls between the load and the store of Steps++.                        *)
THEOREM CountSafe == Spec => []CountExact
<1>1. CountInv => CountExact
  <2>1. SUFFICES ASSUME CountInv, NEW p \in Pins, DebounceTimeUs[p] = 0,
                        callback = "idle", ~raced[p]
                 PROVE  Exact(p, Steps[p])
    BY DEF CountExact, Exact
  <2> QED BY <2>1 DEF CountInv, Follows, Counted, Busy
<1> QED BY <1>1, CountInvariant, PTL
==============================================================================
