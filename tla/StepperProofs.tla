---------------------------- MODULE StepperProofs ----------------------------
(***************************************************************************)
(* What holds of the stepper for any duty cycles, any moves, and any       *)
(* number of pulses, however late they are reported.                       *)
(***************************************************************************)
EXTENDS Stepper, TLAPS

-----------------------------------------------------------------------------
(* What can be left of a call: Drive<n>, Stop<n>, ... is a method with n   *)
(* statements still to go.                                                 *)
Drive1 == << <<"enablePin", 1>> >>
Drive2(d) == << <<"pwm", d>>, <<"enablePin", 1>> >>
Drive3(d) == << <<"StepsDone", 0>>, <<"pwm", d>>, <<"enablePin", 1>> >>
Drive4(n, d) ==
  << <<"StepsToDo", n>>, <<"StepsDone", 0>>, <<"pwm", d>>, <<"enablePin", 1>> >>
Drive5(s, n, d) ==
  << <<"CurrentState", s>>, <<"StepsToDo", n>>, <<"StepsDone", 0>>,
     <<"pwm", d>>, <<"enablePin", 1>> >>

Stop1 == << <<"enablePin", 0>> >>
Stop2 == << <<"pwm", 0>>, <<"enablePin", 0>> >>
Stop3 == << <<"CurrentState", "STOPPED">>, <<"pwm", 0>>, <<"enablePin", 0>> >>
Stop4 ==
  << <<"return if stopped">>, <<"CurrentState", "STOPPED">>, <<"pwm", 0>>,
     <<"enablePin", 0>> >>
Stop5 ==
  << <<"StepsDone", 0>>, <<"return if stopped">>, <<"CurrentState", "STOPPED">>,
     <<"pwm", 0>>, <<"enablePin", 0>> >>
Stop6 ==
  << <<"StepsToDo", 0>>, <<"StepsDone", 0>>, <<"return if stopped">>,
     <<"CurrentState", "STOPPED">>, <<"pwm", 0>>, <<"enablePin", 0>> >>
Stop7 ==
  << <<"LastStepsDone">>, <<"StepsToDo", 0>>, <<"StepsDone", 0>>,
     <<"return if stopped">>, <<"CurrentState", "STOPPED">>, <<"pwm", 0>>,
     <<"enablePin", 0>> >>
Stop8 ==
  << <<"LastStepsToDo">>, <<"LastStepsDone">>, <<"StepsToDo", 0>>,
     <<"StepsDone", 0>>, <<"return if stopped">>, <<"CurrentState", "STOPPED">>,
     <<"pwm", 0>>, <<"enablePin", 0>> >>

Config1 == << <<"pwm", 0>> >>
Config2(d) == << <<"PwmDutyProcents", d>>, <<"pwm", 0>> >>

Direction1(x) == << <<"directionPin", x>> >>
Direction2(x) == << <<"CurrentDirection", x>>, <<"directionPin", x>> >>

-----------------------------------------------------------------------------
TypesOK ==
  /\ CurrentState \in {"STOPPED", "RUNNING_STEPS", "RUNNING"}
  /\ StepsToDo \in Int /\ StepsDone \in Nat /\ loaded \in Int
  /\ callback = "store" => loaded \in Nat
  /\ PwmDutyProcents \in Nat /\ pwm \in Nat /\ enablePin \in {0, 1}
  /\ pending \in Nat /\ made \in Nat /\ goal \in Int
  /\ reports \in Seq(Int)

(* Before RunSteps() or Run() turns the PWM on, of a careful client.       *)
Quiet ==
  careful => /\ pwm = 0 /\ pending = 0 /\ callback = "idle"
             /\ made = 0 /\ reports = <<>>

(* The count of a move: no pulse is counted that was not made, or twice.   *)
InHand == IF callback \in {"load", "store"} THEN 1 ELSE 0

Counting ==
  careful =>
    /\ StepsToDo \in {0, goal}
    /\ StepsDone + pending + InHand <= made
    /\ callback = "store" => loaded + pending + 1 <= made

(* The forms a call can have, and what a careful client finds meanwhile.   *)
Starts ==
  \/ \E s \in {"RUNNING_STEPS", "RUNNING"}, n \in Int, d \in Nat :
       /\ call = Drive5(s, n, d)
       /\ Quiet /\ (careful => ~IsRunning /\ n = goal)
  \/ \E n \in Int, d \in Nat :
       /\ call = Drive4(n, d)
       /\ Quiet /\ (careful => IsRunning /\ n = goal)
  \/ \E d \in Nat :
       /\ call = Drive3(d)
       /\ Quiet /\ (careful => IsRunning /\ StepsToDo = goal)
  \/ \E d \in Nat :
       /\ call = Drive2(d)
       /\ Quiet /\ (careful => IsRunning /\ StepsToDo = goal /\ StepsDone = 0)

Continues ==
  /\ Counting
  /\ \/ call = <<>> \/ call = Drive1
     \/ /\ call \in {Stop8, Stop7, Stop6, Stop5, Stop4, Stop3, Stop2}
        /\ careful => stopped
     \/ call = Stop1 /\ pwm = 0 /\ (careful => stopped)
     \/ call = Config1 \/ \E d \in Nat : call = Config2(d)
     \/ \E x \in {0, 1} : call = Direction1(x) \/ call = Direction2(x)

CallOK == Starts \/ Continues

(* The driver is disabled only when the PWM is off; it is enabled last.    *)
Enabled == pwm > 0 => enablePin = 1 \/ call = Drive1

(* The callback after the comparison that found the last step.             *)
PastStop == callback \in {"last to do", "last done", "report"}
Ending == callback \in {"pwm off", "state"} \/ PastStop

(* Of a careful client, in the test for the last step: only Stop() zeroes  *)
(* what the three reads of the test read.                                  *)
Testing ==
  careful =>
    /\ callback \in {"test", "operand", "to do", "done"} => StepsDone > 0 \/ stopped
    /\ callback \in {"operand", "to do", "done"} =>
         goal > 0 /\ (StepsToDo = goal \/ stopped)
    /\ callback = "to do" =>
         loaded <= made /\ (StepsDone = loaded \/ (stopped /\ StepsDone = 0))
    /\ callback = "done" => loaded = goal \/ (stopped /\ loaded = 0)

(* Of a careful client: a motor that is stopped has its PWM off, or is     *)
(* about to have; a move whose last step was counted, or whose counts were *)
(* zeroed, has come to its end, is reported once, and no other step is     *)
(* counted.                                                                *)
Ends ==
  careful =>
    /\ ~IsRunning /\ pwm > 0 => call = Stop2
    /\ callback = "state" => pwm = 0
    /\ PastStop => ~IsRunning
    /\ Ending => (StepsDone = goal /\ made >= goal) \/ (stopped /\ StepsDone = 0)
    /\ reports # <<>> => callback = "idle" /\ ~IsRunning

StepperInv ==
  /\ TypesOK /\ CallOK /\ Enabled /\ Testing /\ Ends
  /\ NeverShort /\ ReportedOnce

-----------------------------------------------------------------------------
(* The statements: of the variables the invariant speaks of, those that    *)
(* some statement writes, and those that none does.                        *)
writtenVars == <<CurrentState, StepsToDo, StepsDone, PwmDutyProcents, pwm, enablePin>>
restVars ==
  <<callback, loaded, pending, goal, made, reports, stopped, careful>>

USE DEF writtenVars, restVars

LEMMA Kinds ==
  ASSUME NEW k, NEW v, call # <<>>, Head(call) = <<k, v>>
  PROVE  /\ \A kind : At(kind) <=> kind = k
         /\ \A kind, old : Assign(kind, old) = IF kind = k THEN v ELSE old
<1>1. Head(call)[1] = k /\ Head(call)[2] = v
  OBVIOUS
<1> QED BY <1>1 DEF At, Assign

LEMMA Assigns ==
  ASSUME NEW k, NEW v, call # <<>>, Head(call) = <<k, v>>,
         k # "return if stopped", Statement
  PROVE  /\ call' = Tail(call)
         /\ CurrentState' = IF k = "CurrentState" THEN v ELSE CurrentState
         /\ StepsToDo' = IF k = "StepsToDo" THEN v ELSE StepsToDo
         /\ StepsDone' = IF k = "StepsDone" THEN v ELSE StepsDone
         /\ PwmDutyProcents' = IF k = "PwmDutyProcents" THEN v ELSE PwmDutyProcents
         /\ pwm' = IF k = "pwm" THEN v ELSE pwm
         /\ enablePin' = IF k = "enablePin" THEN v ELSE enablePin
         /\ UNCHANGED restVars
<1>1. /\ \A kind : At(kind) <=> kind = k
      /\ \A kind, old : Assign(kind, old) = IF kind = k THEN v ELSE old
  BY Kinds
<1> QED BY <1>1 DEF Statement, threadVars, historyVars

LEMMA Passes ==
  ASSUME NEW k, call # <<>>, Head(call) = <<k>>, Statement,
         k \in {"LastStepsToDo", "LastStepsDone", "return if stopped"}
  PROVE  /\ k = "return if stopped" => call' \in {<<>>, Tail(call)}
         /\ k = "return if stopped" /\ IsRunning => call' = Tail(call)
         /\ k # "return if stopped" => call' = Tail(call)
         /\ UNCHANGED writtenVars
         /\ UNCHANGED restVars
<1>1. <<k>>[1] = k
  OBVIOUS
<1>2. \A kind : At(kind) <=> kind = k
  BY <1>1 DEF At
<1>3. \A kind, old : kind # k => Assign(kind, old) = old
  BY <1>2 DEF Assign
<1>4. /\ k # "CurrentState" /\ k # "StepsToDo" /\ k # "StepsDone"
      /\ k # "PwmDutyProcents" /\ k # "pwm" /\ k # "enablePin"
  OBVIOUS
<1>5. UNCHANGED writtenVars
  BY <1>3, <1>4 DEF Statement
<1>6. /\ k = "return if stopped" => call' \in {<<>>, Tail(call)}
      /\ k = "return if stopped" /\ IsRunning => call' = Tail(call)
      /\ k # "return if stopped" => call' = Tail(call)
  BY <1>2 DEF Statement
<1> QED BY <1>5, <1>6 DEF Statement, threadVars, historyVars

(* A statement changes nothing that NeverShort and ReportedOnce speak of.  *)
LEMMA Kept ==
  ASSUME StepperInv, UNCHANGED <<goal, made, reports, stopped, careful>>
  PROVE  NeverShort' /\ ReportedOnce'
BY DEF StepperInv, NeverShort, ReportedOnce

(* The test for the last step, when nothing it reads has changed, and when *)
(* the alert thread is not in it.                                          *)
LEMMA TestingKept ==
  ASSUME Testing, made \in Nat, loaded \in Int, made' \in {made, made + 1},
         careful' => careful, careful /\ stopped => stopped',
         UNCHANGED <<callback, loaded, goal, StepsDone, StepsToDo>>
  PROVE  Testing'
<1>1. loaded <= made => loaded' <= made'
  OBVIOUS
<1> QED BY <1>1 DEF Testing

LEMMA TestingIdle ==
  ASSUME careful' => callback' \notin {"test", "operand", "to do", "done"}
  PROVE  Testing'
BY DEF Testing

LEMMA StartsStep ==
  ASSUME StepperInv, Statement, Starts
  PROVE  StepperInv'
<1> USE DEF StepperInv
<1>1. ASSUME NEW s \in {"RUNNING_STEPS", "RUNNING"}, NEW n \in Int, NEW d \in Nat,
             call = Drive5(s, n, d), Quiet, careful => ~IsRunning /\ n = goal
      PROVE  StepperInv'
  <2>1. /\ call # <<>> /\ Head(call) = <<"CurrentState", s>>
        /\ Tail(call) = Drive4(n, d) /\ call # Drive1 /\ call # Stop2
    BY <1>1 DEF Drive5, Drive4, Drive1, Stop2
  <2>2. /\ call' = Drive4(n, d) /\ CurrentState' = s
        /\ UNCHANGED <<StepsToDo, StepsDone, PwmDutyProcents, pwm, enablePin>>
        /\ UNCHANGED restVars
    BY <2>1, Assigns
  <2>3. TypesOK'
    BY <2>2 DEF TypesOK
  <2>4. Starts'
    BY <1>1, <2>2 DEF Starts, Quiet, IsRunning
  <2>5. Enabled' /\ Ends'
    BY <1>1, <2>1, <2>2 DEF Enabled, Ends, PastStop, Ending, Quiet, IsRunning
  <2>6. Testing'
    BY <1>1, <2>2, TestingIdle DEF Quiet
  <2> QED BY <2>2, <2>3, <2>4, <2>5, <2>6, Kept DEF CallOK
<1>2. ASSUME NEW n \in Int, NEW d \in Nat,
             call = Drive4(n, d), Quiet, careful => IsRunning /\ n = goal
      PROVE  StepperInv'
  <2>1. /\ call # <<>> /\ Head(call) = <<"StepsToDo", n>>
        /\ Tail(call) = Drive3(d) /\ call # Drive1 /\ call # Stop2
    BY <1>2 DEF Drive4, Drive3, Drive1, Stop2
  <2>2. /\ call' = Drive3(d) /\ StepsToDo' = n
        /\ UNCHANGED <<CurrentState, StepsDone, PwmDutyProcents, pwm, enablePin>>
        /\ UNCHANGED restVars
    BY <2>1, Assigns
  <2>3. TypesOK'
    BY <2>2 DEF TypesOK
  <2>4. Starts'
    BY <1>2, <2>2 DEF Starts, Quiet, IsRunning
  <2>5. Enabled' /\ Ends'
    BY <1>2, <2>1, <2>2 DEF Enabled, Ends, PastStop, Ending, Quiet, IsRunning
  <2>6. Testing'
    BY <1>2, <2>2, TestingIdle DEF Quiet
  <2> QED BY <2>2, <2>3, <2>4, <2>5, <2>6, Kept DEF CallOK
<1>3. ASSUME NEW d \in Nat,
             call = Drive3(d), Quiet, careful => IsRunning /\ StepsToDo = goal
      PROVE  StepperInv'
  <2>1. /\ call # <<>> /\ Head(call) = <<"StepsDone", 0>>
        /\ Tail(call) = Drive2(d) /\ call # Drive1 /\ call # Stop2
    BY <1>3 DEF Drive3, Drive2, Drive1, Stop2
  <2>2. /\ call' = Drive2(d) /\ StepsDone' = 0
        /\ UNCHANGED <<CurrentState, StepsToDo, PwmDutyProcents, pwm, enablePin>>
        /\ UNCHANGED restVars
    BY <2>1, Assigns
  <2>3. TypesOK'
    BY <2>2 DEF TypesOK
  <2>4. Starts'
    BY <1>3, <2>2 DEF Starts, Quiet, IsRunning
  <2>5. Enabled' /\ Ends'
    BY <1>3, <2>1, <2>2 DEF Enabled, Ends, PastStop, Ending, Quiet, IsRunning
  <2>6. Testing'
    BY <1>3, <2>2, TestingIdle DEF Quiet
  <2> QED BY <2>2, <2>3, <2>4, <2>5, <2>6, Kept DEF CallOK
<1>4. ASSUME NEW d \in Nat, call = Drive2(d), Quiet,
             careful => IsRunning /\ StepsToDo = goal /\ StepsDone = 0
      PROVE  StepperInv'
  <2>1. call # <<>> /\ Head(call) = <<"pwm", d>> /\ Tail(call) = Drive1
    BY <1>4 DEF Drive2, Drive1
  <2>2. /\ call' = Drive1 /\ pwm' = d
        /\ UNCHANGED <<CurrentState, StepsToDo, StepsDone, PwmDutyProcents, enablePin>>
        /\ UNCHANGED restVars
    BY <2>1, Assigns
  <2>3. TypesOK'
    BY <2>2 DEF TypesOK
  <2>4. Counting'
    BY <1>4, <2>2 DEF Counting, InHand, Quiet, TypesOK
  <2>5. Continues'
    BY <2>2, <2>4 DEF Continues
  <2>6. Enabled' /\ Ends'
    BY <1>4, <2>2 DEF Enabled, Ends, PastStop, Ending, Quiet, IsRunning
  <2>7. Testing'
    BY <1>4, <2>2, TestingIdle DEF Quiet
  <2> QED BY <2>2, <2>3, <2>5, <2>6, <2>7, Kept DEF CallOK
<1> QED BY <1>1, <1>2, <1>3, <1>4 DEF Starts

(* A statement that writes nothing the invariant speaks of.                *)
LEMMA PassesOn ==
  ASSUME NEW k \in {"LastStepsToDo", "LastStepsDone"}, call # <<>>,
         Head(call) = <<k>>, Statement
  PROVE  /\ call' = Tail(call)
         /\ UNCHANGED writtenVars
         /\ UNCHANGED restVars
<1>1. /\ k \in {"LastStepsToDo", "LastStepsDone", "return if stopped"}
      /\ k # "return if stopped"
  OBVIOUS
<1> QED BY <1>1, Passes

LEMMA AssignsOther ==
  ASSUME NEW k \in {"CurrentDirection", "directionPin"}, NEW v, call # <<>>,
         Head(call) = <<k, v>>, Statement
  PROVE  /\ call' = Tail(call)
         /\ UNCHANGED writtenVars
         /\ UNCHANGED restVars
<1>1. /\ k # "CurrentState" /\ k # "StepsToDo" /\ k # "StepsDone"
      /\ k # "PwmDutyProcents" /\ k # "pwm" /\ k # "enablePin"
      /\ k # "return if stopped"
  OBVIOUS
<1> QED BY <1>1, Assigns

(* What is first in a call to Stop(), and what is left of it.              *)
LEMMA LongStops ==
  /\ Stop8 # <<>> /\ Head(Stop8) = <<"LastStepsToDo">> /\ Tail(Stop8) = Stop7
  /\ Stop7 # <<>> /\ Head(Stop7) = <<"LastStepsDone">> /\ Tail(Stop7) = Stop6
  /\ Stop6 # <<>> /\ Head(Stop6) = <<"StepsToDo", 0>> /\ Tail(Stop6) = Stop5
  /\ Stop5 # <<>> /\ Head(Stop5) = <<"StepsDone", 0>> /\ Tail(Stop5) = Stop4
  /\ Stop4 # <<>> /\ Head(Stop4) = <<"return if stopped">> /\ Tail(Stop4) = Stop3
<1> DEFINE a == <<"LastStepsToDo">>
           b == <<"LastStepsDone">>
           c == <<"StepsToDo", 0>>
           d == <<"StepsDone", 0>>
           e == <<"return if stopped">>
           f == <<"CurrentState", "STOPPED">>
           g == <<"pwm", 0>>
           h == <<"enablePin", 0>>
<1>1. /\ Stop8 = <<a, b, c, d, e, f, g, h>> /\ Stop7 = <<b, c, d, e, f, g, h>>
      /\ Stop6 = <<c, d, e, f, g, h>> /\ Stop5 = <<d, e, f, g, h>>
      /\ Stop4 = <<e, f, g, h>> /\ Stop3 = <<f, g, h>>
  BY DEF Stop8, Stop7, Stop6, Stop5, Stop4, Stop3
<1> HIDE DEF a, b, c, d, e, f, g, h
<1>2. /\ Stop8 # <<>> /\ Head(Stop8) = a /\ Tail(Stop8) = Stop7
      /\ Stop7 # <<>> /\ Head(Stop7) = b /\ Tail(Stop7) = Stop6
      /\ Stop6 # <<>> /\ Head(Stop6) = c /\ Tail(Stop6) = Stop5
  BY <1>1
<1>3. /\ Stop5 # <<>> /\ Head(Stop5) = d /\ Tail(Stop5) = Stop4
      /\ Stop4 # <<>> /\ Head(Stop4) = e /\ Tail(Stop4) = Stop3
  BY <1>1
<1> QED BY <1>2, <1>3 DEF a, b, c, d, e

LEMMA OtherForms ==
  ASSUME NEW form \in {Stop8, Stop7, Stop6, Stop5, Stop4}
  PROVE  form # Drive1 /\ form # Stop2
<1>1. Head(Drive1)[1] = "enablePin" /\ Head(Stop2)[1] = "pwm"
  BY DEF Drive1, Stop2
<1>2. /\ <<"LastStepsToDo">>[1] = "LastStepsToDo"
      /\ <<"LastStepsDone">>[1] = "LastStepsDone"
      /\ <<"return if stopped">>[1] = "return if stopped"
  OBVIOUS
<1>3. <<"StepsToDo", 0>>[1] = "StepsToDo" /\ <<"StepsDone", 0>>[1] = "StepsDone"
  OBVIOUS
<1>4. Head(form)[1] \in {"LastStepsToDo", "LastStepsDone", "StepsToDo", "StepsDone",
                        "return if stopped"}
  BY <1>2, <1>3, LongStops
<1> QED BY <1>1, <1>4

(* A statement that turns nothing on, of a call that is not starting a     *)
(* move: only a client that has called Stop() zeroes the counts.           *)
LEMMA TurnsNothingOn ==
  ASSUME StepperInv, Counting,
         StepsToDo' \in {StepsToDo, 0}, StepsDone' \in {StepsDone, 0},
         careful => stopped \/ UNCHANGED <<StepsDone, StepsToDo>>,
         PwmDutyProcents' \in Nat, pwm' \in {pwm, 0},
         pwm' = 0 \/ (call # Drive1 /\ call # Stop2),
         UNCHANGED <<CurrentState, enablePin, callback, loaded, pending, goal,
                     made, reports, stopped, careful>>
  PROVE  /\ TypesOK' /\ Counting' /\ Enabled' /\ Testing' /\ Ends'
         /\ NeverShort' /\ ReportedOnce'
<1> USE DEF StepperInv
<1>1. TypesOK'
  BY DEF TypesOK
<1>2. Counting'
  <2>1. StepsToDo \in {0, goal} => StepsToDo' \in {0, goal}
    OBVIOUS
  <2>2. StepsDone' \in Nat /\ StepsDone' <= StepsDone
    BY DEF TypesOK
  <2>3. InHand' = InHand /\ InHand \in Nat
    BY DEF InHand
  <2>4. ASSUME careful
        PROVE  /\ StepsToDo' \in {0, goal}
               /\ StepsDone' + pending + InHand <= made
               /\ callback = "store" => loaded + pending + 1 <= made
    <3>1. /\ StepsToDo \in {0, goal}
          /\ StepsDone + pending + InHand <= made
          /\ callback = "store" => loaded + pending + 1 <= made
      BY <2>4 DEF Counting
    <3>2. StepsDone' + pending + InHand <= made
      <4>1. pending \in Nat /\ made \in Nat /\ StepsDone \in Nat
        BY DEF TypesOK
      <4>2. \A a, b, c, d, m \in Nat : b <= a /\ a + c + d <= m => b + c + d <= m
        OBVIOUS
      <4> QED BY <2>2, <2>3, <3>1, <4>1, <4>2, Zenon
    <3> QED BY <2>1, <3>1, <3>2
  <2> QED BY <2>3, <2>4 DEF Counting
<1>3. Enabled'
  BY DEF Enabled, TypesOK
<1>4. Ends'
  <2>1. (PastStop' <=> PastStop) /\ (Ending' <=> Ending)
    BY DEF PastStop, Ending
  <2>2. pwm' > 0 => pwm > 0 /\ call # Stop2
    BY DEF TypesOK
  <2> QED BY <2>1, <2>2 DEF Ends, PastStop, Ending, IsRunning
<1>5. Testing'
  <2>1. StepsDone > 0 => StepsDone' > 0 \/ StepsDone' = 0
    OBVIOUS
  <2> QED BY <2>1 DEF Testing, TypesOK
<1> QED BY <1>1, <1>2, <1>3, <1>4, <1>5, Kept

LEMMA ContinuesStep ==
  ASSUME StepperInv, Statement, Continues
  PROVE  StepperInv'
<1> USE DEF StepperInv
<1>0. Counting /\ TypesOK
  BY DEF Continues
<1>1. CASE call = Drive1
  <2>1. /\ call # <<>> /\ Head(call) = <<"enablePin", 1>> /\ Tail(call) = <<>>
        /\ call # Stop2
    BY <1>1 DEF Drive1, Stop2
  <2>2. /\ call' = <<>> /\ enablePin' = 1
        /\ UNCHANGED <<CurrentState, StepsToDo, StepsDone, PwmDutyProcents, pwm>>
        /\ UNCHANGED restVars
    BY <2>1, Assigns
  <2>3. TypesOK'
    BY <2>2 DEF TypesOK
  <2>4. Counting'
    BY <1>0, <2>2 DEF Counting, InHand
  <2>5. Continues'
    BY <2>2, <2>4 DEF Continues
  <2>6. Enabled' /\ Ends'
    BY <2>1, <2>2 DEF Enabled, Ends, PastStop, Ending, IsRunning
  <2>7. Testing'
    BY <2>2, TestingKept DEF TypesOK
  <2> QED BY <2>2, <2>3, <2>5, <2>6, <2>7, Kept DEF CallOK
<1>2. CASE call = Stop8 /\ (careful => stopped)
  <2>1. /\ call # <<>> /\ Head(call) = <<"LastStepsToDo">> /\ Tail(call) = Stop7
        /\ call # Drive1 /\ call # Stop2
    BY <1>2, LongStops, OtherForms
  <2>2. /\ call' = Stop7
        /\ UNCHANGED writtenVars
        /\ UNCHANGED restVars
    BY <2>1, PassesOn
  <2>3. /\ TypesOK' /\ Counting' /\ Enabled' /\ Testing' /\ Ends'
        /\ NeverShort' /\ ReportedOnce'
    BY <1>0, <1>2, <2>1, <2>2, TurnsNothingOn DEF TypesOK
  <2>4. Continues'
    BY <1>2, <2>2, <2>3 DEF Continues
  <2> QED BY <2>3, <2>4 DEF CallOK
<1>3. CASE call = Stop7 /\ (careful => stopped)
  <2>1. /\ call # <<>> /\ Head(call) = <<"LastStepsDone">> /\ Tail(call) = Stop6
        /\ call # Drive1 /\ call # Stop2
    BY <1>3, LongStops, OtherForms
  <2>2. /\ call' = Stop6
        /\ UNCHANGED writtenVars
        /\ UNCHANGED restVars
    BY <2>1, PassesOn
  <2>3. /\ TypesOK' /\ Counting' /\ Enabled' /\ Testing' /\ Ends'
        /\ NeverShort' /\ ReportedOnce'
    BY <1>0, <1>3, <2>1, <2>2, TurnsNothingOn DEF TypesOK
  <2>4. Continues'
    BY <1>3, <2>2, <2>3 DEF Continues
  <2> QED BY <2>3, <2>4 DEF CallOK
<1>4. CASE call = Stop6 /\ (careful => stopped)
  <2>1. /\ call # <<>> /\ Head(call) = <<"StepsToDo", 0>> /\ Tail(call) = Stop5
        /\ call # Drive1 /\ call # Stop2
    BY <1>4, LongStops, OtherForms
  <2>2. /\ call' = Stop5 /\ StepsToDo' = 0
        /\ UNCHANGED <<CurrentState, StepsDone, PwmDutyProcents, pwm, enablePin>>
        /\ UNCHANGED restVars
    BY <2>1, Assigns
  <2>3. /\ TypesOK' /\ Counting' /\ Enabled' /\ Testing' /\ Ends'
        /\ NeverShort' /\ ReportedOnce'
    BY <1>0, <1>4, <2>1, <2>2, TurnsNothingOn DEF TypesOK
  <2>4. Continues'
    BY <1>4, <2>2, <2>3 DEF Continues
  <2> QED BY <2>3, <2>4 DEF CallOK
<1>5. CASE call = Stop5 /\ (careful => stopped)
  <2>1. /\ call # <<>> /\ Head(call) = <<"StepsDone", 0>> /\ Tail(call) = Stop4
        /\ call # Drive1 /\ call # Stop2
    BY <1>5, LongStops, OtherForms
  <2>2. /\ call' = Stop4 /\ StepsDone' = 0
        /\ UNCHANGED <<CurrentState, StepsToDo, PwmDutyProcents, pwm, enablePin>>
        /\ UNCHANGED restVars
    BY <2>1, Assigns
  <2>3. /\ TypesOK' /\ Counting' /\ Enabled' /\ Testing' /\ Ends'
        /\ NeverShort' /\ ReportedOnce'
    BY <1>0, <1>5, <2>1, <2>2, TurnsNothingOn DEF TypesOK
  <2>4. Continues'
    BY <1>5, <2>2, <2>3 DEF Continues
  <2> QED BY <2>3, <2>4 DEF CallOK
<1>6. CASE call = Stop4 /\ (careful => stopped)
  <2>1. /\ call # <<>> /\ Head(call) = <<"return if stopped">> /\ Tail(call) = Stop3
        /\ call # Drive1 /\ call # Stop2
    BY <1>6, LongStops, OtherForms
  <2>2. /\ call' \in {<<>>, Stop3}
        /\ UNCHANGED writtenVars
        /\ UNCHANGED restVars
    BY <2>1, Passes
  <2>3. /\ TypesOK' /\ Counting' /\ Enabled' /\ Testing' /\ Ends'
        /\ NeverShort' /\ ReportedOnce'
    BY <1>0, <1>6, <2>1, <2>2, TurnsNothingOn DEF TypesOK
  <2>4. Continues'
    BY <1>6, <2>2, <2>3 DEF Continues
  <2> QED BY <2>3, <2>4 DEF CallOK
<1>7. CASE call = Stop3 /\ (careful => stopped)
  <2>1. /\ call # <<>> /\ Head(call) = <<"CurrentState", "STOPPED">> /\ Tail(call) = Stop2
        /\ call # Drive1 /\ call # Stop2
    BY <1>7 DEF Stop3, Stop2, Drive1
  <2>2. /\ call' = Stop2 /\ CurrentState' = "STOPPED"
        /\ UNCHANGED <<StepsToDo, StepsDone, PwmDutyProcents, pwm, enablePin>>
        /\ UNCHANGED restVars
    BY <2>1, Assigns
  <2>3. TypesOK'
    BY <2>2 DEF TypesOK
  <2>4. Counting'
    BY <1>0, <2>2 DEF Counting, InHand
  <2>5. Continues'
    BY <1>7, <2>2, <2>4 DEF Continues
  <2>6. Enabled'
    BY <2>1, <2>2 DEF Enabled
  <2>7. Ends'
    BY <2>1, <2>2 DEF Ends, PastStop, Ending, IsRunning
  <2>8. Testing'
    BY <2>2, TestingKept DEF TypesOK
  <2> QED BY <2>2, <2>3, <2>5, <2>6, <2>7, <2>8, Kept DEF CallOK
<1>8. CASE call = Stop2 /\ (careful => stopped)
  <2>1. /\ call # <<>> /\ Head(call) = <<"pwm", 0>> /\ Tail(call) = Stop1
    BY <1>8 DEF Stop2, Stop1
  <2>2. /\ call' = Stop1 /\ pwm' = 0
        /\ UNCHANGED <<CurrentState, StepsToDo, StepsDone, PwmDutyProcents, enablePin>>
        /\ UNCHANGED restVars
    BY <2>1, Assigns
  <2>3. /\ TypesOK' /\ Counting' /\ Enabled' /\ Testing' /\ Ends'
        /\ NeverShort' /\ ReportedOnce'
    BY <1>0, <1>8, <2>1, <2>2, TurnsNothingOn DEF TypesOK
  <2>4. Continues'
    BY <1>8, <2>2, <2>3 DEF Continues
  <2> QED BY <2>3, <2>4 DEF CallOK
<1>9. CASE call = Stop1 /\ pwm = 0
  <2>1. call # <<>> /\ Head(call) = <<"enablePin", 0>> /\ Tail(call) = <<>>
    BY <1>9 DEF Stop1
  <2>2. /\ call' = <<>> /\ enablePin' = 0
        /\ UNCHANGED <<CurrentState, StepsToDo, StepsDone, PwmDutyProcents, pwm>>
        /\ UNCHANGED restVars
    BY <2>1, Assigns
  <2>3. TypesOK'
    BY <2>2 DEF TypesOK
  <2>4. Counting'
    BY <1>0, <2>2 DEF Counting, InHand
  <2>5. Continues'
    BY <2>2, <2>4 DEF Continues
  <2>6. Enabled' /\ Ends'
    <3>1. ~(pwm' > 0) /\ ~(pwm > 0)
      BY <1>9, <2>2
    <3>2. (PastStop' <=> PastStop) /\ (Ending' <=> Ending)
      BY <2>2 DEF PastStop, Ending
    <3> QED BY <2>2, <3>1, <3>2 DEF Enabled, Ends, PastStop, Ending, IsRunning
  <2>7. Testing'
    BY <2>2, TestingKept DEF TypesOK
  <2> QED BY <2>2, <2>3, <2>5, <2>6, <2>7, Kept DEF CallOK
<1>10. CASE call = Config1
  <2>1. call # <<>> /\ Head(call) = <<"pwm", 0>> /\ Tail(call) = <<>>
    BY <1>10 DEF Config1
  <2>2. /\ call' = <<>> /\ pwm' = 0
        /\ UNCHANGED <<CurrentState, StepsToDo, StepsDone, PwmDutyProcents, enablePin>>
        /\ UNCHANGED restVars
    BY <2>1, Assigns
  <2>3. /\ TypesOK' /\ Counting' /\ Enabled' /\ Testing' /\ Ends'
        /\ NeverShort' /\ ReportedOnce'
    BY <1>0, <1>10, <2>1, <2>2, TurnsNothingOn DEF TypesOK
  <2>4. Continues'
    BY <1>10, <2>2, <2>3 DEF Continues
  <2> QED BY <2>3, <2>4 DEF CallOK
<1>11. ASSUME NEW d \in Nat, call = Config2(d) PROVE StepperInv'
  <2>1. /\ call # <<>> /\ Head(call) = <<"PwmDutyProcents", d>> /\ Tail(call) = Config1
        /\ call # Drive1 /\ call # Stop2
    BY <1>11 DEF Config2, Config1, Drive1, Stop2
  <2>2. /\ call' = Config1 /\ PwmDutyProcents' = d
        /\ UNCHANGED <<CurrentState, StepsToDo, StepsDone, pwm, enablePin>>
        /\ UNCHANGED restVars
    BY <2>1, Assigns
  <2>3. /\ TypesOK' /\ Counting' /\ Enabled' /\ Testing' /\ Ends'
        /\ NeverShort' /\ ReportedOnce'
    BY <1>0, <1>11, <2>1, <2>2, TurnsNothingOn DEF TypesOK
  <2>4. Continues'
    BY <1>11, <2>2, <2>3 DEF Continues
  <2> QED BY <2>3, <2>4 DEF CallOK
<1>12. ASSUME NEW x \in {0, 1}, call = Direction1(x) PROVE StepperInv'
  <2>1. /\ call # <<>> /\ Head(call) = <<"directionPin", x>> /\ Tail(call) = <<>>
        /\ call # Drive1 /\ call # Stop2
    BY <1>12 DEF Direction1, Drive1, Stop2
  <2>2. /\ call' = <<>>
        /\ UNCHANGED writtenVars
        /\ UNCHANGED restVars
    BY <2>1, AssignsOther
  <2>3. /\ TypesOK' /\ Counting' /\ Enabled' /\ Testing' /\ Ends'
        /\ NeverShort' /\ ReportedOnce'
    BY <1>0, <1>12, <2>1, <2>2, TurnsNothingOn DEF TypesOK
  <2>4. Continues'
    BY <1>12, <2>2, <2>3 DEF Continues
  <2> QED BY <2>3, <2>4 DEF CallOK
<1>13. ASSUME NEW x \in {0, 1}, call = Direction2(x) PROVE StepperInv'
  <2>1. /\ call # <<>> /\ Head(call) = <<"CurrentDirection", x>>
        /\ Tail(call) = Direction1(x) /\ call # Drive1 /\ call # Stop2
    BY <1>13 DEF Direction2, Direction1, Drive1, Stop2
  <2>2. /\ call' = Direction1(x)
        /\ UNCHANGED writtenVars
        /\ UNCHANGED restVars
    BY <2>1, AssignsOther
  <2>3. /\ TypesOK' /\ Counting' /\ Enabled' /\ Testing' /\ Ends'
        /\ NeverShort' /\ ReportedOnce'
    BY <1>0, <1>13, <2>1, <2>2, TurnsNothingOn DEF TypesOK
  <2>4. Continues'
    BY <1>13, <2>2, <2>3 DEF Continues
  <2> QED BY <2>3, <2>4 DEF CallOK
<1>14. call # <<>>
  BY DEF Statement
<1>15. \/ call = Drive1
       \/ /\ call \in {Stop8, Stop7, Stop6, Stop5, Stop4, Stop3, Stop2}
          /\ careful => stopped
       \/ call = Stop1 /\ pwm = 0
       \/ call = Config1 \/ \E d \in Nat : call = Config2(d)
       \/ \E x \in {0, 1} : call = Direction1(x) \/ call = Direction2(x)
  BY <1>14 DEF Continues
<1> QED BY <1>1, <1>2, <1>3, <1>4, <1>5, <1>6, <1>7, <1>8, <1>9, <1>10, <1>11,
           <1>12, <1>13, <1>15

-----------------------------------------------------------------------------
(* The hardware and the alert thread.  While a careful client is about to  *)
(* start a move they have nothing to do.                                   *)
LEMMA Busy ==
  ASSUME StepperInv, pwm > 0 \/ pending > 0 \/ callback # "idle"
  PROVE  careful => Continues /\ Counting
BY DEF StepperInv, CallOK, Starts, Continues, Quiet

LEMMA CallKept ==
  ASSUME StepperInv, careful => Continues, Counting',
         pwm' \in {pwm, 0}, UNCHANGED <<call, careful, stopped>>
  PROVE  CallOK'
<1>1. CASE Continues
  <2>1. Continues'
    BY <1>1 DEF Continues
  <2> QED BY <2>1 DEF CallOK
<1>2. CASE Starts /\ ~careful
  <2>1. Starts'
    BY <1>2 DEF Starts, Quiet
  <2> QED BY <2>1 DEF CallOK
<1> QED BY <1>1, <1>2 DEF StepperInv, CallOK

LEMMA PulseStep ==
  ASSUME StepperInv, Pulse
  PROVE  StepperInv'
<1> USE DEF StepperInv
<1>1. /\ pwm > 0 /\ made' = made + 1 /\ pending' = pending + 1
      /\ UNCHANGED <<memberVars, configVars, pinVars, call, threadVars, goal,
                     reports, stopped, careful>>
  BY DEF Pulse
<1>2. careful => Continues /\ Counting
  BY <1>1, Busy
<1>3. TypesOK'
  BY <1>1 DEF TypesOK, memberVars, configVars, pinVars, threadVars
<1>4. Counting'
  BY <1>1, <1>2 DEF Counting, InHand, TypesOK, memberVars, threadVars
<1>5. CallOK'
  BY <1>1, <1>2, <1>4, CallKept DEF pinVars
<1>6. made >= goal => made' >= goal'
  BY <1>1 DEF TypesOK
<1>7. Enabled' /\ Ends'
  BY <1>1, <1>6 DEF Enabled, Ends, PastStop, Ending, IsRunning, memberVars,
     pinVars, threadVars
<1>8. NeverShort' /\ ReportedOnce'
  BY <1>1, <1>6 DEF NeverShort, ReportedOnce
<1>9. Testing'
  BY <1>1, TestingKept DEF TypesOK, memberVars, threadVars
<1> QED BY <1>3, <1>5, <1>7, <1>8, <1>9

LEMMA CallbackBeginsStep ==
  ASSUME StepperInv, CallbackBegins
  PROVE  StepperInv'
<1> USE DEF StepperInv
<1>1. /\ pending > 0 /\ pending' = pending - 1 /\ callback = "idle"
      /\ callback' = IF CurrentState = "RUNNING_STEPS" THEN "load" ELSE "idle"
      /\ UNCHANGED <<memberVars, configVars, pinVars, call, loaded, goal, made,
                     reports, stopped, careful>>
  BY DEF CallbackBegins, Callback, historyVars
<1>2. careful => Continues /\ Counting
  BY <1>1, Busy
<1>3. TypesOK'
  BY <1>1 DEF TypesOK, memberVars, configVars, pinVars
<1>4. Counting'
  BY <1>1, <1>2 DEF Counting, InHand, TypesOK, memberVars
<1>5. CallOK'
  BY <1>1, <1>2, <1>4, CallKept DEF pinVars
<1>6. Enabled' /\ Ends'
  BY <1>1 DEF Enabled, Ends, PastStop, Ending, IsRunning, memberVars, pinVars
<1>7. Testing'
  BY <1>1, TestingIdle
<1> QED BY <1>1, <1>3, <1>5, <1>6, <1>7, Kept

LEMMA CallbackLoadsStep ==
  ASSUME StepperInv, CallbackLoads
  PROVE  StepperInv'
<1> USE DEF StepperInv
<1>1. /\ callback = "load" /\ callback' = "store" /\ loaded' = StepsDone
      /\ UNCHANGED <<memberVars, configVars, pinVars, call, pending, goal, made,
                     reports, stopped, careful>>
  BY DEF CallbackLoads, Callback, historyVars
<1>2. careful => Continues /\ Counting
  BY <1>1, Busy
<1>3. TypesOK'
  BY <1>1 DEF TypesOK, memberVars, configVars, pinVars
<1>4. Counting'
  BY <1>1, <1>2 DEF Counting, InHand, TypesOK, memberVars
<1>5. CallOK'
  BY <1>1, <1>2, <1>4, CallKept DEF pinVars
<1>6. Enabled' /\ Ends'
  BY <1>1 DEF Enabled, Ends, PastStop, Ending, IsRunning, memberVars, pinVars
<1>7. Testing'
  BY <1>1, TestingIdle
<1> QED BY <1>1, <1>3, <1>5, <1>6, <1>7, Kept

LEMMA CallbackCountsStep ==
  ASSUME StepperInv, CallbackCounts
  PROVE  StepperInv'
<1> USE DEF StepperInv
<1>1. /\ callback = "store" /\ callback' = "test"
      /\ StepsDone' = loaded + 1 /\ loaded' = 0
      /\ UNCHANGED <<CurrentState, StepsToDo, configVars, pinVars, call, pending,
                     goal, made, reports, stopped, careful>>
  BY DEF CallbackCounts, Callback, historyVars
<1>2. careful => Continues /\ Counting
  BY <1>1, Busy
<1>3. TypesOK'
  BY <1>1 DEF TypesOK, configVars, pinVars
<1>4. Counting'
  BY <1>1, <1>2 DEF Counting, InHand, TypesOK
<1>5. CallOK'
  BY <1>1, <1>2, <1>4, CallKept DEF pinVars
<1>6. Enabled' /\ Ends'
  BY <1>1 DEF Enabled, Ends, PastStop, Ending, IsRunning, pinVars
<1>7. Testing'
  BY <1>1 DEF Testing, TypesOK
<1> QED BY <1>1, <1>3, <1>5, <1>6, <1>7, Kept

(* Of a careful client, no more steps are counted than pulses were made.   *)
LEMMA CountMade ==
  ASSUME TypesOK, Counting
  PROVE  careful => StepsDone <= made
<1>1. /\ StepsDone \in Nat /\ pending \in Nat /\ made \in Nat
  BY DEF TypesOK
<1>2. InHand \in Nat
  BY DEF InHand
<1>3. StepsDone + pending + InHand <= made => StepsDone <= made
  BY <1>1, <1>2
<1> QED BY <1>3 DEF Counting

LEMMA CallbackTestsStep ==
  ASSUME StepperInv, CallbackTests
  PROVE  StepperInv'
<1> USE DEF StepperInv
<1>1. /\ callback = "test"
      /\ callback' = IF StepsToDo > 0 THEN "operand" ELSE "idle"
      /\ UNCHANGED <<memberVars, configVars, pinVars, call, loaded, pending,
                     goal, made, reports, stopped, careful>>
  BY DEF CallbackTests, Callback, historyVars
<1>2. careful => Continues /\ Counting
  BY <1>1, Busy
<1>3. TypesOK'
  BY <1>1 DEF TypesOK, memberVars, configVars, pinVars
<1>4. Counting'
  BY <1>1, <1>2 DEF Counting, InHand, TypesOK, memberVars
<1>5. CallOK'
  BY <1>1, <1>2, <1>4, CallKept DEF pinVars
<1>6. careful /\ StepsToDo > 0 => goal > 0 /\ StepsToDo = goal
  BY <1>2 DEF Counting
<1>7. Testing'
  BY <1>1, <1>6 DEF Testing, memberVars
<1>8. Enabled' /\ Ends'
  BY <1>1 DEF Enabled, Ends, PastStop, Ending, IsRunning, memberVars, pinVars
<1> QED BY <1>1, <1>3, <1>5, <1>7, <1>8, Kept

LEMMA CallbackReadsStep ==
  ASSUME StepperInv, CallbackReads
  PROVE  StepperInv'
<1> USE DEF StepperInv
<1>1. /\ callback = "operand"
      /\ \/ callback' = "to do" /\ loaded' = StepsDone
         \/ callback' = "done" /\ loaded' = StepsToDo
      /\ UNCHANGED <<memberVars, configVars, pinVars, call, pending, goal, made,
                     reports, stopped, careful>>
  BY DEF CallbackReads, Callback, historyVars
<1>2. careful => Continues /\ Counting
  BY <1>1, Busy
<1>3. TypesOK'
  <2>1. loaded' \in {StepsDone, StepsToDo} /\ callback' \in {"to do", "done"}
    BY <1>1
  <2>2. StepsDone \in Int /\ StepsToDo \in Int
    BY DEF TypesOK
  <2>3. loaded' \in Int /\ callback' # "store"
    BY <2>1, <2>2
  <2> QED BY <1>1, <2>3 DEF TypesOK, memberVars, configVars, pinVars
<1>4. Counting'
  BY <1>1, <1>2 DEF Counting, InHand, TypesOK, memberVars
<1>5. CallOK'
  BY <1>1, <1>2, <1>4, CallKept DEF pinVars
<1>6. careful => StepsDone <= made /\ StepsToDo \in {0, goal}
  BY <1>2, CountMade DEF Counting
<1>7. Testing'
  BY <1>1, <1>6 DEF Testing, memberVars
<1>8. Enabled' /\ Ends'
  BY <1>1 DEF Enabled, Ends, PastStop, Ending, IsRunning, memberVars, pinVars
<1> QED BY <1>1, <1>3, <1>5, <1>7, <1>8, Kept

(* The comparison finds the last step of a careful client's move only when *)
(* as many pulses were made as steps were ordered, or when Stop() has      *)
(* zeroed the count of the steps done.                                     *)
LEMMA CallbackComparesStep ==
  ASSUME StepperInv, CallbackCompares
  PROVE  StepperInv'
<1> USE DEF StepperInv
<1>1. /\ \/ /\ callback = "to do"
            /\ callback' = IF loaded = StepsToDo THEN "pwm off" ELSE "idle"
         \/ /\ callback = "done"
            /\ callback' = IF StepsDone = loaded THEN "pwm off" ELSE "idle"
      /\ loaded' = 0
      /\ UNCHANGED <<memberVars, configVars, pinVars, call, pending, goal, made,
                     reports, stopped, careful>>
  BY DEF CallbackCompares, Compares, LastStep, Callback, historyVars
<1>2. careful => Continues /\ Counting
  BY <1>1, Busy
<1>3. TypesOK'
  <2>1. loaded' = 0 /\ callback' \in {"pwm off", "idle"}
    BY <1>1, Zenon
  <2>2. 0 \in Int
    OBVIOUS
  <2>3. loaded' \in Int /\ callback' # "store"
    BY <2>1, <2>2, Zenon
  <2> QED BY <1>1, <2>3 DEF TypesOK, memberVars, configVars, pinVars
<1>4. Counting'
  BY <1>1, <1>2 DEF Counting, InHand, TypesOK, memberVars
<1>5. CallOK'
  BY <1>1, <1>2, <1>4, CallKept DEF pinVars
<1>6. Enabled' /\ Testing'
  BY <1>1, TestingIdle DEF Enabled, pinVars
<1>7. ASSUME careful, callback' = "pwm off"
      PROVE  (StepsDone = goal /\ made >= goal) \/ (stopped /\ StepsDone = 0)
  <2>1. /\ StepsToDo \in {0, goal} /\ StepsDone <= made
        /\ goal > 0 /\ (StepsToDo = goal \/ stopped)
    <3>1. StepsToDo \in {0, goal} /\ StepsDone <= made
      BY <1>2, <1>7, CountMade DEF Counting
    <3>2. callback \in {"operand", "to do", "done"}
      BY <1>1
    <3> QED BY <1>7, <3>1, <3>2 DEF Testing
  <2>2. CASE callback = "to do" /\ loaded = StepsToDo
    BY <1>7, <2>1, <2>2 DEF Testing, TypesOK
  <2>3. CASE callback = "done" /\ StepsDone = loaded
    BY <1>7, <2>1, <2>3 DEF Testing, TypesOK
  <2> QED BY <1>1, <1>7, <2>2, <2>3
<1>8. Ends'
  BY <1>1, <1>7 DEF Ends, PastStop, Ending, IsRunning, memberVars, pinVars
<1> QED BY <1>1, <1>3, <1>5, <1>6, <1>8, Kept

LEMMA CallbackPwmOffStep ==
  ASSUME StepperInv, CallbackPwmOff
  PROVE  StepperInv'
<1> USE DEF StepperInv
<1>1. /\ callback = "pwm off" /\ callback' = "state" /\ pwm' = 0
      /\ UNCHANGED <<memberVars, configVars, enablePin, call, loaded, pending,
                     goal, made, reports, stopped, careful>>
  BY DEF CallbackPwmOff, Callback, historyVars
<1>2. careful => Continues /\ Counting
  BY <1>1, Busy
<1>3. TypesOK'
  BY <1>1 DEF TypesOK, memberVars, configVars
<1>4. Counting'
  BY <1>1, <1>2 DEF Counting, InHand, TypesOK, memberVars
<1>5. CallOK'
  BY <1>1, <1>2, <1>4, CallKept
<1>6. ~(pwm' > 0)
  <2>1. pwm' = 0
    BY <1>1, Zenon
  <2>2. ~(0 > 0)
    OBVIOUS
  <2> QED BY <2>1, <2>2, Zenon
<1>7. Enabled' /\ Ends'
  BY <1>1, <1>6 DEF Enabled, Ends, PastStop, Ending, IsRunning, memberVars
<1>8. Testing'
  BY <1>1, TestingIdle
<1> QED BY <1>1, <1>3, <1>5, <1>7, <1>8, Kept

LEMMA CallbackStopsStep ==
  ASSUME StepperInv, CallbackStops
  PROVE  StepperInv'
<1> USE DEF StepperInv
<1>1. /\ callback = "state" /\ callback' = "last to do" /\ CurrentState' = "STOPPED"
      /\ UNCHANGED <<StepsToDo, StepsDone, configVars, pinVars, call, loaded,
                     pending, goal, made, reports, stopped, careful>>
  BY DEF CallbackStops, Callback, historyVars
<1>2. careful => Continues /\ Counting
  BY <1>1, Busy
<1>3. TypesOK'
  BY <1>1 DEF TypesOK, configVars, pinVars
<1>4. Counting'
  BY <1>1, <1>2 DEF Counting, InHand, TypesOK
<1>5. CallOK'
  BY <1>1, <1>2, <1>4, CallKept DEF pinVars
<1>6. careful => pwm = 0
  BY <1>1 DEF Ends
<1>7. careful => ~(pwm > 0)
  BY <1>6
<1>8. Enabled' /\ Ends'
  BY <1>1, <1>6, <1>7 DEF Enabled, Ends, PastStop, Ending, IsRunning, pinVars
<1>9. Testing'
  BY <1>1, TestingIdle
<1> QED BY <1>1, <1>3, <1>5, <1>8, <1>9, Kept

LEMMA CallbackRecordsStep ==
  ASSUME StepperInv, CallbackRecords
  PROVE  StepperInv'
<1> USE DEF StepperInv
<1>1. /\ callback \in {"last to do", "last done"}
      /\ callback' \in {"last done", "report"}
      /\ UNCHANGED <<CurrentState, StepsToDo, StepsDone, configVars, pinVars,
                     call, loaded, pending, goal, made, reports, stopped, careful>>
  BY DEF CallbackRecords, Callback, historyVars
<1>2. careful => Continues /\ Counting
  BY <1>1, Busy
<1>3. TypesOK'
  BY <1>1 DEF TypesOK, configVars, pinVars
<1>4. Counting'
  BY <1>1, <1>2 DEF Counting, InHand, TypesOK
<1>5. CallOK'
  BY <1>1, <1>2, <1>4, CallKept DEF pinVars
<1>6. Enabled' /\ Ends'
  BY <1>1 DEF Enabled, Ends, PastStop, Ending, IsRunning, pinVars
<1>7. Testing'
  BY <1>1, TestingIdle
<1> QED BY <1>1, <1>3, <1>5, <1>6, <1>7, Kept

(* Nothing has been reported of a move whose end is being reported.        *)
LEMMA OnStepsDoneStep ==
  ASSUME StepperInv, OnStepsDone
  PROVE  StepperInv'
<1> USE DEF StepperInv
<1>1. /\ callback = "report" /\ callback' = "idle"
      /\ reports' \in {reports, Append(reports, StepsDone)}
      /\ ~careful => reports' = reports
      /\ UNCHANGED <<memberVars, configVars, pinVars, call, loaded, pending,
                     goal, made, stopped, careful>>
  BY DEF OnStepsDone, Callback
<1>2. careful => Continues /\ Counting
  BY <1>1, Busy
<1>3. TypesOK'
  BY <1>1 DEF TypesOK, memberVars, configVars, pinVars
<1>4. Counting'
  BY <1>1, <1>2 DEF Counting, InHand, TypesOK, memberVars
<1>5. CallOK'
  BY <1>1, <1>2, <1>4, CallKept DEF pinVars
<1>6. Enabled' /\ Ends'
  BY <1>1 DEF Enabled, Ends, PastStop, Ending, IsRunning, memberVars, pinVars
<1>7. careful => /\ reports = <<>>
                 /\ \/ StepsDone = goal /\ made >= goal
                    \/ stopped /\ StepsDone = 0
  BY <1>1 DEF Ends, PastStop, Ending
<1>8. careful => reports' = <<>> \/ reports' = <<StepsDone>>
  BY <1>1, <1>7
<1>9. NeverShort' /\ ReportedOnce'
  BY <1>1, <1>7, <1>8 DEF NeverShort, ReportedOnce, TypesOK
<1>10. Testing'
  BY <1>1, TestingIdle
<1> QED BY <1>3, <1>5, <1>6, <1>9, <1>10

-----------------------------------------------------------------------------
(* The client's calls.                                                     *)
LEMMA DutyOutputType ==
  ASSUME NEW duty \in Nat
  PROVE  DutyOutput(duty) \in Nat
BY DEF DutyOutput

(* A careful client that starts a move finds the motor stopped, its PWM    *)
(* off and nothing left to report.                                         *)
LEMMA Moves ==
  ASSUME StepperInv, call = <<>>, NEW steps \in Int, Remember(steps),
         NEW s \in {"RUNNING_STEPS", "RUNNING"}, call' = Drive(s, steps),
         UNCHANGED <<memberVars, configVars, pinVars, threadVars, pending>>
  PROVE  StepperInv'
<1> USE DEF StepperInv
<1>1. /\ careful' = (careful /\ Ready) /\ goal' = IF careful' THEN steps ELSE 0
      /\ made' = 0 /\ reports' = <<>> /\ stopped' = FALSE
  BY DEF Remember
<1>2. call # Drive1 /\ call # Stop2
  BY DEF Drive1, Stop2
<1>3. call' = Drive5(s, steps, DutyOutput(PwmDutyProcents))
  BY DEF Drive, Drive5
<1>4. DutyOutput(PwmDutyProcents) \in Nat
  BY DutyOutputType DEF TypesOK
<1>5. TypesOK'
  BY <1>1 DEF TypesOK, memberVars, configVars, pinVars, threadVars
<1>6. careful' => ~IsRunning /\ pwm = 0 /\ pending = 0 /\ callback = "idle"
  <2>1. careful' => careful /\ ~IsRunning /\ pending = 0 /\ callback = "idle"
    BY <1>1 DEF Ready
  <2>2. careful /\ ~IsRunning => ~(pwm > 0)
    BY <1>2 DEF Ends
  <2>3. ~(pwm > 0) => pwm = 0
    BY DEF TypesOK
  <2> QED BY <2>1, <2>2, <2>3
<1>7. Quiet' /\ (careful' => ~IsRunning' /\ steps = goal')
  BY <1>1, <1>6 DEF Quiet, IsRunning, memberVars, pinVars, threadVars
<1>8. Starts'
  BY <1>3, <1>4, <1>7 DEF Starts
<1>9. Enabled' /\ Ends'
  BY <1>1, <1>2, <1>6 DEF Enabled, Ends, PastStop, Ending, IsRunning,
     memberVars, pinVars, threadVars
<1>10. NeverShort' /\ ReportedOnce'
  BY <1>1 DEF NeverShort, ReportedOnce
<1>11. Testing'
  BY <1>6, TestingIdle DEF threadVars
<1> QED BY <1>5, <1>8, <1>9, <1>10, <1>11 DEF CallOK

(* The other calls change nothing yet, but that Stop() is remembered.      *)
LEMMA Calls ==
  ASSUME StepperInv, call = <<>>, stopped' \in {stopped, careful},
         \/ call' = <<>>
         \/ call' = Stop8 /\ stopped' = careful
         \/ \E d \in Nat : call' = Config2(d)
         \/ \E x \in {0, 1} : call' = Direction2(x),
         UNCHANGED <<memberVars, PwmDutyProcents, pinVars, threadVars, pending,
                     goal, made, reports, careful>>
  PROVE  StepperInv'
<1> USE DEF StepperInv
<1>1. call # Drive1 /\ call # Stop2
  BY DEF Drive1, Stop2
<1>2. Counting
  BY DEF CallOK, Starts, Continues, Drive5, Drive4, Drive3, Drive2
<1>3. careful /\ stopped => stopped'
  OBVIOUS
<1>4. TypesOK'
  BY DEF TypesOK, memberVars, pinVars, threadVars
<1>5. Counting'
  BY <1>2 DEF Counting, InHand, memberVars, threadVars
<1>6. Continues'
  BY <1>5 DEF Continues
<1>7. Enabled' /\ Ends'
  BY <1>1, <1>3 DEF Enabled, Ends, PastStop, Ending, IsRunning,
     memberVars, pinVars, threadVars
<1>8. NeverShort' /\ ReportedOnce'
  BY <1>3 DEF NeverShort, ReportedOnce
<1>9. Testing'
  BY <1>3, TestingKept DEF TypesOK, memberVars, threadVars
<1> QED BY <1>4, <1>6, <1>7, <1>8, <1>9 DEF CallOK

LEMMA OperationStep ==
  ASSUME StepperInv, Operation
  PROVE  StepperInv'
<1>1. ASSUME NEW steps \in Steps, RunSteps(steps) PROVE StepperInv'
  BY <1>1, Moves, StepperAssumption DEF RunSteps, Call
<1>2. CASE Run
  BY <1>2, Moves DEF Run, Call
<1>3. CASE Stop
  BY <1>3, Calls DEF Stop, Call, Stop8, configVars
<1>4. ASSUME NEW duty \in Duties, PwmConfig(duty) PROVE StepperInv'
  <2>1. duty \in Nat
    BY StepperAssumption
  <2>2. call' = Config2(duty)
    BY <1>4 DEF PwmConfig, Call, Config2
  <2> QED BY <1>4, <2>1, <2>2, Calls DEF PwmConfig, Call, configVars, historyVars
<1>5. ASSUME NEW direction \in {0, 1}, SetDirection(direction) PROVE StepperInv'
  <2>1. call' = <<>> \/ call' = Direction2(direction)
    BY <1>5 DEF SetDirection, Call, Direction2
  <2> QED BY <1>5, <2>1, Calls DEF SetDirection, Call, configVars, historyVars
<1>6. CASE SetStepsDoneCallback
  BY <1>6, Calls DEF SetStepsDoneCallback, historyVars
<1> QED BY <1>1, <1>2, <1>3, <1>4, <1>5, <1>6 DEF Operation

-----------------------------------------------------------------------------
LEMMA StepperInit == Init => StepperInv
<1> SUFFICES ASSUME Init PROVE StepperInv
  OBVIOUS
<1>1. TypesOK
  BY DEF Init, TypesOK
<1>2. Counting
  BY DEF Init, Counting, InHand
<1>3. Continues
  BY <1>2 DEF Init, Continues
<1>4. Enabled /\ Ends
  BY DEF Init, Enabled, Ends, PastStop, Ending, IsRunning
<1>5. NeverShort /\ ReportedOnce
  BY DEF Init, NeverShort, ReportedOnce
<1>6. Testing
  <2>1. callback = "idle"
    BY DEF Init
  <2> QED BY <2>1 DEF Testing
<1> QED BY <1>1, <1>3, <1>4, <1>5, <1>6 DEF StepperInv, CallOK

LEMMA StepperStep == StepperInv /\ [Next]_vars => StepperInv'
<1> SUFFICES ASSUME StepperInv, [Next]_vars PROVE StepperInv'
  OBVIOUS
<1>1. CASE Statement
  BY <1>1, StartsStep, ContinuesStep DEF StepperInv, CallOK
<1>2. CASE AlertThread
  BY <1>2, CallbackBeginsStep, CallbackLoadsStep, CallbackCountsStep,
     CallbackTestsStep, CallbackReadsStep, CallbackComparesStep,
     CallbackPwmOffStep, CallbackStopsStep, CallbackRecordsStep, OnStepsDoneStep DEF AlertThread
<1>3. CASE UNCHANGED vars
  <2>1. UNCHANGED <<CurrentState, StepsToDo, StepsDone, PwmDutyProcents, pwm,
                    enablePin, call, callback, loaded, pending, goal, made,
                    reports, stopped, careful>>
    BY <1>3 DEF vars, memberVars, configVars, pinVars, threadVars, historyVars
  <2>2. TypesOK' /\ Enabled'
    BY <2>1 DEF StepperInv, TypesOK, Enabled
  <2>4. Testing' /\ Ends'
    BY <2>1 DEF StepperInv, Testing, Ends, PastStop, Ending, IsRunning
  <2>3. CallOK'
    BY <2>1 DEF StepperInv, CallOK, Starts, Continues, Quiet, Counting, InHand,
       IsRunning
  <2> QED BY <2>1, <2>2, <2>3, <2>4, Kept DEF StepperInv
<1> QED BY <1>1, <1>2, <1>3, OperationStep, PulseStep DEF Next, Client

LEMMA StepperCorrect == Spec => []StepperInv
BY StepperInit, StepperStep, PTL DEF Spec

(* For any moves, duty cycles and callers, careful or not: outside the     *)
(* methods, a PWM that is on goes to a driver that is enabled, although    *)
(* Stop() and the alert thread both turn the PWM off (Stepper.cpp).        *)
THEOREM EnabledSafe == Spec => []EnabledWhenDriven
<1>1. StepperInv => EnabledWhenDriven
  BY DEF StepperInv, Enabled, EnabledWhenDriven, Drive1
<1> QED BY <1>1, StepperCorrect, PTL

(* For a client that starts moves only on a stopped motor: a motor that    *)
(* IsRunning() says is stopped gets no pulses, however late the alerts.    *)
THEOREM StillSafe == Spec => []StoppedMeansStill
<1>1. StepperInv => StoppedMeansStill
  <2>1. <<>> # Stop2
    BY DEF Stop2
  <2> QED BY <2>1 DEF StepperInv, TypesOK, Ends, StoppedMeansStill
<1> QED BY <1>1, StepperCorrect, PTL

(* For such a client, a move reported by OnStepsDone() got all its pulses, *)
(* or was cut short by Stop(), and is reported as one of 0 steps.          *)
THEOREM ShortSafe == Spec => []NeverShort
<1>1. StepperInv => NeverShort
  BY DEF StepperInv
<1> QED BY <1>1, StepperCorrect, PTL

(* For such a client, the end of a move is reported at most once, with the *)
(* steps that were ordered unless Stop() has zeroed the count.             *)
THEOREM OnceSafe == Spec => []ReportedOnce
<1>1. StepperInv => ReportedOnce
  BY DEF StepperInv
<1> QED BY <1>1, StepperCorrect, PTL
=============================================================================
