------------------------------- MODULE Stepper -------------------------------
(***************************************************************************)
(* drivers/Stepper: a stepper motor driven by PWM pulses.  The client      *)
(* calls the methods from one thread; pigpio calls the step callback from  *)
(* its alert thread, some time after each edge of the pulse pin.  The two  *)
(* threads share the members of the object without any lock, so each       *)
(* statement that touches a shared member or a pin is a step.              *)
(*                                                                         *)
(* pigpio and the motor are external: while the PWM is on, rising edges    *)
(* are made; each waits in pigpio's buffer until the alert thread reports  *)
(* it.  The other alerts (falling edges, watchdogs) leave the callback at  *)
(* its first two tests and are left out.  The pins are as wired for the    *)
(* constructor with three pins.                                            *)
(***************************************************************************)
EXTENDS Integers, Sequences

CONSTANTS
  Operations,               \* the methods the client calls
  Steps,                    \* arguments of RunSteps()
  Duties,                   \* duty cycles given to PwmConfig(), in percent
  MaxPulses,                \* bound: rising edges made, and counted, per move
  MaxLag                    \* bound: edges waiting for the alert thread

ASSUME StepperAssumption ==
  /\ Operations \subseteq
       {"RunSteps", "Run", "Stop", "PwmConfig", "SetDirection"}
  /\ Steps \subseteq Int
  /\ Duties \subseteq 0..255
  /\ MaxPulses \in Nat /\ MaxLag \in Nat \ {0}

VARIABLES
  CurrentState, StepsToDo, StepsDone, LastStepsToDo, LastStepsDone,
  CurrentDirection, PwmDutyProcents, StepsDoneCb,   \* members of the object
  pwm, enablePin, directionPin,                     \* the outputs
  call,                     \* what is left of the client's call, see Do
  callback, loaded,         \* the alert thread, and a member it has read
  pending,                  \* rising edges not yet reported
  crashed,                  \* OnStepsDone() jumped to a wild address
  goal, made, reports, stopped,  \* history of the last move, see RunSteps
  careful                   \* history: the client kept to Ready so far

memberVars == <<CurrentState, StepsToDo, StepsDone, LastStepsToDo,
                LastStepsDone>>
configVars == <<CurrentDirection, PwmDutyProcents, StepsDoneCb>>
pinVars == <<pwm, enablePin, directionPin>>
threadVars == <<callback, loaded>>
historyVars == <<goal, made, reports, stopped, careful>>
vars == <<memberVars, configVars, pinVars, call, threadVars, pending, crashed,
          historyVars>>

(* map(duty, 0, 100, 0, 255) and the cast to uint8_t.                      *)
DutyOutput(duty) == ((duty * 255) \div 100) % 256

(* The constructor: Init() sets the pins up; StepsDoneCb has no initial    *)
(* value, and nothing is written to the direction pin.                     *)
Init ==
  /\ CurrentState = "STOPPED"
  /\ StepsToDo = 0 /\ StepsDone = 0 /\ LastStepsToDo = 0 /\ LastStepsDone = 0
  /\ CurrentDirection = 1 /\ PwmDutyProcents = 10 /\ StepsDoneCb = "garbage"
  /\ pwm = 0 /\ enablePin = 0 /\ directionPin \in {0, 1}
  /\ call = <<>>
  /\ callback = "idle" /\ loaded = 0
  /\ pending = 0
  /\ crashed = FALSE
  /\ goal = 0 /\ made = 0 /\ reports = <<>> /\ stopped = FALSE
  /\ careful = TRUE

IsRunning == CurrentState # "STOPPED"

-----------------------------------------------------------------------------
(* The client.  A method is the sequence of its statements, each a         *)
(* variable and the value to give it.                                      *)
Call(operation, statements) ==
  /\ ~crashed /\ call = <<>>
  /\ operation \in Operations
  /\ call' = statements
  /\ UNCHANGED <<memberVars, configVars, pinVars, threadVars, pending, crashed>>

(* A careful client starts a new movement only on a stopped motor, when    *)
(* the alert thread has reported all that it has to report; any other      *)
(* client starts one when it likes.  careful remembers which this one is.  *)
Ready == ~IsRunning /\ pending = 0 /\ callback = "idle"

(* The history of a move starts with it: the steps ordered, the edges made *)
(* and the calls of OnStepsDone() since, and whether the client called     *)
(* Stop().  Of a client that was not careful, only that is remembered.     *)
Remember(steps) ==
  /\ careful' = (careful /\ Ready)
  /\ goal' = IF careful' THEN steps ELSE 0
  /\ made' = 0 /\ reports' = <<>> /\ stopped' = FALSE

(* Faulty variants of the operations, Bug<n>_..., stand before the          *)
(* operation they replace: the properties below tell them apart.           *)

(* a RunSteps() that goes on counting from the last move                   *)
Bug1_Drive(state, steps) ==
  << <<"CurrentState", state>>, <<"StepsToDo", steps>>,
     <<"pwm", DutyOutput(PwmDutyProcents)>>, <<"enablePin", 1>> >>

Drive(state, steps) ==
  << <<"CurrentState", state>>, <<"StepsToDo", steps>>, <<"StepsDone", 0>>,
     <<"pwm", DutyOutput(PwmDutyProcents)>>, <<"enablePin", 1>> >>

RunSteps(steps) ==
  /\ Call("RunSteps", Drive("RUNNING_STEPS", steps))
  /\ Remember(steps)

Run ==
  /\ Call("Run", Drive("RUNNING", 0))
  /\ Remember(0)

(* a Stop() that disables the driver before its early return               *)
Bug1_Stop ==
  /\ Call("Stop", << <<"LastStepsToDo">>, <<"LastStepsDone">>,
                     <<"StepsToDo", 0>>, <<"StepsDone", 0>>, <<"enablePin", 0>>,
                     <<"return if stopped">>, <<"CurrentState", "STOPPED">>,
                     <<"pwm", 0>> >>)
  /\ stopped' = careful
  /\ UNCHANGED <<goal, made, reports, careful>>

Stop ==
  /\ Call("Stop", << <<"LastStepsToDo">>, <<"LastStepsDone">>,
                     <<"StepsToDo", 0>>, <<"StepsDone", 0>>,
                     <<"return if stopped">>, <<"CurrentState", "STOPPED">>,
                     <<"pwm", 0>>, <<"enablePin", 0>> >>)
  /\ stopped' = careful
  /\ UNCHANGED <<goal, made, reports, careful>>

PwmConfig(duty) ==
  /\ Call("PwmConfig", << <<"PwmDutyProcents", duty>>, <<"pwm", 0>> >>)
  /\ UNCHANGED historyVars

SetDirection(direction) ==
  /\ Call("SetDirection",
          IF direction = CurrentDirection THEN <<>>
          ELSE << <<"CurrentDirection", direction>>,
                  <<"directionPin", direction>> >>)
  /\ UNCHANGED historyVars

SetStepsDoneCallback ==
  /\ ~crashed /\ call = <<>>
  /\ StepsDoneCb' = "function"
  /\ UNCHANGED <<memberVars, CurrentDirection, PwmDutyProcents, pinVars, call,
                 threadVars, pending, crashed, historyVars>>

Operation ==
  \/ \E steps \in Steps : RunSteps(steps)
  \/ Run \/ Stop
  \/ \E duty \in Duties : PwmConfig(duty)
  \/ \E direction \in {0, 1} : SetDirection(direction)
  \/ SetStepsDoneCallback

(* One statement of the call.                                              *)
At(kind) == call # <<>> /\ Head(call)[1] = kind

Assign(kind, old) == IF At(kind) THEN Head(call)[2] ELSE old

Statement ==
  /\ ~crashed /\ call # <<>>
  /\ call' = IF At("return if stopped") /\ ~IsRunning THEN <<>> ELSE Tail(call)
  /\ CurrentState' = Assign("CurrentState", CurrentState)
  /\ StepsToDo' = Assign("StepsToDo", StepsToDo)
  /\ StepsDone' = Assign("StepsDone", StepsDone)
  /\ LastStepsToDo' = IF At("LastStepsToDo") THEN StepsToDo ELSE LastStepsToDo
  /\ LastStepsDone' = IF At("LastStepsDone") THEN StepsDone ELSE LastStepsDone
  /\ CurrentDirection' = Assign("CurrentDirection", CurrentDirection)
  /\ PwmDutyProcents' = Assign("PwmDutyProcents", PwmDutyProcents)
  /\ pwm' = Assign("pwm", pwm)
  /\ enablePin' = Assign("enablePin", enablePin)
  /\ directionPin' = Assign("directionPin", directionPin)
  /\ UNCHANGED <<StepsDoneCb, threadVars, pending, crashed, historyVars>>

-----------------------------------------------------------------------------
(* The hardware: a PWM that is on makes rising edges.                      *)
Pulse ==
  /\ ~crashed /\ pwm > 0
  /\ made < MaxPulses /\ pending < MaxLag
  /\ StepsDone < MaxPulses /\ loaded < MaxPulses
  /\ made' = made + 1
  /\ pending' = pending + 1
  /\ UNCHANGED <<memberVars, configVars, pinVars, call, threadVars, crashed,
                 goal, reports, stopped, careful>>

-----------------------------------------------------------------------------
(* internal_step_callback(), for a rising edge.                            *)
Callback(from, to) == ~crashed /\ callback = from /\ callback' = to

CallbackBegins ==
  /\ pending > 0
  /\ pending' = pending - 1
  /\ Callback("idle", IF CurrentState = "RUNNING_STEPS" THEN "load" ELSE "idle")
  /\ UNCHANGED <<memberVars, configVars, pinVars, call, loaded, crashed,
                 historyVars>>

(* StepsDone++, a load and a store ...                                     *)
CallbackLoads ==
  /\ Callback("load", "store")
  /\ loaded' = StepsDone
  /\ UNCHANGED <<memberVars, configVars, pinVars, call, pending, crashed,
                 historyVars>>

CallbackCounts ==
  /\ Callback("store", "test")
  /\ StepsDone' = loaded + 1
  /\ loaded' = 0
  /\ UNCHANGED <<CurrentState, StepsToDo, LastStepsToDo, LastStepsDone,
                 configVars, pinVars, call, pending, crashed, historyVars>>

(* ... the test for the last step: StepsToDo > 0, and StepsDone ==         *)
(* StepsToDo, which reads both once more, in either order.  Stop() may     *)
(* zero them between any two of the three reads.                           *)
CallbackTests ==
  /\ Callback("test", IF StepsToDo > 0 THEN "operand" ELSE "idle")
  /\ UNCHANGED <<memberVars, configVars, pinVars, call, loaded, pending,
                 crashed, historyVars>>

CallbackReads ==
  /\ \/ Callback("operand", "to do") /\ loaded' = StepsDone
     \/ Callback("operand", "done") /\ loaded' = StepsToDo
  /\ UNCHANGED <<memberVars, configVars, pinVars, call, pending, crashed,
                 historyVars>>

(* a move that ends one step early, and one that ends one step late        *)
Bug1_LastStep(done, ordered) == done + 1 = ordered

Bug2_LastStep(done, ordered) == done > ordered

LastStep(done, ordered) == done = ordered

Compares(last) ==
  /\ \/ Callback("to do", IF LastStep(loaded, StepsToDo) THEN last ELSE "idle")
     \/ Callback("done", IF LastStep(StepsDone, loaded) THEN last ELSE "idle")
  /\ loaded' = 0
  /\ UNCHANGED <<memberVars, configVars, pinVars, call, pending, crashed,
                 historyVars>>

(* a move that ends without the PWM being turned off                       *)
Bug1_CallbackCompares == Compares("state")

CallbackCompares == Compares("pwm off")

(* ... then Vfb_PwmOut(0), SetState(STOPPED) ...                           *)
CallbackPwmOff ==
  /\ Callback("pwm off", "state")
  /\ pwm' = 0
  /\ UNCHANGED <<memberVars, configVars, enablePin, directionPin, call, loaded,
                 pending, crashed, historyVars>>

CallbackStops ==
  /\ Callback("state", "last to do")
  /\ CurrentState' = "STOPPED"
  /\ UNCHANGED <<StepsToDo, StepsDone, LastStepsToDo, LastStepsDone, configVars,
                 pinVars, call, loaded, pending, crashed, historyVars>>

(* ... the record of the move ...                                          *)
CallbackRecords ==
  /\ \/ /\ Callback("last to do", "last done")
        /\ LastStepsToDo' = StepsToDo
        /\ UNCHANGED LastStepsDone
     \/ /\ Callback("last done", "report")
        /\ LastStepsDone' = StepsDone
        /\ UNCHANGED LastStepsToDo
  /\ UNCHANGED <<CurrentState, StepsToDo, StepsDone, configVars, pinVars, call,
                 loaded, pending, crashed, historyVars>>

(* ... and OnStepsDone(): a callback that was never set is whatever the    *)
(* memory held, a null pointer or a wild one.                              *)
OnStepsDone ==
  /\ Callback("report", "idle")
  /\ \/ /\ StepsDoneCb = "function"
        /\ reports' = IF careful THEN Append(reports, StepsDone) ELSE reports
        /\ UNCHANGED crashed
     \/ /\ StepsDoneCb = "garbage"
        /\ crashed' \in BOOLEAN
        /\ UNCHANGED reports
  /\ UNCHANGED <<memberVars, configVars, pinVars, call, loaded, pending, goal,
                 made, stopped, careful>>

-----------------------------------------------------------------------------
Client == Operation \/ Statement

AlertThread ==
  \/ CallbackBegins \/ CallbackLoads \/ CallbackCounts \/ CallbackTests
  \/ CallbackReads \/ CallbackCompares \/ CallbackPwmOff
  \/ CallbackStops \/ CallbackRecords \/ OnStepsDone

Next == Client \/ Pulse \/ AlertThread

Spec == Init /\ [][Next]_vars

(* The client finishes the call it is in; the PWM makes pulses while it is *)
(* on; the alert thread reports them.                                      *)
FairSpec ==
  /\ Spec
  /\ WF_vars(Statement)
  /\ WF_vars(Pulse)
  /\ WF_vars(AlertThread)

-----------------------------------------------------------------------------
(* For a careful client, a motor that IsRunning() says is stopped gets no  *)
(* pulses: no order of Stop(), PwmConfig() and the callback leaves the PWM *)
(* on in state STOPPED, where Stop() would return before turning it off.   *)
StoppedMeansStill == careful /\ call = <<>> /\ ~IsRunning => pwm = 0

(* For a careful client, a move whose end is reported got as many pulses   *)
(* as steps were ordered.  Stop() can cut a move short in the middle of    *)
(* the test for the last step, which then finds 0 = 0; the report of such  *)
(* a move owns up to it: it says 0 steps, never the number ordered.        *)
NeverShort ==
  careful /\ reports # <<>> =>
    \/ made >= goal
    \/ stopped /\ reports = <<0>>

(* For a careful client, the end of a move is reported at most once, with  *)
(* the number of steps ordered (or with none, when Stop() zeroed the count *)
(* meanwhile).                                                             *)
ReportedOnce ==
  careful =>
    /\ Len(reports) <= 1
    /\ \A i \in DOMAIN reports : reports[i] = goal \/ (stopped /\ reports[i] = 0)

(* For any client: no pulses go to a disabled driver, whatever the client  *)
(* and the callback do to each other.                                      *)
EnabledWhenDriven == call = <<>> /\ pwm > 0 => enablePin = 1

(* A move of a careful client ends: the motor stops, and a callback that   *)
(* is set is called, unless the client called Stop() or PwmConfig(), which *)
(* turns the PWM off under a running move.                                 *)
MoveFinishes ==
  careful /\ call = <<>> /\ CurrentState = "RUNNING_STEPS" /\ goal > 0 /\ pwm > 0
    ~> \/ ~IsRunning /\ (reports # <<>> \/ stopped \/ StepsDoneCb = "garbage")
       \/ IsRunning /\ pwm = 0 /\ callback = "idle"
       \/ ~careful
=============================================================================
