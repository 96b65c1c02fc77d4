------------------------------- MODULE DcMotor -------------------------------
(***************************************************************************)
(* drivers/DCMotor: a motor on up to three pins, pulse, direction and      *)
(* enable.  The object is used by one thread, so a method is a step; what  *)
(* can go wrong is a sequence of calls after which the members and the     *)
(* pins disagree.  The frequency, which is only handed on, is left out.    *)
(* The pins keep what was written to them; one never written has either    *)
(* level.  A pin number of 0 means that the pin is not wired.              *)
(***************************************************************************)
EXTENDS Integers

CONSTANTS Duties            \* duty cycles given to PwmConfig() and SetSpeed()

ASSUME MotorAssumption == Duties \subseteq 0..255

VARIABLES
  wired,                    \* the pins the constructor got besides the pulse
  CurrentState, CurrentDirection, EnbReversed, PwmDuty,   \* members
  pwm, directionPin, enablePin,                           \* the pins
  directed,                 \* history: SetDirection() has written the pin
  tampered                  \* history: see DriverFollows

pinVars == <<pwm, directionPin, enablePin>>
motorVars == <<wired, CurrentState, CurrentDirection, EnbReversed, PwmDuty,
               pinVars, directed, tampered>>

FORWARD == 1
BACKWARD == 0

EnableLevel(reversed) == IF reversed THEN 0 ELSE 1
DisableLevel(reversed) == IF reversed THEN 1 ELSE 0

(* The constructors; CurrentDirection has no initial value, 2 is neither.  *)
InitMotor ==
  /\ wired \in SUBSET {"direction", "enable"}
  /\ CurrentState = "STOPPED" /\ CurrentDirection \in {BACKWARD, FORWARD, 2}
  /\ EnbReversed = FALSE /\ PwmDuty = 128
  /\ pwm = 0 /\ directionPin \in {0, 1}
  /\ enablePin \in IF "enable" \in wired THEN {DisableLevel(FALSE)} ELSE {0, 1}
  /\ directed = FALSE /\ tampered = FALSE

IsRunning == CurrentState # "STOPPED"

EnablePin(level) ==
  enablePin' = IF "enable" \in wired THEN level ELSE enablePin

-----------------------------------------------------------------------------
(* Faulty variants of the operations, Bug<n>_..., stand before the          *)
(* operation they replace: the properties below tell them apart.           *)

Run ==
  /\ ~IsRunning
  /\ CurrentState' = "RUNNING"
  /\ pwm' = PwmDuty
  /\ EnablePin(EnableLevel(EnbReversed))
  /\ tampered' = FALSE
  /\ UNCHANGED <<wired, CurrentDirection, EnbReversed, PwmDuty, directionPin,
                 directed>>

Stop ==
  /\ IsRunning
  /\ CurrentState' = "STOPPED"
  /\ pwm' = 0
  /\ EnablePin(DisableLevel(EnbReversed))
  /\ tampered' = FALSE
  /\ UNCHANGED <<wired, CurrentDirection, EnbReversed, PwmDuty, directionPin,
                 directed>>

(* a PwmConfig() that leaves the state alone                               *)
Bug1_PwmConfig(duty) ==
  /\ PwmDuty' = duty
  /\ pwm' = 0
  /\ tampered' = (tampered \/ IsRunning)
  /\ UNCHANGED <<wired, CurrentState, CurrentDirection, EnbReversed,
                 directionPin, enablePin, directed>>

PwmConfig(duty) ==
  /\ PwmDuty' = duty
  /\ CurrentState' = "STOPPED"
  /\ pwm' = 0
  /\ tampered' = (tampered \/ IsRunning)
  /\ UNCHANGED <<wired, CurrentDirection, EnbReversed, directionPin, enablePin,
                 directed>>

SetSpeed(speed) ==
  /\ PwmDuty # speed
  /\ PwmDuty' = speed
  /\ pwm' = IF CurrentState = "RUNNING" THEN speed ELSE 0
  /\ UNCHANGED <<wired, CurrentState, CurrentDirection, EnbReversed,
                 directionPin, enablePin, directed, tampered>>

(* Enable() and Disable(), called by the client.                           *)
Enable ==
  /\ EnablePin(EnableLevel(EnbReversed))
  /\ tampered' = TRUE
  /\ UNCHANGED <<wired, CurrentState, CurrentDirection, EnbReversed, PwmDuty,
                 pwm, directionPin, directed>>

Disable ==
  /\ EnablePin(DisableLevel(EnbReversed))
  /\ tampered' = TRUE
  /\ UNCHANGED <<wired, CurrentState, CurrentDirection, EnbReversed, PwmDuty,
                 pwm, directionPin, directed>>

(* a SetEnableReversed() that every call toggles                           *)
Bug1_SetEnableReversed(reversed) ==
  /\ EnbReversed' = ~EnbReversed
  /\ tampered' = (tampered \/ reversed # EnbReversed)
  /\ UNCHANGED <<wired, CurrentState, CurrentDirection, PwmDuty, pinVars,
                 directed>>

SetEnableReversed(reversed) ==
  /\ EnbReversed' = reversed
  /\ tampered' = (tampered \/ reversed # EnbReversed)
  /\ UNCHANGED <<wired, CurrentState, CurrentDirection, PwmDuty, pinVars,
                 directed>>

(* The direction is written to the pin unless it is the current one.       *)
SetDirection(direction) ==
  /\ CurrentDirection # direction /\ "direction" \in wired
  /\ CurrentDirection' = direction
  /\ directionPin' = IF direction = FORWARD THEN 1 ELSE 0
  /\ directed' = TRUE
  /\ UNCHANGED <<wired, CurrentState, EnbReversed, PwmDuty, pwm, enablePin,
                 tampered>>

(* a ReverseDirection() that takes the new direction first                 *)
Bug1_ReverseDirection ==
  /\ CurrentDirection' = IF CurrentDirection = BACKWARD THEN FORWARD ELSE BACKWARD
  /\ UNCHANGED <<wired, CurrentState, EnbReversed, PwmDuty, pinVars, directed,
                 tampered>>

(* ReverseDirection() reverses the member even without a direction pin.    *)
ReverseDirection ==
  LET direction == IF CurrentDirection = BACKWARD THEN FORWARD ELSE BACKWARD
  IN \/ SetDirection(direction)
     \/ /\ "direction" \notin wired
        /\ CurrentDirection' = direction
        /\ UNCHANGED <<wired, CurrentState, EnbReversed, PwmDuty, pinVars,
                       directed, tampered>>

(* The calls that have an effect; Run() of a running motor, Stop() of a    *)
(* stopped one, the speed and the direction it has already return early.   *)
MotorNext ==
  \/ Run \/ Stop \/ Enable \/ Disable \/ ReverseDirection
  \/ \E duty \in Duties : PwmConfig(duty) \/ SetSpeed(duty)
  \/ \E reversed \in BOOLEAN : SetEnableReversed(reversed)
  \/ \E direction \in {FORWARD, BACKWARD} : SetDirection(direction)

-----------------------------------------------------------------------------
MotorTypeOK ==
  /\ wired \subseteq {"direction", "enable"}
  /\ CurrentState \in {"STOPPED", "RUNNING"}
  /\ CurrentDirection \in {BACKWARD, FORWARD, 2} /\ EnbReversed \in BOOLEAN
  /\ PwmDuty \in Duties \cup {128} /\ pwm \in Duties \cup {0, 128}
  /\ directionPin \in {0, 1} /\ enablePin \in {0, 1}
  /\ directed \in BOOLEAN /\ tampered \in BOOLEAN

(* The duty cycle on the pin is the one last configured while the motor    *)
(* runs, and zero while it does not: no early return leaves an old one.    *)
DrivenAsTold == pwm = IF IsRunning THEN PwmDuty ELSE 0

(* The driver is enabled exactly while the motor runs, as long as the      *)
(* client has not, since the last Run() or Stop(), called Enable() or      *)
(* Disable(), changed the polarity, or stopped the motor by PwmConfig().   *)
DriverFollows ==
  "enable" \in wired /\ ~tampered =>
    (enablePin = EnableLevel(EnbReversed) <=> IsRunning)

(* Once a direction was written the pin and the member agree for ever,     *)
(* whatever CurrentDirection held in the beginning.                        *)
DirectionAgrees == directed => directionPin = CurrentDirection

(* After any sequence of calls, with any pins wired, the members and the   *)
(* pins agree as far as the code makes them.                               *)
MotorAgrees == DrivenAsTold /\ DriverFollows /\ DirectionAgrees
=============================================================================
