------------------------------- MODULE Outputs -------------------------------
(***************************************************************************)
(* What a program drives: a DcMotor, a Led and a device on the SPI bus.    *)
(* They share nothing, so a behaviour uses one of them, chosen in the      *)
(* beginning, and the others stay in one of their initial states.          *)
(***************************************************************************)
EXTENDS DcMotor, Led, Spi

VARIABLES used              \* "motor", "led" or "spi"

vars == <<used, motorVars, ledVars, spiVars>>

Init ==
  /\ used \in {"motor", "led", "spi"}
  /\ InitMotor
  /\ InitLed
  /\ InitSpi
  /\ used # "motor" => /\ wired = {} /\ CurrentDirection = FORWARD
                       /\ directionPin = 0 /\ enablePin = 0
  /\ used # "led" => AutoTurnOffInterval = CHOOSE i \in Intervals : TRUE
  /\ used # "spi" => mode = {}

Next ==
  \/ used = "motor" /\ MotorNext /\ UNCHANGED <<used, ledVars, spiVars>>
  \/ used = "led" /\ LedNext /\ UNCHANGED <<used, motorVars, spiVars>>
  \/ used = "spi" /\ SpiNext /\ UNCHANGED <<used, motorVars, ledVars>>

Spec == Init /\ [][Next]_vars

TypeOK == MotorTypeOK /\ LedTypeOK
=============================================================================
