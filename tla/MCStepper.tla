---- MODULE MCStepper ----
EXTENDS Stepper

AllOperations == {"RunSteps", "Run", "Stop", "PwmConfig", "SetDirection"}
====
