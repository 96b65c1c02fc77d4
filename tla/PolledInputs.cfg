SPECIFICATION Spec
CONSTANTS
  Inputs = {button, encoder}
  Buttons = {button}
  Encoders = {encoder}
  Programs <- OneEach
  DebounceTimeMs <- TwoMs
  MsUs = 2
  Width = 1000
  MaxGap = 2
  Start = 7
  MaxTime = 15
  MaxSteps = 2
INVARIANTS StepsParity ListenerKnows
PROPERTIES Debounced Responsive
