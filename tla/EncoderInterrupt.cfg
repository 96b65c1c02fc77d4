SPECIFICATION Spec
CONSTANTS
  direct = direct
  debounced = debounced
  Pins = {direct, debounced}
  DebounceTimeUs <- Times
  Wrap = 4
  MaxTime = 6
  MaxEdges = 2
  MaxLag = 2
INVARIANTS FollowsPin CountExact
PROPERTIES Spaced
