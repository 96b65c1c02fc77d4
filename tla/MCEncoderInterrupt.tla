---- MODULE MCEncoderInterrupt ----
EXTENDS EncoderInterrupt

CONSTANTS direct, debounced

Times == [p \in Pins |-> IF p = debounced THEN 2 ELSE 0]
====
