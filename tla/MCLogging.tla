---- MODULE MCLogging ----
EXTENDS Logging
CONSTANTS c1, c2, w1, w2
Block == [c \in Clients |-> "block"]
Mixed == [Block EXCEPT ![c2] = "overrun_oldest"]
Calls(m, n) == [c \in Clients |-> IF c = c1 THEN m ELSE n]
MCSettings == {
  [pool |-> {w1}, policy |-> Block, calls |-> Calls(2, 0), rounds |-> 1],
  [pool |-> {w1}, policy |-> Mixed, calls |-> Calls(1, 1), rounds |-> 1],
  [pool |-> {w1}, policy |-> Mixed, calls |-> Calls(1, 2), rounds |-> 0],
  [pool |-> {w1, w2}, policy |-> Mixed, calls |-> Calls(2, 1), rounds |-> 0]}
====
