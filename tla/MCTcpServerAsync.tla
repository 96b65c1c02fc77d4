---- MODULE MCTcpServerAsync ----
EXTENDS TcpServerAsync, TLC

Use(stop, interrupts, disconnect) ==
  [stop |-> stop, interrupts |-> interrupts, disconnect |-> disconnect]

LeftAlone == {Use(FALSE, FALSE, {"callback"})}

Stopped == {Use(TRUE, FALSE, {"callback"})}

StoppedOrInterrupted == Stopped \cup {Use(FALSE, TRUE, {"thread"})}

Symmetry == Permutations(Peers)
====
