---- MODULE MCSocketCAN ----
EXTENDS SocketCAN, TLC

Symmetry == Permutations(Readers)
====
