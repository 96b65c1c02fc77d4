---- MODULE MCPolledInputs ----
EXTENDS PolledInputs

OneEach == {{i} : i \in Inputs}

TwoMs == [i \in Inputs |-> 2]
====
