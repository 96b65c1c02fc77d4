---- MODULE MCSharedQueue ----
EXTENDS SharedQueue, TLC

Symmetry ==
  Permutations(Producers) \cup Permutations(Consumers) \cup Permutations(Items)
====
