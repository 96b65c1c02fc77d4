SPECIFICATION FairSpec
CONSTANTS
  Producers = {p1, p2}
  Consumers = {c1, c2}
  Items = {a}
  Garbage = garbage
  MaxPushed = 4
INVARIANTS NoLostWakeup
PROPERTIES EveryItemPopped
