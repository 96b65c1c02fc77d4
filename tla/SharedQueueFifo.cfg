SPECIFICATION FairSpec
CONSTANTS
  Producers = {p1, p2}
  Consumers = {c1}
  Items = {a, b}
  Garbage = garbage
  MaxPushed = 4
INVARIANTS RefIsHead
PROPERTIES ChannelSpec
