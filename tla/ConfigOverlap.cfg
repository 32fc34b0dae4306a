CONSTANTS
  f = f
  d = d
  e = e
  k1 = k1
  k2 = k2
  o = o
  g = g
  h = h
  Files = {f, d, e}
  Names = {1, 2}
  PubKeys = {k1, k2, o}
  Foreign = {o}
  NoKey = NoKey
  Groups = {g, h}
  NoGroup = NoGroup
  Jobs = {1, 2}
  Commands <- All
  NoCommand = NoCommand
SPECIFICATION Spec
INVARIANTS IInv AddressBookSound
PROPERTIES LostOnlyByStaleWrite
CHECK_DEADLOCK FALSE
