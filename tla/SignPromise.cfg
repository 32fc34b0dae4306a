CONSTANTS
  a = a
  b = b
  c = c
  a1 = a1
  a2 = a2
  a3 = a3
  b1 = b1
  b2 = b2
  x = x
  Signers = {a, b, c}
  Faulty = {c}
  Procs = {a1, a2, b1}
  Owner <- Belongs
  Crashable = {}
  Nonces = {a1, a2, b1, x}
  NoNonce = NoNonce
  NoShare = NoShare
  MinSigners = 2
  Repertoire <- Anything
  MaxFaultySends = 2
  MayCloseAll = FALSE
  MayCrash = FALSE
SPECIFICATION Spec
INVARIANTS IInv NotKilledByMessages NoPanic NothingAfterComplete
PROPERTIES KeepsPromise
CHECK_DEADLOCK FALSE
