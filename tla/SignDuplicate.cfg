CONSTANTS
  a = a
  b = b
  c = c
  a1 = a1
  a2 = a2
  a3 = a3
  b1 = b1
  b2 = b2
  x = x
  Signers = {a, b}
  Faulty = {}
  Procs = {a1, a2, b1}
  Owner <- Belongs
  Crashable = {}
  Nonces = {a1, a2, a3, b1, b2, x}
  NoNonce = NoNonce
  NoShare = NoShare
  MinSigners = 2
  Repertoire = {}
  MaxFaultySends = 0
  MayCloseAll = FALSE
  MayCrash = FALSE
SPECIFICATION FairSpec
PROPERTIES CompletesDespiteRejoin
CHECK_DEADLOCK FALSE
