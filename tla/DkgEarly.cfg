CONSTANTS
  a = a
  b = b
  c = c
  Participants = {a, b, c}
  Creator = a
  Faulty = {}
  Crashable = {}
  Ver <- OneVer
  Sound <- OneVer
  Genuine = "good"
  NoPkg = "none"
  Repertoire = {}
  MaxFaultySends = 0
  Paced = FALSE
SPECIFICATION Spec
INVARIANTS NobodyFails
CHECK_DEADLOCK FALSE
