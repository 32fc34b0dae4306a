CONSTANTS
  a = a
  b = b
  c = c
  Participants = {a, b}
  Creator = a
  Faulty = {}
  Crashable = {}
  Ver <- OneVer
  Sound <- OneVer
  Genuine = "good"
  NoPkg = "none"
  Repertoire = {}
  MaxFaultySends = 0
  Paced = FALSE
SPECIFICATION FairSpec
PROPERTIES Round1LoopEnds
CHECK_DEADLOCK FALSE
