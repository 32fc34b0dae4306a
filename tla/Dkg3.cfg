CONSTANTS
  a = a
  b = b
  c = c
  Participants = {a, b, c}
  Creator = a
  Faulty = {}
  Crashable = {c}
  Ver <- OneVer
  Sound <- OneVer
  Genuine = "good"
  NoPkg = "none"
  Repertoire = {}
  MaxFaultySends = 0
  Paced = FALSE
SPECIFICATION FairSpec
INVARIANTS TypeOK DoneAfterAllVerified NoFalseAccusation NoPanic
PROPERTIES FinishesInStep
CHECK_DEADLOCK FALSE
