CONSTANTS
  a = a
  b = b
  c = c
  Participants = {a, b, c}
  Creator = c
  Faulty = {c}
  Crashable = {}
  Ver <- ThreeVer
  Sound <- TwoSound
  Genuine = "good"
  NoPkg = "none"
  Repertoire <- Equivocation
  MaxFaultySends = 3
  Paced = TRUE
SPECIFICATION Spec
INVARIANTS EchoConsistency IInv
PROPERTIES ImplementsAgreement
CHECK_DEADLOCK FALSE
