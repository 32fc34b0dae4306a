CONSTANTS
  g1 = g1
  g2 = g2
  wallet = wallet
  r = r
  none = none
  empty = empty
  f1 = f1
  f2 = f2
  c1 = c1
  c2 = c2
  Keys = {g1, g2, wallet}
  Rests = {r, none}
  NoRest = none
  Groups = {g1, g2}
  Foreign = {empty}
  Transactions <- All
  Networks = {"devnet", "testnet", "mainnet", "twenty-one-characters"}
  MEMO_BYTES = 34
  NoExpiry = 99
  Files = {f1, f2}
  Coordinators = {c1, c2}
  MaxRuns = 2
  MaxUpdates = 4
  Idle = Idle
  NoSignature = NoSignature
  NoRequest = NoRequest
SPECIFICATION Spec
INVARIANTS NetworkFlagChooses
SYMMETRY Symmetry
CHECK_DEADLOCK FALSE
