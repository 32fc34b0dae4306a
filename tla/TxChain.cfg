CONSTANTS
  g1 = g1
  g2 = g2
  wallet = wallet
  r = r
  none = none
  empty = empty
  f1 = f1
  f2 = f2
  c1 = c1
  c2 = c2
  Keys = {g1, g2, wallet}
  Rests = {r, none}
  NoRest = none
  Groups = {g1, g2}
  Foreign = {empty}
  Transactions <- All
  Networks = {"devnet", "testnet", "mainnet", "twenty-one-characters"}
  MEMO_BYTES = 34
  NoExpiry = 99
  Files = {f1, f2}
  Coordinators = {c1, c2}
  MaxRuns = 3
  MaxUpdates = 4
  Idle = Idle
  NoSignature = NoSignature
  NoRequest = NoRequest
  APP_STATE_LENGTH = 8
  TXN_VERSION_CURRENT = 3
  BodyPrefix = "network"
  Bodies <- AllBodies
  FeePayerBodies <- AllFeePayers
  Memos <- MCMemos
  Uris <- MCUris
  MEMO_VERSION_BYTE = 20
  TOKEN_ID_VERSION_BYTE = 28
  SIGNATURE_VERSION_BYTE = 154
  Sigs <- MCSigs
SPECIFICATION Spec
INVARIANTS IInv SignaturesFit ChainVerifies CommitmentKeepsDepths SavedReadsBack MessageTellsTransaction NodeReadsWhatWasSigned PackingReadsBack BodiesPackApart DocumentsReadBack
SYMMETRY Symmetry
CHECK_DEADLOCK FALSE
