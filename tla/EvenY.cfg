CONSTANTS
  q = 7
  Even <- Squares
  H1 <- H1Of
  H2 <- H2Of
  Participants = {1, 3, 4}
  min_signers = 2
  Polynomials <- Lines
  Nonces <- SomeNonces
  Messages <- SomeMessages
  MAX_PREFIX_LENGTH = 20
  Segmentations <- SomeSegmentations
  Names <- SomeNames
  Faulty = {4}
  None = None
SPECIFICATION Spec
INVARIANTS TypeOK IInv BlamesOnlyFaulty MessageReadsBack AggregatesOrBlames HashInputsApart DomainsApart
CHECK_DEADLOCK FALSE
