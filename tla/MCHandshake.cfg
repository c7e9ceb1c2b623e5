SPECIFICATION Spec
CONSTANTS
  Replies <- MCReplies
  PoolBlocks <- MCBlocks
  ReadSize = 3
INVARIANTS
  TypeOK
  VerdictOnWholeHeader
  BoundedLoss
PROPERTY
  HeaderEndsHandshake
CHECK_DEADLOCK FALSE
