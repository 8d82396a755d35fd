SPECIFICATION Spec
CONSTANTS
  w1 = w1
  w2 = w2
  Wallet <- MCWallet
  Closable <- MCClosable
  Opening <- MCOpening
  Amount <- MCAmount
  SmallAmount <- MCSmallAmount
  Rate <- MCRate
  Days <- MCDays
  Points <- MCPoints
  One = 200
  MaxPostings = 2
CHECK_DEADLOCK FALSE
INVARIANTS
  TypeOK
  UnbalancedOnlyByRawAmounts
  WalletsNeverOverdrawn
  CheckedAndMetered
  NothingLostInTransit
  
