SPECIFICATION Spec
CONSTANTS
  w1 = w1
  w2 = w2
  Wallet <- MCWallet
  Closable <- MCClosable
  Opening <- MCOpening
  Amount <- MCOnGrid
  SmallAmount <- MCOnGrid
  Rate <- MCRate
  Days <- MCDays
  Points <- MCPoints
  One = 200
  MaxPostings = 2
CHECK_DEADLOCK FALSE
INVARIANT LoanReceivableIsOwed
