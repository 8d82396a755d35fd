SPECIFICATION Spec
CONSTANTS
  Request <- MCRequest
  Account <- MCAccount
  LockKey <- MCLockKey
  Journal <- MCJournal
  Type <- MCType
  Limit <- MCLimit
  OpeningRows <- MCOpeningRows
  OpeningBalance <- MCOpeningBalance
  MaxRetries = 3
INVARIANT ChainIsLinear
