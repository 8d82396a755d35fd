SPECIFICATION FairSpec
CONSTANTS
  Request <- MCRequest
  Account <- MCAccount
  LockKey <- MCLockKey
  Journal <- MCJournal
  Type <- MCType
  Limit <- MCLimit
  OpeningRows <- MCOpeningRows
  OpeningBalance <- MCOpeningBalance
  MaxRetries = 3
INVARIANTS
  TypeOK
  NoOverdraft
  CheckNeverStale
  LimitNeverExceeded
  AllOrNothing
  BooksBalance
  ChainLinksBack
  ForkOnlyWithoutSharedLock
PROPERTIES
  OneJournalPerCommit
  ImplementsAbstractLedger
  EveryCallReturns
