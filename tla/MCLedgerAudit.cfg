SPECIFICATION Spec
CONSTANTS
  Account <- MCAccount
  AccountType <- MCAccountType
  PageSize = 1
  Tolerance = 0
  Posting <- MCPosting
  Journal <- MCJournal
  Opening = "sale"
  Period = {1, 2}
  Archivable = {1}
  Corrected <- MCCorrected
  NewAmount = {5}
  MaxUpdates = 2
  RangeStart = {0, 2}
  RangeEnd = {3, 7}
INVARIANTS
  
  ExportIsWhatWasVerified
  ArchiveKeepsEveryRow
  
  StatementsConnect
  
CHECK_DEADLOCK FALSE
