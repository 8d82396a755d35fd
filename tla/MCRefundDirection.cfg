SPECIFICATION Spec
CONSTANTS
  Request <- MCRequest
  Original <- MCOriginal
  Account <- MCAccount
  Platform = 9
  Entries <- MCEntries
  Req <- MCReq
  Key <- MCKey
  MaxRetries = 2
INVARIANT RefundsNegateOriginal
