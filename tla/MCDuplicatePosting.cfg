SPECIFICATION Spec
CONSTANTS
  Call <- MCCall
  Slot <- MCSlot
  Hash <- MCHash
  Implemented <- MCImplemented
  NoResponse = NoResponse
  MaxAttempts = 3
INVARIANT AtMostOncePerKey
