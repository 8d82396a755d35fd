SPECIFICATION FairSpec
CONSTANTS
  Call <- MCCall
  Slot <- MCSlot
  Hash <- MCHash
  Implemented <- MCImplemented
  NoResponse = NoResponse
  MaxAttempts = 3
INVARIANTS
  TypeOK
  AnswersAreBacked
  OneIntentPerKey
PROPERTIES
  
  EveryCallAnswered
