SPECIFICATION FairSpec
CONSTANTS
  OversizeReplies = FALSE
  MaxCommands = 5
INVARIANTS InStep OneHandle NeverNotInitialized
PROPERTIES AnswersOwnCommand SendReturns DeviceReleased
