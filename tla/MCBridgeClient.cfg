SPECIFICATION Spec
CONSTANTS
  OversizeReplies = FALSE
  MaxLines = 4
INVARIANTS TypeOK RepliesInOrder OpsNeedSession
PROPERTY EofEndsBridge
