SPECIFICATION FairSpec
CONSTANTS
  OversizeReplies = TRUE
  MaxCommands = 5
PROPERTY AnswersOwnCommand
