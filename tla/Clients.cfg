SPECIFICATION Spec
CONSTANTS
  Bytes <- Octets
  Texts = {"", "ERR", "long", "split"}
  LongTexts = {"long"}
  SplitTexts = {"split"}
  ReplyTo <- Replies
  Sessions <- Sittings
  LineSize = 4
  MaxTokens = 2
  RecvSize = 9
  Posts <- Asks
CHECK_DEADLOCK FALSE
INVARIANTS ExecutedAsMeant ShownInStep ResultIsTrue WholeReplyAnswers
PROPERTIES PromptReturns PostIsAnswered
