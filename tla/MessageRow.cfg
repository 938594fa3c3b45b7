SPECIFICATION FairSpec
CONSTANTS
  Origin = {"text", "forward", "bulk", "inbound"}
  Ack = {a1, a2}
  MaxReactions = 2
  Sender = {s1, s2}
  Emoji = {like}
  NoEmoji = NoEmoji
  DbFails = {"insert", "record", "fail", "ack", "react", "revoke"}
  PromptSave = TRUE
INVARIANT TypeOK
INVARIANT RowTellsOutcome
INVARIANT EveryReactionCounts
PROPERTY OnlyReactionsUndo
PROPERTY AckLands
CHECK_DEADLOCK FALSE
