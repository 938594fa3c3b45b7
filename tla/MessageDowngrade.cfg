SPECIFICATION Spec
CONSTANTS
  Origin = {"text", "forward", "bulk", "inbound"}
  Ack = {a1, a2}
  MaxReactions = 1
  Sender = {s1, s2}
  Emoji = {like}
  NoEmoji = NoEmoji
  DbFails = {}
  PromptSave = TRUE
PROPERTY StatusOnlyAdvances
CHECK_DEADLOCK FALSE
