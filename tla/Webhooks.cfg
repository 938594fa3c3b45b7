SPECIFICATION MCSpec
CONSTANTS
  Webhook = {w1, w2}
  Event = {e1, e2}
  Retries = {0, 2}
  DbFails = TRUE
INVARIANTS TypeOK ProcessedOnce DeliveredIsProcessed ErrorMeansOver
PROPERTIES QueuedSurvives EveryoneServed
CHECK_DEADLOCK FALSE
