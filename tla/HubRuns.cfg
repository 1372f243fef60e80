SPECIFICATION FairSpec
CONSTANTS
  Texts <- Prompts
  RunTexts <- RunPrompt
  DirectTexts <- DirectPrompt
  MaxPending = 2
  MaxRuns = 3
  MaxUpsets = 1
  Upsets <- AllUpsets
  Deliveries = {"none", "steer"}
  RunDeliveries = {"none", "queue", "steer"}
INVARIANTS
  TypeOK
  QueueIsServed
  RunsInOrder
  ParkedRunsOnce
  TimedOutIsStopped
PROPERTIES
  ImplementsDurableFifo
  RunsEnd
