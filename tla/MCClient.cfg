SPECIFICATION FairClientSpec
CONSTANTS
  Capacity = 2
  Junk = Junk
  Cells <- OneCell
  GameIds <- OneGame
  Messages <- SomeMessages
  Elements <- AllElements
CHECK_DEADLOCK FALSE
INVARIANTS ClientTypeOK ThreadWithinLifetime NoEventLeft NoLostWakeup
PROPERTIES CommandsAreFifo EventsAreFifo JoinReturns PushReturns
