SPECIFICATION ClientSpec
CONSTANTS
  Capacity = 2
  Junk = Junk
  Cells <- OneCell
  GameIds <- OneGame
  Messages <- SomeMessages
  Elements <- AllElements
CHECK_DEADLOCK FALSE
INVARIANTS NoCommandLeft
