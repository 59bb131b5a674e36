SPECIFICATION FairWireSpec
CONSTANTS
  Senders = {1, 2}
  Types <- ThreeTypes
  MaxCalls = 2
CHECK_DEADLOCK FALSE
INVARIANTS WireTypeOK IntactUnlessMixed WaitsOnlyForSenders
PROPERTIES EveryMessageArrives
