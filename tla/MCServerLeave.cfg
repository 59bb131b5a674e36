SPECIFICATION ServerSpec
CONSTANTS
  ann = ann
  bob = bob
  cid = cid
  Users = {ann, bob}
  Sockets <- TwoSockets
  NoSocket <- Closed
  Names = {"Guest"}
  Cells <- OneCell
  Lines <- NoLines
  MaxGames = 1
  MAX_CLIENTS = 2
  InboxMax = 1
  MaxConnects = 4
  MaxQuits = 2
  Requests = {"MSG_CREATE_GAME", "MSG_LIST_GAMES", "MSG_JOIN_GAME", "MSG_LEAVE_GAME"}
  Eager = {"MSG_CREATE_GAME", "MSG_LIST_GAMES", "MSG_JOIN_GAME", "MSG_LEAVE_GAME"}
SYMMETRY UserSymmetry
CHECK_DEADLOCK FALSE
INVARIANTS OwnerConnected
