SPECIFICATION ServerSpec
CONSTANTS
  ann = ann
  bob = bob
  cid = cid
  Users = {ann, bob, cid}
  Sockets <- TwoSockets
  NoSocket <- Closed
  Names = {"Guest"}
  Cells <- OneCell
  Lines <- NoLines
  MaxGames = 0
  MAX_CLIENTS = 1
  InboxMax = 1
  MaxConnects = 4
  MaxQuits = 4
  Requests = {"MSG_CREATE_GAME", "MSG_LIST_GAMES", "MSG_JOIN_GAME", "MSG_JOIN_DECISION", "MSG_MOVE", "MSG_POST_GAME_OPTIONS", "MSG_LEAVE_GAME"}
  Eager = {"MSG_CREATE_GAME", "MSG_LIST_GAMES", "MSG_JOIN_GAME", "MSG_JOIN_DECISION", "MSG_MOVE", "MSG_POST_GAME_OPTIONS", "MSG_LEAVE_GAME"}
SYMMETRY UserSymmetry
CHECK_DEADLOCK FALSE
INVARIANTS ServerTypeOK SlotIntegrity ServedHaveRow
