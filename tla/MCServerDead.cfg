SPECIFICATION ServerSpec
CONSTANTS
  ann = ann
  bob = bob
  cid = cid
  Users = {ann, bob}
  Sockets <- TwoSockets
  NoSocket <- Closed
  Names = {"Guest"}
  Cells <- TwoCells
  Lines <- WinLine
  MaxGames = 1
  MAX_CLIENTS = 2
  InboxMax = 1
  MaxConnects = 3
  MaxQuits = 1
  Requests = {"MSG_CREATE_GAME", "MSG_LIST_GAMES", "MSG_JOIN_GAME", "MSG_JOIN_DECISION", "MSG_MOVE", "MSG_POST_GAME_OPTIONS"}
  Eager = {"MSG_CREATE_GAME", "MSG_LIST_GAMES", "MSG_JOIN_GAME", "MSG_JOIN_DECISION", "MSG_MOVE", "MSG_POST_GAME_OPTIONS"}
SYMMETRY UserSymmetry
CHECK_DEADLOCK FALSE
INVARIANTS PlayersConnected
