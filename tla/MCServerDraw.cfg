SPECIFICATION ServerSpec
CONSTANTS
  ann = ann
  bob = bob
  cid = cid
  Users = {ann, bob}
  Sockets <- TwoSockets
  NoSocket <- Closed
  Names = {"Guest"}
  Cells = {c1, c2, c3}
  Lines <- NoLines
  MaxGames = 1
  MAX_CLIENTS = 2
  InboxMax = 1
  MaxConnects = 2
  MaxQuits = 0
  Requests = {"MSG_CREATE_GAME", "MSG_LIST_GAMES", "MSG_JOIN_GAME", "MSG_JOIN_DECISION", "MSG_MOVE", "MSG_POST_GAME_OPTIONS"}
  Eager = {"MSG_CREATE_GAME", "MSG_JOIN_GAME", "MSG_JOIN_DECISION", "MSG_MOVE", "MSG_POST_GAME_OPTIONS"}
SYMMETRY DrawSymmetry
CHECK_DEADLOCK FALSE
INVARIANTS RolesAgree SeatedArePlaying ShownMarksAreReal
