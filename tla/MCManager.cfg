SPECIFICATION Spec
CONSTANTS
  S1 = S1
  S2 = S2
  S3 = S3
  Sockets = {S1, S2, S3}
  NoSocket = NoSocket
  Names = {"Guest"}
  MaxGames = 2
  Cells <- BoardCells
  Lines <- BoardLines
SYMMETRY SocketSymmetry
CONSTRAINT OneMatchAtATime
INVARIANTS TypeOK PendingJoinIsOpen OrphanIsOpen TurnMatchesBoard OutcomeMatchesBoard
PROPERTIES BoardStep IdsNeverReused SeatStep WinnerContinues
CHECK_DEADLOCK FALSE
