SPECIFICATION RematchSpec
CONSTANTS
  S1 = S1
  S2 = S2
  S3 = S3
  Sockets = {S1, S2, S3}
  NoSocket = NoSocket
  Names = {"Guest"}
  MaxGames = 1
  Cells <- ThreeCells
  Lines <- PairLine
SYMMETRY SocketSymmetry
CHECK_DEADLOCK FALSE
INVARIANT DrawNeedsBoth
