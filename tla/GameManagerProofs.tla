------------------------- MODULE GameManagerProofs -------------------------
(***************************************************************************)
(* Proofs about GameManager for every board, every set of sockets and      *)
(* every number of games.                                                  *)
(***************************************************************************)
EXTENDS GameManager, TLAPS, FiniteSetTheorems, WellFoundedInduction

-----------------------------------------------------------------------------
(* Each operation on one game returns a game. *)

(* A freshly created game is a well-formed record. *)
LEMMA NewGameType ==
  ASSUME NEW sock \in Sockets, NEW name \in Names
  PROVE  NewGame(sock, name) \in Game
BY DEF NewGame, Game, Seats, EmptyBoard, Marks, Players, GameStates, GameResults

(* Registering a joiner keeps the record well formed. *)
LEMMA JoinedType ==
  ASSUME NEW g \in Game, NEW sock \in Sockets
  PROVE  Joined(g, sock) \in Game
BY DEF Joined, Game, Seats

(* Accepting or rejecting the joiner keeps the record well formed. *)
LEMMA DecidedType ==
  ASSUME NEW g \in Game, NEW accepted \in BOOLEAN
  PROVE  Decided(g, accepted) \in Game
BY DEF Decided, Game, Seats, GameStates

(* Placing a mark keeps the record well formed. *)
LEMMA PlacedType ==
  ASSUME NEW g \in Game, NEW sock, NEW c \in Cells
  PROVE  Placed(g, sock, c) \in Game
BY DEF Placed, Game, Marks, Mark, Players, Opponent, RoleOf

(* Storing the outcome of a match keeps the record well formed. *)
LEMMA FinalizedType ==
  ASSUME NEW g \in Game, NEW winner
  PROVE  game_finalize(g, winner) \in Game
BY DEF game_finalize, Game, GameStates, GameResults

(* A whole move keeps the record well formed. *)
LEMMA MovedType ==
  ASSUME NEW g \in Game, NEW sock, NEW c \in Cells
  PROVE  Moved(g, sock, c) \in Game
BY PlacedType, FinalizedType DEF Moved

(* Vacating a seat keeps the record well formed. *)
LEMMA LeftType ==
  ASSUME NEW g \in Game, NEW sock
  PROVE  Left(g, sock) \in Game
BY DEF Left, Game, Seats

(* Recording an answer keeps the record well formed. *)
LEMMA AnsweredType ==
  ASSUME NEW g \in Game, NEW sock, NEW wants \in BOOLEAN
  PROVE  Answered(g, sock, wants) \in Game
BY DEF Answered, Game

(* Clearing the board keeps the record well formed. *)
LEMMA ClearedType ==
  ASSUME NEW g \in Game, NEW state \in GameStates
  PROVE  Cleared(g, state) \in Game
BY DEF Cleared, Game, EmptyBoard, Marks, Players, GameResults

(* Reopening a game for its new owner keeps the record well formed. *)
LEMMA ReopenedType ==
  ASSUME NEW g \in Game, NEW owner \in Seats
  PROVE  Reopened(g, owner) \in Game
<1>1. Cleared(g, "GAME_WAITING") \in Game
  BY ClearedType DEF GameStates
<1> QED
  BY <1>1 DEF Reopened, Game, Seats

(* Either post-game handler returns a well-formed record. *)
LEMMA PostGameType ==
  ASSUME NEW g \in Game, NEW sock, NEW wants \in BOOLEAN
  PROVE  PostGame(g, sock, wants).game \in Game
<1> DEFINE a == Answered(g, sock, wants)
<1>1. a \in Game
  BY AnsweredType
<1>2. a.player_x_socket \in Seats /\ a.player_o_socket \in Seats
  BY <1>1 DEF Game
<1>3. /\ Reopened(a, a.player_x_socket) \in Game
      /\ Reopened(a, a.player_o_socket) \in Game
      /\ Cleared(a, "GAME_IN_PROGRESS") \in Game
      /\ [a EXCEPT !.state = "GAME_FINISHED"] \in Game
  <2> HIDE DEF a
  <2> QED BY <1>1, <1>2, ReopenedType, ClearedType DEF Game, GameStates
<1>4. handle_draw_post_game(a).game \in Game
  <2> HIDE DEF a
  <2>1. \A h \in Game : [h EXCEPT !.post_game_x_received = FALSE,
                                  !.post_game_o_received = FALSE] \in Game
    BY DEF Game
  <2> QED BY <1>1, <1>3, <2>1 DEF handle_draw_post_game
<1>5. handle_win_post_game(a, sock, wants).game \in Game
  <2> HIDE DEF a
  <2> QED BY <1>1, <1>3 DEF handle_win_post_game
<1> QED
  BY <1>4, <1>5 DEF PostGame

-----------------------------------------------------------------------------
(* The winner computed by scanning the lines is the winner of the position. *)

(* The scan stops at a complete line whenever there is one. *)
LEMMA FirstLineIsComplete ==
  ASSUME NEW b, CompleteLines(b) # {}
  PROVE  FirstLine(b) \in CompleteLines(b)
<1>1. CompleteLines(b) \subseteq Nat
  BY LinesAssumption DEF CompleteLines
<1>2. PICK i \in CompleteLines(b) : \A j \in CompleteLines(b) : ~(<<j, i>> \in OpToRel(<, Nat))
  BY <1>1, NatLessThanWellFounded, WFMin, Zenon
<1>3. ASSUME NEW j \in CompleteLines(b)
      PROVE  i <= j
  <2>1. i \in Nat /\ j \in Nat
    BY <1>1
  <2>2. ~(j < i)
    <3>1. <<j, i>> \in Nat \X Nat
      BY <2>1
    <3>2. <<j, i>>[1] = j /\ <<j, i>>[2] = i
      OBVIOUS
    <3> QED BY <1>2, <3>1, <3>2, Zenon DEF OpToRel
  <2> QED BY <2>1, <2>2
<1> QED
  BY <1>3 DEF FirstLine

(* The mark read from a complete line is the one mark that fills it. *)
LEMMA LineMarkFills ==
  ASSUME NEW b, NEW i \in CompleteLines(b)
  PROVE  /\ LineMark(b, i) \in {"X", "O"}
         /\ \A c \in Lines[i] : b[c] = LineMark(b, i)
<1>1. i \in 1..Len(Lines) /\ Complete(b, i)
  BY DEF CompleteLines
<1>2. Lines[i] # {}
  BY <1>1, LinesAssumption
<1>3. (CHOOSE c \in Lines[i] : TRUE) \in Lines[i]
  BY <1>2
<1> QED
  BY <1>1, <1>3 DEF Complete, LineMark

(* Where at most one player has a line, game_check_winner names the player  *)
(* that has it; with no line it tells an open position from a draw.         *)
LEMMA CheckWinnerIsRight ==
  ASSUME NEW b \in [Cells -> Marks], ~(HasLine(b, "X") /\ HasLine(b, "O"))
  PROVE  /\ game_check_winner(b) = "PLAYER_X" <=> HasLine(b, "X")
         /\ game_check_winner(b) = "PLAYER_O" <=> HasLine(b, "O")
         /\ game_check_winner(b) = "RESULT_NONE" <=>
              /\ ~HasLine(b, "X") /\ ~HasLine(b, "O")
              /\ \E c \in Cells : b[c] = " "
         /\ game_check_winner(b) = "RESULT_DRAW" <=>
              /\ ~HasLine(b, "X") /\ ~HasLine(b, "O")
              /\ \A c \in Cells : b[c] # " "
<1>1. CompleteLines(b) # {} <=> HasLine(b, "X") \/ HasLine(b, "O")
  BY DEF CompleteLines, Complete, HasLine
<1>2. CASE CompleteLines(b) = {}
  BY <1>1, <1>2 DEF game_check_winner
<1>3. CASE CompleteLines(b) # {}
  <2> DEFINE i == FirstLine(b)
             m == LineMark(b, i)
  <2>1. i \in CompleteLines(b) /\ i \in 1..Len(Lines)
    BY <1>3, FirstLineIsComplete DEF CompleteLines
  <2>2. m \in {"X", "O"} /\ \A c \in Lines[i] : b[c] = m
    BY <2>1, LineMarkFills
  <2>3. HasLine(b, m)
    BY <2>1, <2>2 DEF HasLine
  <2>4. game_check_winner(b) = IF m = "X" THEN "PLAYER_X" ELSE "PLAYER_O"
    BY <1>3 DEF game_check_winner
  <2> QED
    <3> HIDE DEF m, i
    <3>1. CASE m = "X"
      <4>1. HasLine(b, "X") /\ ~HasLine(b, "O")
        BY <2>3, <3>1
      <4> QED BY <2>4, <3>1, <4>1
    <3>2. CASE m = "O"
      <4>1. HasLine(b, "O") /\ ~HasLine(b, "X")
        BY <2>3, <3>2
      <4> QED BY <2>4, <3>2, <4>1
    <3> QED BY <2>2, <3>1, <3>2
<1> QED
  BY <1>2, <1>3

(* Placing a mark completes no line of the other player. *)
LEMMA PlacingHelpsOnlyTheMover ==
  ASSUME NEW b \in [Cells -> Marks], NEW c \in Cells, NEW m \in {"X", "O"},
         NEW other \in {"X", "O"}, other # m, ~HasLine(b, other)
  PROVE  ~HasLine([b EXCEPT ![c] = m], other)
<1> SUFFICES ASSUME HasLine([b EXCEPT ![c] = m], other) PROVE FALSE
  OBVIOUS
<1>1. PICK i \in 1..Len(Lines) : \A d \in Lines[i] : [b EXCEPT ![c] = m][d] = other
  BY DEF HasLine
<1>2. Lines[i] \subseteq Cells
  BY LinesAssumption
<1>3. \A d \in Lines[i] : b[d] = other
  BY <1>1, <1>2
<1> QED
  BY <1>3 DEF HasLine

(* An empty board has no line and a free cell. *)
LEMMA EmptyBoardIsOpen ==
  /\ EmptyBoard \in [Cells -> Marks]
  /\ ~HasLine(EmptyBoard, "X") /\ ~HasLine(EmptyBoard, "O")
  /\ \E c \in Cells : EmptyBoard[c] = " "
<1>1. \A i \in 1..Len(Lines) : Lines[i] \subseteq Cells /\ Lines[i] # {}
  BY LinesAssumption
<1>2. \A c \in Cells : EmptyBoard[c] = " "
  BY DEF EmptyBoard
<1>3. ~HasLine(EmptyBoard, "X") /\ ~HasLine(EmptyBoard, "O")
  BY <1>1, <1>2 DEF HasLine
<1> QED
  BY <1>2, <1>3, CellsAssumption DEF EmptyBoard, Marks

-----------------------------------------------------------------------------
(* Neither PendingJoinIsOpen nor OutcomeMatchesBoard is inductive alone: a  *)
(* decision finishes a game whose joiner is pending unless the results are  *)
(* known to be those of an open game.  Together they are, game by game.     *)
Sound(g) == OpenSeat(g) /\ OutcomeFits(g)

(* A new game is sound. *)
LEMMA NewGameSound ==
  ASSUME NEW sock \in Sockets, NEW name \in Names
  PROVE  Sound(NewGame(sock, name))
BY EmptyBoardIsOpen DEF Sound, OpenSeat, OutcomeFits, NewGame

(* Registering a joiner where CanJoin allows it keeps a game sound. *)
LEMMA JoinedSound ==
  ASSUME NEW g \in Game, NEW sock \in Sockets, Sound(g), CanJoin(g)
  PROVE  Sound(Joined(g, sock))
BY DEF Sound, OpenSeat, OutcomeFits, Joined, CanJoin, Game

(* Deciding on a pending joiner keeps a game sound. *)
LEMMA DecidedSound ==
  ASSUME NEW g \in Game, NEW accepted \in BOOLEAN, Sound(g), CanDecide(g)
  PROVE  Sound(Decided(g, accepted))
BY DEF Sound, OpenSeat, OutcomeFits, Decided, CanDecide, Game

(* Vacating a seat keeps a game sound. *)
LEMMA LeftSound ==
  ASSUME NEW g \in Game, NEW sock, Sound(g)
  PROVE  Sound(Left(g, sock))
BY DEF Sound, OpenSeat, OutcomeFits, Left, Game

(* The board, turn and status a move leaves behind before it is scored. *)
LEMMA PlacedFields ==
  ASSUME NEW g \in Game, NEW sock, NEW c \in Cells, CanMove(g, sock, c)
  PROVE  LET p == Placed(g, sock, c) IN
         /\ p \in Game
         /\ p.board = [g.board EXCEPT ![c] = Mark(g.current_turn)]
         /\ p.current_turn = Opponent(g.current_turn)
         /\ p.state = "GAME_IN_PROGRESS"
         /\ p.result_player_x = g.result_player_x
         /\ p.result_player_o = g.result_player_o
         /\ p.player_x_socket = g.player_x_socket
         /\ p.player_o_socket = g.player_o_socket
         /\ p.waiting_player_socket = g.waiting_player_socket
BY PlacedType DEF Placed, CanMove, Game

(* What storing the outcome changes. *)
LEMMA FinalizedFields ==
  ASSUME NEW g \in Game, NEW winner \in {"PLAYER_X", "PLAYER_O", "RESULT_DRAW"}
  PROVE  LET f == game_finalize(g, winner) IN
         /\ f.state = "GAME_FINISHED"
         /\ winner = "PLAYER_X" => f.result_player_x = "RESULT_WIN" /\ f.result_player_o = "RESULT_LOSS"
         /\ winner = "PLAYER_O" => f.result_player_x = "RESULT_LOSS" /\ f.result_player_o = "RESULT_WIN"
         /\ winner = "RESULT_DRAW" => f.result_player_x = "RESULT_DRAW" /\ f.result_player_o = "RESULT_DRAW"
         /\ f.board = g.board
         /\ f.current_turn = g.current_turn
         /\ f.player_x_socket = g.player_x_socket
         /\ f.player_o_socket = g.player_o_socket
         /\ f.waiting_player_socket = g.waiting_player_socket
BY DEF game_finalize, Game

(* The scan of the lines has one of four outcomes. *)
LEMMA CheckWinnerRange ==
  ASSUME NEW b
  PROVE  game_check_winner(b) \in {"PLAYER_X", "PLAYER_O", "RESULT_NONE", "RESULT_DRAW"}
BY DEF game_check_winner

(* A legal move scores the position it produces correctly. *)
LEMMA MovedSound ==
  ASSUME NEW g \in Game, NEW sock, NEW c \in Cells, Sound(g), CanMove(g, sock, c)
  PROVE  Sound(Moved(g, sock, c))
<1> DEFINE p == Placed(g, sock, c)
           b == p.board
           m == Mark(g.current_turn)
           w == game_check_winner(b)
<1>1. /\ p \in Game /\ b \in [Cells -> Marks]
      /\ b = [g.board EXCEPT ![c] = m]
      /\ p.state = "GAME_IN_PROGRESS"
      /\ p.result_player_x = g.result_player_x
      /\ p.result_player_o = g.result_player_o
      /\ p.waiting_player_socket = g.waiting_player_socket
  BY PlacedFields DEF Game
<1>2. g.state = "GAME_IN_PROGRESS" /\ g.board \in [Cells -> Marks] /\ g.current_turn \in Players
  BY DEF CanMove, Game
<1>3. /\ g.result_player_x = "RESULT_NONE" /\ g.result_player_o = "RESULT_NONE"
      /\ ~HasLine(g.board, "X") /\ ~HasLine(g.board, "O")
      /\ g.waiting_player_socket = NoSocket
  BY <1>2 DEF Sound, OpenSeat, OutcomeFits
<1>4. m \in {"X", "O"}
  BY DEF Mark
<1>5. ~(HasLine(b, "X") /\ HasLine(b, "O"))
  <2> HIDE DEF m
  <2>1. CASE m = "X"
    BY <1>1, <1>2, <1>3, <2>1, PlacingHelpsOnlyTheMover
  <2>2. CASE m = "O"
    BY <1>1, <1>2, <1>3, <2>2, PlacingHelpsOnlyTheMover
  <2> QED BY <1>4, <2>1, <2>2
<1>6. w \in {"PLAYER_X", "PLAYER_O", "RESULT_NONE", "RESULT_DRAW"}
  BY CheckWinnerRange
<1>7. CASE w = "RESULT_NONE"
  <2>1. Moved(g, sock, c) = p
    BY <1>7 DEF Moved
  <2>2. ~HasLine(b, "X") /\ ~HasLine(b, "O") /\ \E d \in Cells : b[d] = " "
    BY <1>1, <1>5, <1>7, CheckWinnerIsRight
  <2> HIDE DEF p
  <2> QED
    BY <1>1, <1>3, <2>1, <2>2 DEF Sound, OpenSeat, OutcomeFits
<1>8. CASE w # "RESULT_NONE"
  <2> DEFINE f == game_finalize(p, w)
  <2>1. Moved(g, sock, c) = f
    BY <1>8 DEF Moved
  <2>2. /\ w = "PLAYER_X" <=> HasLine(b, "X")
        /\ w = "PLAYER_O" <=> HasLine(b, "O")
        /\ w = "RESULT_DRAW" <=> /\ ~HasLine(b, "X") /\ ~HasLine(b, "O")
                                 /\ \A d \in Cells : b[d] # " "
    BY <1>1, <1>5, CheckWinnerIsRight
  <2>3. /\ f.state = "GAME_FINISHED" /\ f.board = b
        /\ f.waiting_player_socket = NoSocket
        /\ w = "PLAYER_X" => f.result_player_x = "RESULT_WIN" /\ f.result_player_o = "RESULT_LOSS"
        /\ w = "PLAYER_O" => f.result_player_x = "RESULT_LOSS" /\ f.result_player_o = "RESULT_WIN"
        /\ w = "RESULT_DRAW" => f.result_player_x = "RESULT_DRAW" /\ f.result_player_o = "RESULT_DRAW"
    <3> HIDE DEF p, w
    <3> QED BY <1>1, <1>3, <1>6, <1>8, FinalizedFields
  <2> HIDE DEF f, w, p
  <2>4. OpenSeat(f)
    BY <2>3 DEF OpenSeat
  <2>5. OutcomeFits(f)
    BY <1>5, <1>6, <1>8, <2>2, <2>3 DEF OutcomeFits
  <2> QED
    BY <2>1, <2>4, <2>5 DEF Sound
<1> QED
  BY <1>7, <1>8

(* Recording an answer changes nothing but the answer flags. *)
LEMMA AnsweredFields ==
  ASSUME NEW g \in Game, NEW sock, NEW wants \in BOOLEAN
  PROVE  LET a == Answered(g, sock, wants) IN
         /\ a \in Game
         /\ a.board = g.board /\ a.current_turn = g.current_turn /\ a.state = g.state
         /\ a.result_player_x = g.result_player_x
         /\ a.result_player_o = g.result_player_o
         /\ a.player_x_socket = g.player_x_socket
         /\ a.player_o_socket = g.player_o_socket
         /\ a.waiting_player_socket = g.waiting_player_socket
BY AnsweredType DEF Answered, Game

(* A cleared board is that of an open game in the given status. *)
LEMMA ClearedFields ==
  ASSUME NEW g \in Game, NEW state \in GameStates
  PROVE  LET n == Cleared(g, state) IN
         /\ n \in Game
         /\ n.board = EmptyBoard /\ n.current_turn = "PLAYER_X" /\ n.state = state
         /\ n.result_player_x = "RESULT_NONE" /\ n.result_player_o = "RESULT_NONE"
         /\ n.player_x_socket = g.player_x_socket
         /\ n.player_o_socket = g.player_o_socket
         /\ n.waiting_player_socket = g.waiting_player_socket
BY ClearedType DEF Cleared, Game

(* A reopened game waits with its new owner alone in it. *)
LEMMA ReopenedFields ==
  ASSUME NEW g \in Game, NEW owner \in Seats
  PROVE  LET n == Reopened(g, owner) IN
         /\ n \in Game
         /\ n.board = EmptyBoard /\ n.current_turn = "PLAYER_X" /\ n.state = "GAME_WAITING"
         /\ n.result_player_x = "RESULT_NONE" /\ n.result_player_o = "RESULT_NONE"
         /\ n.player_x_socket = owner
         /\ n.player_o_socket = NoSocket
         /\ n.waiting_player_socket = NoSocket
<1>1. LET n == Cleared(g, "GAME_WAITING") IN
      /\ n \in Game
      /\ n.board = EmptyBoard /\ n.current_turn = "PLAYER_X" /\ n.state = "GAME_WAITING"
      /\ n.result_player_x = "RESULT_NONE" /\ n.result_player_o = "RESULT_NONE"
  BY ClearedFields DEF GameStates
<1> QED
  BY <1>1, ReopenedType DEF Reopened, Game

(* What a post-game decision can turn a game into: the fields the          *)
(* invariants speak of are left alone, or a match restarts, or the game     *)
(* reopens for one of its players, or it is (or stays) finished.            *)
PostGameOutcome(g, sock, h) ==
  \/ /\ h.board = g.board /\ h.current_turn = g.current_turn
     /\ h.result_player_x = g.result_player_x
     /\ h.result_player_o = g.result_player_o
     /\ h.player_x_socket = g.player_x_socket
     /\ h.player_o_socket = g.player_o_socket
     /\ h.waiting_player_socket = g.waiting_player_socket
     /\ \/ h.state = g.state
        \/ h.state = "GAME_FINISHED" /\ (IsDraw(g) \/ sock # g.player_x_socket
                                                   \/ g.result_player_x = "RESULT_WIN")
  \/ /\ h.board = EmptyBoard /\ h.current_turn = "PLAYER_X"
     /\ h.result_player_x = "RESULT_NONE" /\ h.result_player_o = "RESULT_NONE"
     /\ \/ /\ IsDraw(g)
           /\ h.state = "GAME_IN_PROGRESS"
           /\ h.player_x_socket = g.player_x_socket
           /\ h.player_o_socket = g.player_o_socket
           /\ h.waiting_player_socket = g.waiting_player_socket
        \/ /\ h.state = "GAME_WAITING"
           /\ h.player_o_socket = NoSocket
           /\ h.waiting_player_socket = NoSocket
           /\ \/ IsDraw(g) /\ h.player_x_socket \in {g.player_x_socket, g.player_o_socket}
              \/ /\ ~IsDraw(g)
                 /\ g.result_player_x = "RESULT_WIN"
                 /\ sock # g.player_o_socket
                 /\ h.player_x_socket = g.player_x_socket
              \/ /\ ~IsDraw(g)
                 /\ g.result_player_x # "RESULT_WIN"
                 /\ sock # g.player_x_socket
                 /\ h.player_x_socket = g.player_o_socket

(* Every post-game decision has one of those outcomes. *)
LEMMA PostGameCases ==
  ASSUME NEW g \in Game, NEW sock, NEW wants \in BOOLEAN
  PROVE  PostGameOutcome(g, sock, PostGame(g, sock, wants).game)
<1> DEFINE a == Answered(g, sock, wants)
<1>1. /\ a \in Game
      /\ a.board = g.board /\ a.current_turn = g.current_turn /\ a.state = g.state
      /\ a.result_player_x = g.result_player_x
      /\ a.result_player_o = g.result_player_o
      /\ a.player_x_socket = g.player_x_socket
      /\ a.player_o_socket = g.player_o_socket
      /\ a.waiting_player_socket = g.waiting_player_socket
  BY AnsweredFields
<1> HIDE DEF a
<1>2. a.player_x_socket \in Seats /\ a.player_o_socket \in Seats
  BY <1>1 DEF Game
<1> DEFINE restarted == Cleared(a, "GAME_IN_PROGRESS")
           forx == Reopened(a, a.player_x_socket)
           foro == Reopened(a, a.player_o_socket)
           ended == [a EXCEPT !.state = "GAME_FINISHED"]
<1>3. /\ restarted \in Game
      /\ restarted.board = EmptyBoard /\ restarted.current_turn = "PLAYER_X"
      /\ restarted.state = "GAME_IN_PROGRESS"
      /\ restarted.result_player_x = "RESULT_NONE" /\ restarted.result_player_o = "RESULT_NONE"
      /\ restarted.player_x_socket = a.player_x_socket
      /\ restarted.player_o_socket = a.player_o_socket
      /\ restarted.waiting_player_socket = a.waiting_player_socket
  BY <1>1, ClearedFields DEF GameStates
<1>4. \A owner \in Seats : LET n == Reopened(a, owner) IN
      /\ n \in Game
      /\ n.board = EmptyBoard /\ n.current_turn = "PLAYER_X" /\ n.state = "GAME_WAITING"
      /\ n.result_player_x = "RESULT_NONE" /\ n.result_player_o = "RESULT_NONE"
      /\ n.player_x_socket = owner
      /\ n.player_o_socket = NoSocket
      /\ n.waiting_player_socket = NoSocket
  BY <1>1, ReopenedFields
<1>5. /\ ended \in Game /\ ended.state = "GAME_FINISHED"
      /\ ended.board = a.board /\ ended.current_turn = a.current_turn
      /\ ended.result_player_x = a.result_player_x
      /\ ended.result_player_o = a.result_player_o
      /\ ended.player_x_socket = a.player_x_socket
      /\ ended.player_o_socket = a.player_o_socket
      /\ ended.waiting_player_socket = a.waiting_player_socket
  BY <1>1 DEF Game, GameStates
<1>6. CASE IsDraw(g)
  <2>1. PostGame(g, sock, wants) = handle_draw_post_game(a)
    BY <1>6 DEF PostGame, a
  <2> DEFINE reset(n) == [n EXCEPT !.post_game_x_received = FALSE,
                                   !.post_game_o_received = FALSE]
             h == handle_draw_post_game(a).game
  <2> SUFFICES PostGameOutcome(g, sock, h)
    BY <2>1
  <2>2. \A n \in Game : /\ reset(n).board = n.board
                        /\ reset(n).current_turn = n.current_turn
                        /\ reset(n).state = n.state
                        /\ reset(n).result_player_x = n.result_player_x
                        /\ reset(n).result_player_o = n.result_player_o
                        /\ reset(n).player_x_socket = n.player_x_socket
                        /\ reset(n).player_o_socket = n.player_o_socket
                        /\ reset(n).waiting_player_socket = n.waiting_player_socket
    BY DEF Game
  <2>3. h \in {a, reset(restarted), reset(forx), reset(foro), reset(ended)}
    <3> HIDE DEF restarted, forx, foro, ended
    <3>1. handle_draw_post_game(a).game =
            IF a.post_game_x_received /\ a.post_game_o_received
            THEN reset(CASE a.post_game_x_continue /\ a.post_game_o_continue -> restarted
                         [] a.post_game_x_continue /\ ~a.post_game_o_continue -> forx
                         [] ~a.post_game_x_continue /\ a.post_game_o_continue -> foro
                         [] OTHER -> ended)
            ELSE a
      BY DEF handle_draw_post_game, restarted, forx, foro, ended
    <3> HIDE DEF reset
    <3> QED BY <3>1
  <2> HIDE DEF reset, h, restarted, ended
  <2>4. CASE h = a
    BY <1>1, <2>4 DEF PostGameOutcome
  <2>5. CASE h = reset(restarted)
    BY <1>1, <1>3, <1>6, <2>2, <2>5 DEF PostGameOutcome
  <2>6. CASE h \in {reset(forx), reset(foro)}
    BY <1>1, <1>2, <1>4, <1>6, <2>2, <2>6 DEF PostGameOutcome
  <2>7. CASE h = reset(ended)
    BY <1>1, <1>5, <1>6, <2>2, <2>7 DEF PostGameOutcome
  <2> QED BY <2>3, <2>4, <2>5, <2>6, <2>7
<1>7. CASE ~IsDraw(g)
  <2> DEFINE h == handle_win_post_game(a, sock, wants).game
  <2>1. PostGame(g, sock, wants).game = h
    BY <1>7 DEF PostGame, a
  <2>2. CASE a.result_player_x = "RESULT_WIN"
    <3>1. h = IF sock = a.player_o_socket THEN a ELSE IF wants THEN forx ELSE ended
      BY <2>2 DEF handle_win_post_game
    <3> HIDE DEF h, ended
    <3> QED BY <1>1, <1>2, <1>4, <1>5, <1>7, <2>1, <2>2, <3>1 DEF PostGameOutcome
  <2>3. CASE a.result_player_x # "RESULT_WIN"
    <3>1. h = IF sock = a.player_x_socket THEN a ELSE IF wants THEN foro ELSE ended
      BY <2>3 DEF handle_win_post_game
    <3> HIDE DEF h, ended
    <3> QED BY <1>1, <1>2, <1>4, <1>5, <1>7, <2>1, <2>3, <3>1 DEF PostGameOutcome
  <2> QED BY <2>2, <2>3
<1> QED
  BY <1>6, <1>7

(* A post-game decision by a seated player keeps a game sound, also when it *)
(* comes while the game is waiting or in progress.                          *)
LEMMA PostGameSound ==
  ASSUME NEW g \in Game, NEW sock \in Sockets, NEW wants \in BOOLEAN,
         Sound(g), Seated(g, sock)
  PROVE  Sound(PostGame(g, sock, wants).game)
<1> DEFINE h == PostGame(g, sock, wants).game
<1>1. PostGameOutcome(g, sock, h)
  BY PostGameCases
<1> HIDE DEF h
<1>2. IsDraw(g) => g.state = "GAME_FINISHED"
  BY DEF Sound, OutcomeFits, IsDraw
<1>3. g.result_player_x = "RESULT_WIN" => g.state = "GAME_FINISHED"
  BY DEF Sound, OutcomeFits
<1>4. sock # g.player_x_socket => g.state # "GAME_WAITING"
  BY SocketAssumption DEF Sound, OpenSeat, Seated
<1>5. OpenSeat(h)
  BY <1>1, <1>2, <1>3, <1>4 DEF PostGameOutcome, Sound, OpenSeat
<1>6. OutcomeFits(h)
  BY <1>1, <1>2, <1>3, <1>4, EmptyBoardIsOpen DEF PostGameOutcome, Sound, OutcomeFits
<1> QED
  BY <1>5, <1>6 DEF Sound, h

-----------------------------------------------------------------------------
(* Counting marks. *)

(* The marks of one player form a finite set. *)
LEMMA MarkedFinite ==
  ASSUME NEW b, NEW mark
  PROVE  IsFiniteSet(Marked(b, mark)) /\ Cardinality(Marked(b, mark)) \in Nat
BY CellsAssumption, FS_Subset, FS_CardinalityType DEF Marked

(* Placing a mark on a free cell adds one mark of that player and none of   *)
(* the other.                                                               *)
LEMMA PlacingCounts ==
  ASSUME NEW b \in [Cells -> Marks], NEW c \in Cells, b[c] = " ",
         NEW m \in {"X", "O"}, NEW other \in {"X", "O"}, other # m
  PROVE  LET n == [b EXCEPT ![c] = m] IN
         /\ Cardinality(Marked(n, m)) = Cardinality(Marked(b, m)) + 1
         /\ Cardinality(Marked(n, other)) = Cardinality(Marked(b, other))
<1> DEFINE n == [b EXCEPT ![c] = m]
<1>1. Marked(n, m) = Marked(b, m) \cup {c}
  BY DEF Marked
<1>2. c \notin Marked(b, m)
  BY DEF Marked
<1>3. Marked(n, other) = Marked(b, other)
  BY DEF Marked
<1>4. Cardinality(Marked(b, m) \cup {c}) = Cardinality(Marked(b, m)) + 1
  BY <1>2, MarkedFinite, FS_AddElement
<1> QED
  BY <1>1, <1>3, <1>4

(* An empty board with X to move fits. *)
LEMMA EmptyTurnFits ==
  ASSUME NEW g, g.board = EmptyBoard, g.current_turn = "PLAYER_X"
  PROVE  TurnFits(g)
<1>1. Marked(EmptyBoard, "X") = {} /\ Marked(EmptyBoard, "O") = {}
  BY DEF Marked, EmptyBoard
<1> QED
  BY <1>1, FS_EmptySet DEF TurnFits

(* A move keeps turn and board in step. *)
LEMMA MovedTurnFits ==
  ASSUME NEW g \in Game, NEW sock, NEW c \in Cells, TurnFits(g), CanMove(g, sock, c)
  PROVE  TurnFits(Moved(g, sock, c))
<1> DEFINE p == Placed(g, sock, c)
           b == g.board
           n == [b EXCEPT ![c] = Mark(g.current_turn)]
<1>1. p \in Game /\ p.board = n /\ p.current_turn = Opponent(g.current_turn)
  BY PlacedFields
<1>2. b \in [Cells -> Marks] /\ b[c] = " " /\ g.current_turn \in Players
  BY DEF Game, CanMove
<1> HIDE DEF p
<1>3. TurnFits(p)
  <2>1. /\ Cardinality(Marked(b, "X")) \in Nat /\ Cardinality(Marked(b, "O")) \in Nat
    BY MarkedFinite
  <2>2. CASE g.current_turn = "PLAYER_X"
    <3>1. n = [b EXCEPT ![c] = "X"] /\ p.current_turn = "PLAYER_O"
      BY <1>1, <2>2 DEF Mark, Opponent
    <3>2. /\ Cardinality(Marked(n, "X")) = Cardinality(Marked(b, "X")) + 1
          /\ Cardinality(Marked(n, "O")) = Cardinality(Marked(b, "O"))
      <4> HIDE DEF b, n
      <4> QED BY <1>2, <3>1, PlacingCounts
    <3> QED BY <1>1, <2>1, <2>2, <3>1, <3>2 DEF TurnFits
  <2>3. CASE g.current_turn = "PLAYER_O"
    <3>1. n = [b EXCEPT ![c] = "O"] /\ p.current_turn = "PLAYER_X"
      BY <1>1, <2>3 DEF Mark, Opponent
    <3>2. /\ Cardinality(Marked(n, "O")) = Cardinality(Marked(b, "O")) + 1
          /\ Cardinality(Marked(n, "X")) = Cardinality(Marked(b, "X"))
      <4> HIDE DEF b, n
      <4> QED BY <1>2, <3>1, PlacingCounts
    <3> QED BY <1>1, <2>1, <2>3, <3>1, <3>2 DEF TurnFits
  <2> QED BY <1>2, <2>2, <2>3 DEF Players
<1>4. \A winner \in {"PLAYER_X", "PLAYER_O", "RESULT_DRAW"} :
        /\ game_finalize(p, winner).board = p.board
        /\ game_finalize(p, winner).current_turn = p.current_turn
  BY <1>1, FinalizedFields
<1>5. Moved(g, sock, c) = p \/ \E winner \in {"PLAYER_X", "PLAYER_O", "RESULT_DRAW"} :
                                 Moved(g, sock, c) = game_finalize(p, winner)
  BY CheckWinnerRange DEF Moved, p
<1> QED
  BY <1>3, <1>4, <1>5 DEF TurnFits

(* Joins, decisions, leaves and post-game decisions keep them in step. *)
LEMMA OthersTurnFit ==
  ASSUME NEW g \in Game, TurnFits(g)
  PROVE  /\ \A sock \in Sockets : TurnFits(Joined(g, sock)) /\ TurnFits(Left(g, sock))
         /\ \A accepted \in BOOLEAN : TurnFits(Decided(g, accepted))
         /\ \A sock \in Sockets, wants \in BOOLEAN : TurnFits(PostGame(g, sock, wants).game)
<1>1. ASSUME NEW h, h.board = g.board, h.current_turn = g.current_turn
      PROVE  TurnFits(h)
  BY <1>1 DEF TurnFits
<1>2. ASSUME NEW sock \in Sockets
      PROVE  /\ Joined(g, sock).board = g.board /\ Joined(g, sock).current_turn = g.current_turn
             /\ Left(g, sock).board = g.board /\ Left(g, sock).current_turn = g.current_turn
  BY DEF Joined, Left, Game
<1>3. ASSUME NEW accepted \in BOOLEAN
      PROVE  /\ Decided(g, accepted).board = g.board
             /\ Decided(g, accepted).current_turn = g.current_turn
  BY DEF Decided, Game
<1>4. ASSUME NEW sock \in Sockets, NEW wants \in BOOLEAN
      PROVE  TurnFits(PostGame(g, sock, wants).game)
  BY <1>1, EmptyTurnFits, PostGameCases DEF PostGameOutcome
<1> QED
  BY <1>1, <1>2, <1>3, <1>4

-----------------------------------------------------------------------------
(* The table of games. *)

IInv == /\ TypeOK
        /\ PendingJoinIsOpen
        /\ TurnMatchesBoard
        /\ OutcomeMatchesBoard

\* One game is replaced by another; the table is otherwise as it was.
Replace(id, h) == games' = [games EXCEPT ![id] = h] /\ UNCHANGED next_game_id

(* What any step does to the table: it adds a new game under a new id,      *)
(* replaces one game by the result of an operation its guard allows, or     *)
(* removes one game.                                                        *)
LEMMA StepCases ==
  ASSUME TypeOK, Next
  PROVE  \/ \E sock \in Sockets, name \in Names :
              game_manager_create_game(sock, name)
         \/ \E id \in DOMAIN games, sock \in Sockets :
              CanJoin(games[id]) /\ Replace(id, Joined(games[id], sock))
         \/ \E id \in DOMAIN games, accepted \in BOOLEAN :
              CanDecide(games[id]) /\ Replace(id, Decided(games[id], accepted))
         \/ \E id \in DOMAIN games, sock \in Sockets, c \in Cells :
              CanMove(games[id], sock, c) /\ Replace(id, Moved(games[id], sock, c))
         \/ \E id \in DOMAIN games, sock \in Sockets :
              /\ CanLeave(games[id], sock) /\ ~Deserted(Left(games[id], sock))
              /\ Replace(id, Left(games[id], sock))
         \/ \E id \in DOMAIN games :
              games' = Without(id) /\ UNCHANGED next_game_id
         \/ \E id \in DOMAIN games, sock \in Sockets, wants \in BOOLEAN :
              Seated(games[id], sock) /\ Replace(id, PostGame(games[id], sock, wants).game)
<1>1. CASE \E sock \in Sockets, name \in Names : game_manager_create_game(sock, name)
  BY <1>1
<1>2. CASE \E id \in GameIds, sock \in Sockets : game_manager_join_game(id, sock)
  BY <1>2 DEF game_manager_join_game, Replace
<1>3. CASE \E id \in GameIds, accepted \in BOOLEAN : game_manager_join_decision(id, accepted)
  BY <1>3 DEF game_manager_join_decision, Replace
<1>4. CASE \E id \in GameIds, sock \in Sockets, c \in Cells : game_manager_move(id, sock, c)
  BY <1>4 DEF game_manager_move, Replace
<1>5. CASE \E id \in GameIds, sock \in Sockets : game_manager_leave_game(id, sock)
  <2>1. PICK id \in GameIds, sock \in Sockets : game_manager_leave_game(id, sock)
    BY <1>5
  <2> QED BY <2>1 DEF game_manager_leave_game, Replace
<1>6. CASE \E id \in GameIds, sock \in Sockets, wants \in BOOLEAN :
             game_manager_post_game_decision(id, sock, wants)
  BY <1>6 DEF game_manager_post_game_decision, Replace
<1> QED
  BY <1>1, <1>2, <1>3, <1>4, <1>5, <1>6 DEF Next

(* Replacing a game by a sound one keeps the invariant. *)
LEMMA ReplaceKeepsIInv ==
  ASSUME IInv, NEW id \in DOMAIN games, NEW h \in Game, Sound(h), TurnFits(h), Replace(id, h)
  PROVE  IInv'
<1>1. /\ DOMAIN games' = DOMAIN games
      /\ games' \in [DOMAIN games -> Game]
      /\ games'[id] = h
      /\ \A k \in DOMAIN games : k # id => games'[k] = games[k]
      /\ next_game_id' = next_game_id
  BY DEF Replace, IInv, TypeOK
<1>2. TypeOK'
  BY <1>1 DEF IInv, TypeOK
<1>3. \A k \in DOMAIN games' : OpenSeat(games'[k]) /\ TurnFits(games'[k]) /\ OutcomeFits(games'[k])
  BY <1>1 DEF IInv, PendingJoinIsOpen, TurnMatchesBoard, OutcomeMatchesBoard, Sound
<1> QED
  BY <1>2, <1>3 DEF IInv, PendingJoinIsOpen, TurnMatchesBoard, OutcomeMatchesBoard

(* The invariant is inductive. *)
LEMMA IInvInductive == IInv /\ [Next]_vars => IInv'
<1> SUFFICES ASSUME IInv, [Next]_vars PROVE IInv'
  OBVIOUS
<1>1. CASE UNCHANGED vars
  BY <1>1 DEF vars, IInv, TypeOK, PendingJoinIsOpen, TurnMatchesBoard, OutcomeMatchesBoard
<1>2. CASE Next
  <2>1. /\ \A id \in DOMAIN games :
             games[id] \in Game /\ Sound(games[id]) /\ TurnFits(games[id])
        /\ TypeOK
    BY DEF IInv, TypeOK, PendingJoinIsOpen, TurnMatchesBoard, OutcomeMatchesBoard, Sound
  <2>2. CASE \E sock \in Sockets, name \in Names : game_manager_create_game(sock, name)
    <3>1. PICK sock \in Sockets, name \in Names : game_manager_create_game(sock, name)
      BY <2>2
    <3> DEFINE h == NewGame(sock, name)
    <3>2. h \in Game /\ Sound(h) /\ TurnFits(h)
      BY NewGameType, NewGameSound, EmptyTurnFits DEF NewGame
    <3> HIDE DEF h
    <3>3. /\ next_game_id' = next_game_id + 1 /\ next_game_id \in 0..(MaxGames - 1)
          /\ DOMAIN games' = DOMAIN games \cup {next_game_id}
          /\ games' = [k \in DOMAIN games' |-> IF k = next_game_id THEN h ELSE games[k]]
      BY <2>1, <3>1, MaxGamesAssumption DEF game_manager_create_game, TypeOK, h
    <3>4. \A k \in DOMAIN games' : \/ k = next_game_id /\ games'[k] = h
                                   \/ k \in DOMAIN games /\ games'[k] = games[k]
      BY <3>3
    <3>5. TypeOK'
      BY <2>1, <3>2, <3>3, MaxGamesAssumption DEF TypeOK
    <3>6. \A k \in DOMAIN games' : Sound(games'[k]) /\ TurnFits(games'[k])
      BY <2>1, <3>2, <3>4
    <3> QED BY <3>5, <3>6 DEF IInv, PendingJoinIsOpen, TurnMatchesBoard, OutcomeMatchesBoard, Sound
  <2>3. CASE \E id \in DOMAIN games, sock \in Sockets :
               CanJoin(games[id]) /\ Replace(id, Joined(games[id], sock))
    BY <2>1, <2>3, JoinedType, JoinedSound, OthersTurnFit, ReplaceKeepsIInv
  <2>4. CASE \E id \in DOMAIN games, accepted \in BOOLEAN :
               CanDecide(games[id]) /\ Replace(id, Decided(games[id], accepted))
    BY <2>1, <2>4, DecidedType, DecidedSound, OthersTurnFit, ReplaceKeepsIInv
  <2>5. CASE \E id \in DOMAIN games, sock \in Sockets, c \in Cells :
               CanMove(games[id], sock, c) /\ Replace(id, Moved(games[id], sock, c))
    BY <2>1, <2>5, MovedType, MovedSound, MovedTurnFits, ReplaceKeepsIInv
  <2>6. CASE \E id \in DOMAIN games, sock \in Sockets :
               /\ CanLeave(games[id], sock) /\ ~Deserted(Left(games[id], sock))
               /\ Replace(id, Left(games[id], sock))
    BY <2>1, <2>6, LeftType, LeftSound, OthersTurnFit, ReplaceKeepsIInv
  <2>7. CASE \E id \in DOMAIN games : games' = Without(id) /\ UNCHANGED next_game_id
    <3>1. /\ DOMAIN games' \subseteq DOMAIN games
          /\ \A k \in DOMAIN games' : games'[k] = games[k]
          /\ games' = [k \in DOMAIN games' |-> games'[k]]
          /\ next_game_id' = next_game_id
      BY <2>7 DEF Without
    <3>2. TypeOK'
      BY <2>1, <3>1 DEF TypeOK
    <3>3. \A k \in DOMAIN games' : Sound(games'[k]) /\ TurnFits(games'[k])
      BY <2>1, <3>1
    <3> QED BY <3>2, <3>3 DEF IInv, PendingJoinIsOpen, TurnMatchesBoard, OutcomeMatchesBoard, Sound
  <2>8. CASE \E id \in DOMAIN games, sock \in Sockets, wants \in BOOLEAN :
               Seated(games[id], sock) /\ Replace(id, PostGame(games[id], sock, wants).game)
    BY <2>1, <2>8, PostGameType, PostGameSound, OthersTurnFit, ReplaceKeepsIInv
  <2> QED BY <1>2, <2>1, <2>2, <2>3, <2>4, <2>5, <2>6, <2>7, <2>8, StepCases
<1> QED
  BY <1>1, <1>2

(* The invariant holds in every reachable state, for every caller and every *)
(* order of calls.                                                          *)
THEOREM Invariance == Spec => []IInv
<1>1. Init => IInv
  BY MaxGamesAssumption DEF Init, IInv, TypeOK, PendingJoinIsOpen, TurnMatchesBoard, OutcomeMatchesBoard
<1> QED
  BY <1>1, IInvInductive, PTL DEF Spec

(* Every listed game is a well-formed record under an id handed out before. *)
THEOREM TypeCorrect == Spec => []TypeOK
<1>1. IInv => TypeOK
  BY DEF IInv
<1> QED
  BY <1>1, Invariance, PTL

(* A pending joiner always finds the game waiting and its O seat free, so   *)
(* accepting it (game.c:316-323) never unseats a player.                    *)
THEOREM JoinSafety == Spec => []PendingJoinIsOpen
<1>1. IInv => PendingJoinIsOpen
  BY DEF IInv
<1> QED
  BY <1>1, Invariance, PTL

(* Turn flag and board agree on every board, in every status of a game.     *)
THEOREM TurnSafety == Spec => []TurnMatchesBoard
<1>1. IInv => TurnMatchesBoard
  BY DEF IInv
<1> QED
  BY <1>1, Invariance, PTL

(* The stored results are those of the position, for every set of lines.    *)
THEOREM OutcomeSafety == Spec => []OutcomeMatchesBoard
<1>1. IInv => OutcomeMatchesBoard
  BY DEF IInv
<1> QED
  BY <1>1, Invariance, PTL

-----------------------------------------------------------------------------
(* What one step may do to a game that stays in the table. *)

GameStep(g, h) == BoardStepOf(g, h) /\ SeatStepOf(g, h) /\ WinnerStepOf(g, h)

(* Joins, decisions, moves and leaves change a sound game as promised.      *)
LEMMA ManagerGameStep ==
  ASSUME NEW g \in Game, Sound(g)
  PROVE  /\ GameStep(g, g)
         /\ \A sock \in Sockets : CanJoin(g) => GameStep(g, Joined(g, sock))
         /\ \A accepted \in BOOLEAN : CanDecide(g) => GameStep(g, Decided(g, accepted))
         /\ \A sock \in Sockets : GameStep(g, Left(g, sock))
<1>1. "RESULT_WIN" \in {g.result_player_x, g.result_player_o} => g.state = "GAME_FINISHED"
  BY DEF Sound, OutcomeFits
<1>2. GameStep(g, g)
  BY <1>1 DEF GameStep, BoardStepOf, SeatStepOf, WinnerStepOf
<1>3. ASSUME NEW sock \in Sockets, CanJoin(g)
      PROVE  GameStep(g, Joined(g, sock))
  BY <1>1, <1>3 DEF GameStep, BoardStepOf, SeatStepOf, WinnerStepOf, Joined, CanJoin, Game
<1>4. ASSUME NEW accepted \in BOOLEAN, CanDecide(g)
      PROVE  GameStep(g, Decided(g, accepted))
  <2>1. g.state = "GAME_WAITING" /\ g.player_o_socket = NoSocket
    BY <1>4 DEF Sound, OpenSeat, CanDecide
  <2> QED BY <1>1, <2>1 DEF GameStep, BoardStepOf, SeatStepOf, WinnerStepOf, Decided, Game
<1>5. ASSUME NEW sock \in Sockets
      PROVE  GameStep(g, Left(g, sock))
  BY <1>1 DEF GameStep, BoardStepOf, SeatStepOf, WinnerStepOf, Left, Game
<1> QED
  BY <1>2, <1>3, <1>4, <1>5

(* A move places the one mark of the player to move and moves nobody.       *)
LEMMA MovedGameStep ==
  ASSUME NEW g \in Game, Sound(g), NEW sock, NEW c \in Cells, CanMove(g, sock, c)
  PROVE  GameStep(g, Moved(g, sock, c))
<1> DEFINE p == Placed(g, sock, c)
           h == Moved(g, sock, c)
<1>1. /\ p \in Game
      /\ p.board = [g.board EXCEPT ![c] = Mark(g.current_turn)]
      /\ p.current_turn = Opponent(g.current_turn)
      /\ p.player_x_socket = g.player_x_socket
      /\ p.player_o_socket = g.player_o_socket
  BY PlacedFields
<1>2. h = p \/ \E winner \in {"PLAYER_X", "PLAYER_O", "RESULT_DRAW"} : h = game_finalize(p, winner)
  BY CheckWinnerRange DEF Moved
<1> HIDE DEF p, h
<1>3. /\ h.board = p.board /\ h.current_turn = p.current_turn
      /\ h.player_x_socket = p.player_x_socket /\ h.player_o_socket = p.player_o_socket
  BY <1>1, <1>2, FinalizedFields
<1>4. g.state = "GAME_IN_PROGRESS" /\ g.board[c] = " "
  BY DEF CanMove
<1>5. "RESULT_WIN" \notin {g.result_player_x, g.result_player_o}
  BY <1>4 DEF Sound, OutcomeFits
<1> QED
  BY <1>1, <1>3, <1>4, <1>5 DEF GameStep, BoardStepOf, SeatStepOf, WinnerStepOf, h

(* A post-game decision reopens a won game for its winner only.             *)
LEMMA PostGameGameStep ==
  ASSUME NEW g \in Game, Sound(g), NEW sock \in Sockets, NEW wants \in BOOLEAN,
         Seated(g, sock)
  PROVE  GameStep(g, PostGame(g, sock, wants).game)
<1> DEFINE h == PostGame(g, sock, wants).game
<1>1. PostGameOutcome(g, sock, h)
  BY PostGameCases
<1> HIDE DEF h
<1>2. sock # NoSocket /\ (sock = g.player_x_socket \/ sock = g.player_o_socket)
  BY SocketAssumption DEF Seated
<1>3. "RESULT_WIN" \in {g.result_player_x, g.result_player_o} =>
        /\ g.state = "GAME_FINISHED" /\ ~IsDraw(g)
  BY DEF Sound, OutcomeFits, IsDraw
<1>4. BoardStepOf(g, h)
  BY <1>1 DEF PostGameOutcome, BoardStepOf
<1>5. SeatStepOf(g, h)
  BY <1>1 DEF PostGameOutcome, SeatStepOf
<1>6. WinnerStepOf(g, h)
  BY <1>1, <1>2, <1>3 DEF PostGameOutcome, WinnerStepOf
<1> QED
  BY <1>4, <1>5, <1>6 DEF GameStep, h

(* Every step of the manager changes every game that stays as promised, and *)
(* adds games under fresh ids only.                                         *)
LEMMA TableStep ==
  ASSUME IInv, [Next]_vars
  PROVE  /\ \A id \in DOMAIN games \cap DOMAIN games' : GameStep(games[id], games'[id])
         /\ \A id \in DOMAIN games' \ DOMAIN games : id >= next_game_id /\ id < next_game_id'
<1>1. /\ \A id \in DOMAIN games : games[id] \in Game /\ Sound(games[id])
      /\ TypeOK
  BY DEF IInv, TypeOK, PendingJoinIsOpen, OutcomeMatchesBoard, Sound
<1>2. \A id \in DOMAIN games : GameStep(games[id], games[id])
  BY <1>1, ManagerGameStep
<1>3. ASSUME NEW id \in DOMAIN games, NEW h, Replace(id, h), GameStep(games[id], h)
      PROVE  /\ DOMAIN games' = DOMAIN games
             /\ \A k \in DOMAIN games : GameStep(games[k], games'[k])
  BY <1>2, <1>3 DEF Replace
<1>4. CASE UNCHANGED vars
  BY <1>2, <1>4 DEF vars
<1>5. CASE Next
  <2>1. CASE \E sock \in Sockets, name \in Names : game_manager_create_game(sock, name)
    <3>1. /\ DOMAIN games' = DOMAIN games \cup {next_game_id}
          /\ next_game_id' = next_game_id + 1 /\ next_game_id \in Nat
          /\ \A k \in DOMAIN games : k # next_game_id => games'[k] = games[k]
      BY <1>1, <2>1 DEF game_manager_create_game, TypeOK
    <3>2. next_game_id \notin DOMAIN games
      BY <1>1 DEF TypeOK
    <3> QED BY <1>2, <3>1, <3>2
  <2>2. CASE \E id \in DOMAIN games, sock \in Sockets :
               CanJoin(games[id]) /\ Replace(id, Joined(games[id], sock))
    BY <1>1, <1>3, <2>2, ManagerGameStep
  <2>3. CASE \E id \in DOMAIN games, accepted \in BOOLEAN :
               CanDecide(games[id]) /\ Replace(id, Decided(games[id], accepted))
    BY <1>1, <1>3, <2>3, ManagerGameStep
  <2>4. CASE \E id \in DOMAIN games, sock \in Sockets, c \in Cells :
               CanMove(games[id], sock, c) /\ Replace(id, Moved(games[id], sock, c))
    BY <1>1, <1>3, <2>4, MovedGameStep
  <2>5. CASE \E id \in DOMAIN games, sock \in Sockets :
               CanLeave(games[id], sock) /\ Replace(id, Left(games[id], sock))
    BY <1>1, <1>3, <2>5, ManagerGameStep
  <2>6. CASE \E id \in DOMAIN games : games' = Without(id) /\ UNCHANGED next_game_id
    BY <1>2, <2>6 DEF Without
  <2>7. CASE \E id \in DOMAIN games, sock \in Sockets, wants \in BOOLEAN :
               Seated(games[id], sock) /\ Replace(id, PostGame(games[id], sock, wants).game)
    BY <1>1, <1>3, <2>7, PostGameGameStep
  <2> QED BY <1>1, <1>5, <2>1, <2>2, <2>3, <2>4, <2>5, <2>6, <2>7, StepCases
<1> QED
  BY <1>4, <1>5

(* On every board, for every caller: marks are placed one at a time by the  *)
(* player to move, and never changed except by clearing the whole board.    *)
THEOREM BoardStepProved == Spec => BoardStep
<1>1. IInv /\ [Next]_vars => [\A id \in DOMAIN games \cap DOMAIN games' :
                                BoardStepOf(games[id], games'[id])]_vars
  BY TableStep DEF GameStep
<1> QED
  BY <1>1, Invariance, PTL DEF Spec, BoardStep

(* Seats are only ever filled in the order joiner, player O, player X.      *)
THEOREM SeatStepProved == Spec => SeatStep
<1>1. IInv /\ [Next]_vars => [\A id \in DOMAIN games \cap DOMAIN games' :
                                SeatStepOf(games[id], games'[id])]_vars
  BY TableStep DEF GameStep
<1> QED
  BY <1>1, Invariance, PTL DEF Spec, SeatStep

(* A won game is reopened for its winner only.                              *)
THEOREM WinnerContinuesProved == Spec => WinnerContinues
<1>1. IInv /\ [Next]_vars => [\A id \in DOMAIN games \cap DOMAIN games' :
                                WinnerStepOf(games[id], games'[id])]_vars
  BY TableStep DEF GameStep
<1> QED
  BY <1>1, Invariance, PTL DEF Spec, WinnerContinues

(* No id is given to a second game, for any bound on the number of games.   *)
THEOREM IdsNeverReusedProved == Spec => IdsNeverReused
<1>1. IInv /\ [Next]_vars => [\A id \in DOMAIN games' \ DOMAIN games :
                                id >= next_game_id /\ id < next_game_id']_vars
  BY TableStep
<1> QED
  BY <1>1, Invariance, PTL DEF Spec, IdsNeverReused

-----------------------------------------------------------------------------
(* Games nobody sits in. *)

\* What OrphanIsOpen says of one game, beside PendingJoinIsOpen.
Orphan(g) == Deserted(g) => g.state = "GAME_WAITING"

(* Whoever may make a call on a game leaves it with somebody in a seat or   *)
(* waiting for players.                                                     *)
LEMMA OperationsKeepOrphan ==
  ASSUME NEW g \in Game, Sound(g), NEW sock \in Sockets
  PROVE  /\ CanJoin(g) => Orphan(Joined(g, sock))
         /\ \A accepted \in BOOLEAN : CanDecide(g) => Orphan(Decided(g, accepted))
         /\ \A c \in Cells : CanMove(g, sock, c) => Orphan(Moved(g, sock, c))
         /\ \A wants \in BOOLEAN : Seated(g, sock) => Orphan(PostGame(g, sock, wants).game)
<1>1. CanJoin(g) => Orphan(Joined(g, sock))
  BY DEF CanJoin, Joined, Orphan, Game
<1>2. \A accepted \in BOOLEAN : CanDecide(g) => Orphan(Decided(g, accepted))
  BY DEF CanDecide, Decided, Orphan, Deserted, Sound, OpenSeat, Game
<1>3. ASSUME NEW c \in Cells, CanMove(g, sock, c)
      PROVE  Orphan(Moved(g, sock, c))
  <2> DEFINE p == Placed(g, sock, c)
  <2>1. p.player_x_socket = g.player_x_socket /\ p.player_o_socket = g.player_o_socket
    BY DEF Placed, Game
  <2>2. Moved(g, sock, c).player_x_socket = g.player_x_socket
        /\ Moved(g, sock, c).player_o_socket = g.player_o_socket
    BY <2>1, PlacedType, <1>3 DEF Moved, game_finalize, Game
  <2> QED BY <1>3, <2>2, SocketAssumption DEF CanMove, Seated, Orphan, Deserted
<1>4. ASSUME NEW wants \in BOOLEAN, Seated(g, sock)
      PROVE  Orphan(PostGame(g, sock, wants).game)
  <2> DEFINE h == PostGame(g, sock, wants).game
  <2>1. PostGameOutcome(g, sock, h)
    BY PostGameCases
  <2> HIDE DEF h
  <2>2. Orphan(h)
    BY <1>4, <2>1, SocketAssumption DEF PostGameOutcome, Seated, Orphan, Deserted
  <2> QED BY <2>2 DEF h
<1> QED
  BY <1>1, <1>2, <1>3, <1>4

(* A game that nobody sits in is open to joiners, on whatever path it came  *)
(* to be empty without having been freed.                                   *)
THEOREM OrphanSafety == Spec => []OrphanIsOpen
<1> DEFINE Orphans == \A id \in DOMAIN games : Orphan(games[id])
<1>1. Init => Orphans
  BY DEF Init
<1>2. IInv /\ Orphans /\ [Next]_vars => Orphans'
  <2> SUFFICES ASSUME IInv, Orphans, [Next]_vars PROVE Orphans'
    OBVIOUS
  <2>1. /\ \A id \in DOMAIN games : games[id] \in Game /\ Sound(games[id]) /\ Orphan(games[id])
        /\ TypeOK
    BY DEF IInv, TypeOK, PendingJoinIsOpen, OutcomeMatchesBoard, Sound
  <2>2. ASSUME NEW id \in DOMAIN games, NEW h, Replace(id, h), Orphan(h)
        PROVE  Orphans'
    BY <2>1, <2>2 DEF Replace
  <2>3. CASE UNCHANGED vars
    BY <2>1, <2>3 DEF vars
  <2>4. CASE Next
    <3>1. CASE \E sock \in Sockets, name \in Names : game_manager_create_game(sock, name)
      <4>1. PICK sock \in Sockets, name \in Names : game_manager_create_game(sock, name)
        BY <3>1
      <4>2. Orphan(NewGame(sock, name))
        BY DEF NewGame, Orphan
      <4> QED BY <2>1, <4>1, <4>2 DEF game_manager_create_game
    <3>2. CASE \E id \in DOMAIN games, sock \in Sockets :
                 CanJoin(games[id]) /\ Replace(id, Joined(games[id], sock))
      BY <2>1, <2>2, <3>2, OperationsKeepOrphan
    <3>3. CASE \E id \in DOMAIN games, accepted \in BOOLEAN :
                 CanDecide(games[id]) /\ Replace(id, Decided(games[id], accepted))
      <4>1. PICK id \in DOMAIN games, accepted \in BOOLEAN :
                   CanDecide(games[id]) /\ Replace(id, Decided(games[id], accepted))
        BY <3>3
      <4>2. games[id].waiting_player_socket \in Sockets
        BY <2>1, <4>1 DEF CanDecide, Game, Seats
      <4>3. Orphan(Decided(games[id], accepted))
        BY <2>1, <4>1, <4>2, OperationsKeepOrphan
      <4> QED BY <2>2, <4>1, <4>3
    <3>4. CASE \E id \in DOMAIN games, sock \in Sockets, c \in Cells :
                 CanMove(games[id], sock, c) /\ Replace(id, Moved(games[id], sock, c))
      BY <2>1, <2>2, <3>4, OperationsKeepOrphan
    <3>5. CASE \E id \in DOMAIN games, sock \in Sockets :
                 /\ CanLeave(games[id], sock) /\ ~Deserted(Left(games[id], sock))
                 /\ Replace(id, Left(games[id], sock))
      BY <2>2, <3>5 DEF Orphan
    <3>6. CASE \E id \in DOMAIN games : games' = Without(id) /\ UNCHANGED next_game_id
      BY <2>1, <3>6 DEF Without
    <3>7. CASE \E id \in DOMAIN games, sock \in Sockets, wants \in BOOLEAN :
                 Seated(games[id], sock) /\ Replace(id, PostGame(games[id], sock, wants).game)
      BY <2>1, <2>2, <3>7, OperationsKeepOrphan
    <3> QED BY <2>1, <2>4, <3>1, <3>2, <3>3, <3>4, <3>5, <3>6, <3>7, StepCases
  <2> QED BY <2>3, <2>4
<1>3. Orphans => OrphanIsOpen
  BY DEF OrphanIsOpen, Orphan, Deserted, CanJoin
<1> QED
  BY <1>1, <1>2, <1>3, Invariance, PTL DEF Spec
=============================================================================
