-------------------------------- MODULE Game --------------------------------
(***************************************************************************)
(* One game of the server (server/src/game.c): the record `struct Game`    *)
(* and, as operators on that record, what each function of the game        *)
(* manager does to it inside the critical section protected by g->lock.    *)
(*                                                                         *)
(* The board is given by the constants Cells and Lines so that the same    *)
(* definitions run on the 3x3 board of the program and on smaller ones.    *)
(* Fields nothing in the program reads are left out                        *)
(* (waiting_player_username, winner_stays, the player_role kept by the     *)
(* server, whose copy in a message is overwritten by the sender).          *)
(***************************************************************************)
EXTENDS Integers, Sequences, FiniteSets

CONSTANTS
  Cells,    \* the cells of the board
  Lines,    \* sequence of the lines (sets of cells), in the order they are scanned
  Sockets,  \* descriptors a client connection can have
  NoSocket, \* the value -1 of a socket field
  Names     \* user names

ASSUME CellsAssumption  == IsFiniteSet(Cells) /\ Cells # {}
ASSUME LinesAssumption  == /\ Lines \in Seq(SUBSET Cells)
                           /\ \A i \in 1..Len(Lines) : Lines[i] # {}
ASSUME SocketAssumption == NoSocket \notin Sockets

\* GAME_NEW is declared by the protocol and never assigned.
GameStates  == {"GAME_WAITING", "GAME_IN_PROGRESS", "GAME_FINISHED"}
GameResults == {"RESULT_WIN", "RESULT_LOSS", "RESULT_DRAW", "RESULT_NONE"}
Players     == {"PLAYER_X", "PLAYER_O"}
Marks       == {" ", "X", "O"}
Seats       == Sockets \cup {NoSocket}

Game == [player_x_socket       : Seats,
         player_o_socket       : Seats,
         waiting_player_socket : Seats,
         owner_username        : Names,
         board                 : [Cells -> Marks],
         current_turn          : Players,
         state                 : GameStates,
         result_player_x       : GameResults,
         result_player_o       : GameResults,
         post_game_x_received  : BOOLEAN,
         post_game_o_received  : BOOLEAN,
         post_game_x_continue  : BOOLEAN,
         post_game_o_continue  : BOOLEAN]

\* The 3x3 board and its eight lines in the order game_check_winner tries them.
BoardCells == (0..2) \X (0..2)
Row(i) == {i} \X (0..2)
Col(i) == (0..2) \X {i}
BoardLines == <<Row(0), Col(0), Row(1), Col(1), Row(2), Col(2),
                {<<i, i>> : i \in 0..2}, {<<i, 2 - i>> : i \in 0..2}>>

EmptyBoard == [c \in Cells |-> " "]

Mark(player) == IF player = "PLAYER_X" THEN "X" ELSE "O"
Opponent(player) == IF player = "PLAYER_X" THEN "PLAYER_O" ELSE "PLAYER_X"

-----------------------------------------------------------------------------
(* game_manager_create_game: a calloc'ed record with the owner seated as X. *)
NewGame(sock, name) ==
  [player_x_socket       |-> sock,
   player_o_socket       |-> NoSocket,
   waiting_player_socket |-> NoSocket,
   owner_username        |-> name,
   board                 |-> EmptyBoard,
   current_turn          |-> "PLAYER_X",
   state                 |-> "GAME_WAITING",
   result_player_x       |-> "RESULT_NONE",
   result_player_o       |-> "RESULT_NONE",
   post_game_x_received  |-> FALSE,
   post_game_o_received  |-> FALSE,
   post_game_x_continue  |-> FALSE,
   post_game_o_continue  |-> FALSE]

(* game_manager_join_game *)
CanJoin(g) == /\ g.state = "GAME_WAITING"
              /\ g.player_o_socket = NoSocket
              /\ g.waiting_player_socket = NoSocket
Joined(g, sock) == [g EXCEPT !.waiting_player_socket = sock]

(* game_manager_join_decision: neither the caller nor the state is checked. *)
CanDecide(g) == g.waiting_player_socket # NoSocket

\* Mutant: the queue entry of an accepted joiner is kept.
DecidedKeepsWaiting(g, accepted) ==
  IF accepted
  THEN [g EXCEPT !.player_o_socket = g.waiting_player_socket, !.state = "GAME_IN_PROGRESS"]
  ELSE [g EXCEPT !.waiting_player_socket = NoSocket]

\* Mutant: the game of an accepted joiner is not started.
DecidedNotStarted(g, accepted) ==
  IF accepted
  THEN [g EXCEPT !.player_o_socket = g.waiting_player_socket,
                 !.waiting_player_socket = NoSocket]
  ELSE [g EXCEPT !.waiting_player_socket = NoSocket]

Decided(g, accepted) ==
  IF accepted
  THEN [g EXCEPT !.player_o_socket = g.waiting_player_socket,
                 !.waiting_player_socket = NoSocket,
                 !.state = "GAME_IN_PROGRESS"]
  ELSE [g EXCEPT !.waiting_player_socket = NoSocket]

-----------------------------------------------------------------------------
(* game_check_winner: the first complete line decides; otherwise the game   *)
(* goes on ("RESULT_NONE") while a cell is empty and is a draw after that.  *)
Complete(b, i) == \E mark \in {"X", "O"} : \A c \in Lines[i] : b[c] = mark

\* Mutant: the last line, the second diagonal, is not tried.
CompleteLinesButLast(b) == {i \in 1..(Len(Lines) - 1) : Complete(b, i)}

CompleteLines(b) == {i \in 1..Len(Lines) : Complete(b, i)}
FirstLine(b) == CHOOSE i \in CompleteLines(b) : \A j \in CompleteLines(b) : i <= j
LineMark(b, i) == b[CHOOSE c \in Lines[i] : TRUE]

game_check_winner(b) ==
  IF CompleteLines(b) # {}
  THEN IF LineMark(b, FirstLine(b)) = "X" THEN "PLAYER_X" ELSE "PLAYER_O"
  ELSE IF \E c \in Cells : b[c] = " " THEN "RESULT_NONE" ELSE "RESULT_DRAW"

game_finalize(g, winner) ==
  [g EXCEPT !.state = "GAME_FINISHED",
            !.result_player_x = CASE winner = "PLAYER_X" -> "RESULT_WIN"
                                  [] winner = "PLAYER_O" -> "RESULT_LOSS"
                                  [] OTHER               -> "RESULT_DRAW",
            !.result_player_o = CASE winner = "PLAYER_X" -> "RESULT_LOSS"
                                  [] winner = "PLAYER_O" -> "RESULT_WIN"
                                  [] OTHER               -> "RESULT_DRAW"]

(* game_manager_move: the X seat is tried first. *)
Seated(g, sock) == sock \in {g.player_x_socket, g.player_o_socket}
RoleOf(g, sock) == IF sock = g.player_x_socket THEN "PLAYER_X" ELSE "PLAYER_O"

\* Mutant: an occupied cell is not refused.
CanMoveAnywhere(g, sock, c) == /\ Seated(g, sock)
                               /\ g.state = "GAME_IN_PROGRESS"
                               /\ g.current_turn = RoleOf(g, sock)

CanMove(g, sock, c) == /\ Seated(g, sock)
                       /\ g.state = "GAME_IN_PROGRESS"
                       /\ g.board[c] = " "
                       /\ g.current_turn = RoleOf(g, sock)

Placed(g, sock, c) == [g EXCEPT !.board[c] = Mark(RoleOf(g, sock)),
                                !.current_turn = Opponent(RoleOf(g, sock))]

Moved(g, sock, c) ==
  LET placed == Placed(g, sock, c)
      winner == game_check_winner(placed.board)
  IN  IF winner = "RESULT_NONE" THEN placed ELSE game_finalize(placed, winner)

-----------------------------------------------------------------------------
(* game_manager_leave_game: the first of the three seats that holds the     *)
(* caller is vacated; a game with no seat taken is then freed.              *)
CanLeave(g, sock) == sock \in {g.player_x_socket, g.player_o_socket,
                               g.waiting_player_socket}
Left(g, sock) ==
  CASE sock = g.player_x_socket -> [g EXCEPT !.player_x_socket = NoSocket]
    [] sock # g.player_x_socket /\ sock = g.player_o_socket
         -> [g EXCEPT !.player_o_socket = NoSocket]
    [] OTHER -> [g EXCEPT !.waiting_player_socket = NoSocket]

Deserted(g) == /\ g.player_x_socket = NoSocket
               /\ g.player_o_socket = NoSocket
               /\ g.waiting_player_socket = NoSocket

(* The filter of game_manager_list_games. *)
Listed(g) == CanJoin(g)

-----------------------------------------------------------------------------
\* Mutant: whose turn it is is not reset.
ClearedSameTurn(g, state) == [g EXCEPT !.board = EmptyBoard,
                                       !.result_player_x = "RESULT_NONE",
                                       !.result_player_o = "RESULT_NONE",
                                       !.state = state]

(* Both post-game handlers reset the board the same way. *)
Cleared(g, state) == [g EXCEPT !.board = EmptyBoard,
                               !.current_turn = "PLAYER_X",
                               !.result_player_x = "RESULT_NONE",
                               !.result_player_o = "RESULT_NONE",
                               !.state = state]

(* One player stays: it becomes the X player of a game that waits again. *)
Reopened(g, owner) == [Cleared(g, "GAME_WAITING") EXCEPT
                         !.player_x_socket = owner,
                         !.player_o_socket = NoSocket,
                         !.waiting_player_socket = NoSocket]

handle_draw_post_game(g) ==
  LET both == g.post_game_x_received /\ g.post_game_o_received
      next == CASE g.post_game_x_continue /\ g.post_game_o_continue
                     -> Cleared(g, "GAME_IN_PROGRESS")
                [] g.post_game_x_continue /\ ~g.post_game_o_continue
                     -> Reopened(g, g.player_x_socket)
                [] ~g.post_game_x_continue /\ g.post_game_o_continue
                     -> Reopened(g, g.player_o_socket)
                [] OTHER -> [g EXCEPT !.state = "GAME_FINISHED"]
  IN  IF both
      THEN [game |-> [next EXCEPT !.post_game_x_received = FALSE,
                                  !.post_game_o_received = FALSE],
            both_decided |-> TRUE]
      ELSE [game |-> g, both_decided |-> FALSE]

\* Mutant: the winner is taken to be X.
WinPostGameForX(g, sock, wants) ==
  IF sock = g.player_o_socket
  THEN [game |-> g, both_decided |-> FALSE]
  ELSE [game |-> IF wants THEN Reopened(g, g.player_x_socket)
                          ELSE [g EXCEPT !.state = "GAME_FINISHED"],
        both_decided |-> TRUE]

(* Every game that is not a draw, an unfinished one included, takes this    *)
(* path, and a winner that is not X is taken to be O.                       *)
handle_win_post_game(g, sock, wants) ==
  LET x_won  == g.result_player_x = "RESULT_WIN"
      winner == IF x_won THEN g.player_x_socket ELSE g.player_o_socket
      loser  == IF x_won THEN g.player_o_socket ELSE g.player_x_socket
  IN  IF sock = loser
      THEN [game |-> g, both_decided |-> FALSE]
      ELSE [game |-> IF wants THEN Reopened(g, winner)
                              ELSE [g EXCEPT !.state = "GAME_FINISHED"],
            both_decided |-> TRUE]

(* game_manager_post_game_decision: only the seat of the caller is checked. *)
Answered(g, sock, wants) ==
  IF sock = g.player_x_socket
  THEN [g EXCEPT !.post_game_x_received = TRUE, !.post_game_x_continue = wants]
  ELSE [g EXCEPT !.post_game_o_received = TRUE, !.post_game_o_continue = wants]

IsDraw(g) == g.result_player_x = "RESULT_DRAW" /\ g.result_player_o = "RESULT_DRAW"

PostGame(g, sock, wants) ==
  LET answered == Answered(g, sock, wants)
  IN  IF IsDraw(g) THEN handle_draw_post_game(answered)
                   ELSE handle_win_post_game(answered, sock, wants)
=============================================================================
