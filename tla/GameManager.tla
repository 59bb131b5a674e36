---------------------------- MODULE GameManager ----------------------------
(***************************************************************************)
(* The game manager's public API (server/src/game.c) as atomic operations  *)
(* on a table of games.  The functions are called by any connection thread *)
(* with any game id and any of its own requests, so every action takes an  *)
(* arbitrary caller: nothing here assumes a well-behaved client.  That the *)
(* locking makes the operations atomic is the subject of GameList.         *)
(***************************************************************************)
EXTENDS Game

CONSTANT MaxGames  \* bound on the ids handed out (2^32 in the program)
ASSUME MaxGamesAssumption == MaxGames \in Nat

VARIABLES
  games,        \* id -> Game, defined on the games in the list
  next_game_id  \* the atomic counter

vars == <<games, next_game_id>>

GameIds == 0..(MaxGames - 1)

\* The table without game id.
Without(id) == [k \in DOMAIN games \ {id} |-> games[k]]

Init == games = <<>> /\ next_game_id = 0

\* Mutant: the new game takes the value of the counter after the increment.
CreateWithNextId(sock, name) ==
  /\ next_game_id < MaxGames
  /\ next_game_id' = next_game_id + 1
  /\ games' = [k \in DOMAIN games \cup {next_game_id'} |->
                 IF k = next_game_id' THEN NewGame(sock, name) ELSE games[k]]

\* Mutant: the new game takes an id that is free in the table.
CreateWithFreeId(sock, name) ==
  LET id == CHOOSE k \in GameIds : k \notin DOMAIN games IN
  /\ next_game_id < MaxGames
  /\ next_game_id' = next_game_id + 1
  /\ games' = [k \in DOMAIN games \cup {id} |-> IF k = id THEN NewGame(sock, name) ELSE games[k]]

game_manager_create_game(sock, name) ==
  /\ next_game_id < MaxGames
  /\ next_game_id' = next_game_id + 1
  /\ games' = [k \in DOMAIN games \cup {next_game_id} |->
                 IF k = next_game_id THEN NewGame(sock, name) ELSE games[k]]

game_manager_join_game(id, sock) ==
  /\ id \in DOMAIN games
  /\ CanJoin(games[id])
  /\ games' = [games EXCEPT ![id] = Joined(@, sock)]
  /\ UNCHANGED next_game_id

game_manager_join_decision(id, accepted) ==
  /\ id \in DOMAIN games
  /\ CanDecide(games[id])
  /\ games' = [games EXCEPT ![id] = Decided(@, accepted)]
  /\ UNCHANGED next_game_id

game_manager_move(id, sock, c) ==
  /\ id \in DOMAIN games
  /\ CanMove(games[id], sock, c)
  /\ games' = [games EXCEPT ![id] = Moved(@, sock, c)]
  /\ UNCHANGED next_game_id

\* Mutant: only the owner's departure frees the game.
LeaveFreesForOwner(id, sock) ==
  /\ id \in DOMAIN games
  /\ CanLeave(games[id], sock)
  /\ LET left == Left(games[id], sock)
     IN  games' = IF Deserted(left) /\ sock = games[id].player_x_socket
                  THEN Without(id) ELSE [games EXCEPT ![id] = left]
  /\ UNCHANGED next_game_id

game_manager_leave_game(id, sock) ==
  /\ id \in DOMAIN games
  /\ CanLeave(games[id], sock)
  /\ LET left == Left(games[id], sock)
     IN  games' = IF Deserted(left) THEN Without(id)
                                    ELSE [games EXCEPT ![id] = left]
  /\ UNCHANGED next_game_id

game_manager_post_game_decision(id, sock, wants) ==
  /\ id \in DOMAIN games
  /\ Seated(games[id], sock)
  /\ games' = [games EXCEPT ![id] = PostGame(@, sock, wants).game]
  /\ UNCHANGED next_game_id

Next ==
  \/ \E sock \in Sockets, name \in Names : game_manager_create_game(sock, name)
  \/ \E id \in GameIds, sock \in Sockets : game_manager_join_game(id, sock)
  \/ \E id \in GameIds, accepted \in BOOLEAN : game_manager_join_decision(id, accepted)
  \/ \E id \in GameIds, sock \in Sockets, c \in Cells : game_manager_move(id, sock, c)
  \/ \E id \in GameIds, sock \in Sockets : game_manager_leave_game(id, sock)
  \/ \E id \in GameIds, sock \in Sockets, wants \in BOOLEAN :
        game_manager_post_game_decision(id, sock, wants)

Spec == Init /\ [][Next]_vars

-----------------------------------------------------------------------------
(* Type correctness: every listed game is a well-formed record and carries  *)
(* an id the counter has already handed out.                                *)
TypeOK ==
  /\ next_game_id \in 0..MaxGames
  /\ DOMAIN games \subseteq 0..(next_game_id - 1)
  /\ games \in [DOMAIN games -> Game]

\* A pending joiner, and the status WAITING itself, mean that the O seat is free.
OpenSeat(g) ==
  /\ g.waiting_player_socket # NoSocket => g.state = "GAME_WAITING"
  /\ g.state = "GAME_WAITING" => g.player_o_socket = NoSocket

(* A join can be accepted (game.c:317) without looking at the state: that is *)
(* right only because a pending joiner implies a game still waiting with its *)
(* O seat free, whatever leaves, decisions and restarts came before.         *)
PendingJoinIsOpen == \A id \in DOMAIN games : OpenSeat(games[id])

(* Whoever leaves last frees the game (game.c:419).  Two calls empty a game  *)
(* without freeing it: rejecting a joiner after the owner has left (326),    *)
(* and declining after a draw a rematch the owner asked for before leaving   *)
(* (91).  Such a game is not lost for good: it is open, so the lobby offers  *)
(* it and a joiner who leaves it again frees it.                             *)
OrphanIsOpen == \A id \in DOMAIN games : Deserted(games[id]) => CanJoin(games[id])

\* The cells that carry a mark.
Marked(b, mark) == {c \in Cells : b[c] = mark}

\* X moves when both players placed as many marks, O when X is one ahead.
TurnFits(g) ==
  Cardinality(Marked(g.board, "X")) =
    Cardinality(Marked(g.board, "O")) + IF g.current_turn = "PLAYER_X" THEN 0 ELSE 1

(* The turn flag that guards game_manager_move (game.c:363) always agrees    *)
(* with the number of marks on the board, through wins, draws, restarts and  *)
(* changes of the players in the seats.                                      *)
TurnMatchesBoard == \A id \in DOMAIN games : TurnFits(games[id])

\* Independently of the scan order of game_check_winner: who has a line.
HasLine(b, mark) == \E i \in 1..Len(Lines) : \A c \in Lines[i] : b[c] = mark

OutcomeFits(g) ==
  LET xr == g.result_player_x
      or == g.result_player_o
      xline == HasLine(g.board, "X")
      oline == HasLine(g.board, "O")
  IN  \/ /\ xr = "RESULT_NONE" /\ or = "RESULT_NONE"
         /\ ~xline /\ ~oline
         /\ \E c \in Cells : g.board[c] = " "
         /\ g.state = "GAME_WAITING" => g.board = EmptyBoard
      \/ /\ g.state = "GAME_FINISHED"
         /\ \/ xr = "RESULT_WIN"  /\ or = "RESULT_LOSS" /\ xline /\ ~oline
            \/ xr = "RESULT_LOSS" /\ or = "RESULT_WIN"  /\ oline /\ ~xline
            \/ xr = "RESULT_DRAW" /\ or = "RESULT_DRAW" /\ ~xline /\ ~oline
               /\ \A c \in Cells : g.board[c] # " "

(* The stored results are those of the position on the board: a game still   *)
(* open has no line and a free cell, a decided one has exactly the line its  *)
(* results claim, a drawn one is full with none.                             *)
OutcomeMatchesBoard == \A id \in DOMAIN games : OutcomeFits(games[id])

-----------------------------------------------------------------------------
\* What one step may do to the board of a game that stays in the list.
BoardStepOf(g, h) ==
  \/ h.board = g.board /\ h.current_turn = g.current_turn
  \/ h.board = EmptyBoard /\ h.current_turn = "PLAYER_X"
     /\ h.result_player_x = "RESULT_NONE"
  \/ \E c \in Cells :
       /\ g.state = "GAME_IN_PROGRESS"
       /\ g.board[c] = " "
       /\ h.board = [g.board EXCEPT ![c] = Mark(g.current_turn)]
       /\ h.current_turn = Opponent(g.current_turn)

(* No call, by whomever, overwrites a mark, places two, places the mark of   *)
(* the player whose turn it is not, or touches the board of a game not in    *)
(* progress other than by clearing it for a new match.                       *)
BoardStep == [][\A id \in DOMAIN games \cap DOMAIN games' :
                  BoardStepOf(games[id], games'[id])]_vars

\* A seat is only ever filled from the seat below it in the queue w -> o -> x.
SeatStepOf(g, h) ==
  /\ h.player_x_socket \in {g.player_x_socket, g.player_o_socket, NoSocket}
  /\ h.player_o_socket \in {g.player_o_socket, g.waiting_player_socket, NoSocket}
  /\ h.player_o_socket \notin {g.player_o_socket, NoSocket} =>
       /\ g.state = "GAME_WAITING" /\ h.state = "GAME_IN_PROGRESS"
       /\ g.player_o_socket = NoSocket

(* Nobody becomes a player without having asked to join and been accepted,   *)
(* and nobody becomes the owner without having been a player.                *)
SeatStep == [][\A id \in DOMAIN games \cap DOMAIN games' :
                 SeatStepOf(games[id], games'[id])]_vars

\* A won game that reopens belongs to its winner, who has not left it.
WinnerStepOf(g, h) ==
  (/\ "RESULT_WIN" \in {g.result_player_x, g.result_player_o}
   /\ h.state # "GAME_FINISHED") =>
     /\ h.state = "GAME_WAITING"
     /\ h.player_o_socket = NoSocket
     /\ h.player_x_socket # NoSocket
     /\ h.player_x_socket = IF g.result_player_x = "RESULT_WIN"
                            THEN g.player_x_socket ELSE g.player_o_socket

(* README: "il vincitore puo' continuare come proprietario".  A game with a  *)
(* winner leaves the status FINISHED only to wait for an opponent with the   *)
(* winner, still connected to it, as its owner.                              *)
WinnerContinues == [][\A id \in DOMAIN games \cap DOMAIN games' :
                        WinnerStepOf(games[id], games'[id])]_vars

(* A game id is never given twice: an id once freed stays unused (handlers   *)
(* keep ids across several calls and look the game up again each time).      *)
IdsNeverReused == [][\A id \in DOMAIN games' \ DOMAIN games :
                       id >= next_game_id /\ id < next_game_id']_vars
=============================================================================
