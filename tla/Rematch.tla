------------------------------ MODULE Rematch ------------------------------
(***************************************************************************)
(* The life of games under clients that follow the protocol: nobody is in  *)
(* two games, only the owner decides on a join request, and only players   *)
(* who were asked for a post-game decision make one, once.  Each action is *)
(* one handler of client_handler.c reduced to its game manager calls; what *)
(* the handlers send matters only in the set asked.                        *)
(***************************************************************************)
EXTENDS GameManager

VARIABLE asked  \* <<id, sock>>: sock was sent MSG_POST_GAME_OPTIONS and has not answered

rvars == <<games, next_game_id, asked>>

Idle(sock) == \A id \in DOMAIN games : ~CanLeave(games[id], sock)

RematchInit == Init /\ asked = {}

handle_create_game(sock, name) ==
  /\ Idle(sock)
  /\ game_manager_create_game(sock, name)
  /\ UNCHANGED asked

handle_join_request(id, sock) ==
  /\ Idle(sock)
  /\ game_manager_join_game(id, sock)
  /\ UNCHANGED asked

handle_join_decision(id, accepted) ==
  /\ id \in DOMAIN games /\ games[id].player_x_socket # NoSocket
  /\ game_manager_join_decision(id, accepted)
  /\ UNCHANGED asked

\* Who is asked after a match: the winner, or both players after a draw.
AskedAfter(g, winner) ==
  CASE winner = "RESULT_NONE" -> {}
    [] winner = "PLAYER_X"    -> {g.player_x_socket}
    [] winner = "PLAYER_O"    -> {g.player_o_socket}
    [] winner = "RESULT_DRAW" -> {g.player_x_socket, g.player_o_socket}

handle_move(id, sock, c) ==
  /\ game_manager_move(id, sock, c)
  /\ LET winner == game_check_winner(Placed(games[id], sock, c).board)
     IN  asked' = asked \cup ({id} \X (AskedAfter(games[id], winner) \ {NoSocket}))

\* The decision, and for a player who does not go on game_manager_leave_game after it.
AfterAnswer(g, sock, wants) ==
  LET answered == PostGame(g, sock, wants).game
  IN  IF wants \/ ~CanLeave(answered, sock) THEN answered ELSE Left(answered, sock)

handle_post_game_decision(id, sock, wants) ==
  /\ <<id, sock>> \in asked
  /\ asked' = asked \ {<<id, sock>>}
  /\ id \in DOMAIN games /\ Seated(games[id], sock)
  /\ LET after == AfterAnswer(games[id], sock, wants)
     IN  games' = IF Deserted(after) THEN Without(id) ELSE [games EXCEPT ![id] = after]
  /\ UNCHANGED next_game_id

handle_leave_game(id, sock) ==
  /\ game_manager_leave_game(id, sock)
  /\ asked' = asked \ {<<id, sock>>}

RematchNext ==
  \/ \E sock \in Sockets, name \in Names : handle_create_game(sock, name)
  \/ \E id \in GameIds, sock \in Sockets : handle_join_request(id, sock)
  \/ \E id \in GameIds, accepted \in BOOLEAN : handle_join_decision(id, accepted)
  \/ \E id \in GameIds, sock \in Sockets, c \in Cells : handle_move(id, sock, c)
  \/ \E id \in GameIds, sock \in Sockets, wants \in BOOLEAN :
        handle_post_game_decision(id, sock, wants)
  \/ \E id \in GameIds, sock \in Sockets : handle_leave_game(id, sock)

RematchSpec == RematchInit /\ [][RematchNext]_rvars

-----------------------------------------------------------------------------
(* "in caso di pareggio entrambi decidono" (README.md:14): a game does not   *)
(* go on, or open to others, while a player asked for a decision is still    *)
(* seated and has not made it.  The answer a player gave after an earlier,   *)
(* won match still counts as received (handle_win_post_game, game.c:111-140, *)
(* does not clear it), so after a draw the other's answer alone decides.     *)
DrawNeedsBoth ==
  \A id \in DOMAIN games, sock \in Sockets :
    <<id, sock>> \in asked => games[id].state = "GAME_FINISHED" /\ Seated(games[id], sock)
=============================================================================
