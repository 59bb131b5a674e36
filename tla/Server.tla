------------------------------- MODULE Server -------------------------------
(***************************************************************************)
(* The server (server/src/server.c, client_handler.c) with its clients.    *)
(*                                                                         *)
(* One thread serves each connection.  What a thread still has to do for   *)
(* the request at hand is todo[s], a sequence of steps; each step is one   *)
(* game manager call, one critical section of clients_mutex or one send,   *)
(* and steps of different threads interleave freely.  The values a handler *)
(* keeps in local variables between two steps are fields of the steps that *)
(* use them.  Game manager calls are single steps (GameList shows why).    *)
(*                                                                         *)
(* The clients run the interface of module UI.  A message of the server    *)
(* takes effect on the client when it is sent, while requests queue in     *)
(* inbox: a key pressed before a late message arrives is a key pressed     *)
(* before the message is sent whose request is received late.  User names  *)
(* are not followed: rows and games carry one and the same name.  Lists    *)
(* are not cut at 10 games (GameList does that), nor cleanups at 128.      *)
(***************************************************************************)
EXTENDS GameManager, SequencesExt

CONSTANTS
  Users,        \* people running a client
  MAX_CLIENTS,  \* rows of the client table
  InboxMax,     \* a key that sends is pressed with fewer requests waiting than this
  MaxConnects,  \* bound on the number of connections ever made
  MaxQuits,     \* bound on the number of clients that quit or die
  Requests,     \* the types of request users make (all, or fewer to bound a run)
  Eager         \* those they also make while their previous request is being handled

ASSUME ServerAssumption == /\ Sockets \subseteq Nat /\ IsFiniteSet(Sockets)
                           /\ MAX_CLIENTS \in Nat /\ InboxMax \in Nat
                           /\ MaxConnects \in Nat /\ MaxQuits \in Nat
                           /\ Names # {}

INSTANCE UI

VARIABLES
  clients,               \* 1..MAX_CLIENTS -> row
  active_clients_count,
  open,                  \* the descriptors open in the server, one thread each
  todo,                  \* descriptor -> the steps left of its thread's program
  inbox,                 \* descriptor -> requests received by the kernel
  conn,                  \* user -> descriptor, or NoSocket
  ui,                    \* user -> state of its interface
  connects               \* connections made so far

rows == <<clients, active_clients_count>>
wire == <<open, inbox, conn, connects>>
svars == <<games, next_game_id, clients, active_clients_count, open, todo, inbox, conn, ui,
           connects>>

NoGame == -1
Name == CHOOSE n \in Names : TRUE
Slots == 1..MAX_CLIENTS
Client == [socket : Seats, is_active : BOOLEAN, is_playing : BOOLEAN,
           current_game_id : GameIds \cup {NoGame}]

\* static storage: a zeroed table
EmptyRow == [socket |-> NoSocket, is_active |-> FALSE, is_playing |-> FALSE,
             current_game_id |-> NoGame]

-----------------------------------------------------------------------------
(* The client table, always under clients_mutex: the row of a socket is the *)
(* first active one that carries it.                                        *)
RowsOf(s) == {i \in Slots : clients[i].is_active /\ clients[i].socket = s}

Playing(s) == \E i \in RowsOf(s) : clients[i].is_playing
GameIdOf(s) == IF RowsOf(s) = {} THEN NoGame ELSE clients[Min(RowsOf(s))].current_game_id

\* Mutant: the game id of the row is not set.
WithPlayingNoGame(s, playing, id) ==
  [i \in Slots |-> IF RowsOf(s) # {} /\ i = Min(RowsOf(s))
                   THEN [clients[i] EXCEPT !.is_playing = playing] ELSE clients[i]]

WithPlaying(s, playing, id) ==
  [i \in Slots |-> IF RowsOf(s) # {} /\ i = Min(RowsOf(s))
                   THEN [clients[i] EXCEPT !.is_playing = playing,
                                           !.current_game_id = IF playing THEN id ELSE NoGame]
                   ELSE clients[i]]

-----------------------------------------------------------------------------
(* Steps of a program. *)
Do(op) == [op |-> op]
Send(to, msg) == [op |-> "send", to |-> to, msg |-> msg]
SetPlaying(s, playing, id) ==
  [op |-> "set_playing", sock |-> s, playing |-> playing, game_id |-> id]
LeaveGame(id) == [op |-> "leave_game", game_id |-> id]
Scan(spared) == [op |-> "scan", spared |-> spared]
On(op, id) == [op |-> op, game_id |-> id]
Broadcast == Do("broadcast")

\* The steps step(i) for i in S, in increasing order of i.
InOrder(S) ==
  CHOOSE q \in [1..Cardinality(S) -> S] : \A i, j \in DOMAIN q : i < j => q[i] < q[j]
Each(step(_), S) == [k \in 1..Cardinality(S) |-> step(InOrder(S)[k])]

\* handle_client after the receive loop, and handle_message.
Farewell == <<Do("remove_client")>>

handle_message(m) ==
  CASE m.type = "MSG_CREATE_GAME" -> <<Do("check_playing"), Do("create_game")>>
    [] m.type = "MSG_LIST_GAMES"  -> <<Do("list_games")>>
    [] m.type = "MSG_JOIN_GAME" ->
         <<Do("check_playing"), On("check_owner", m.game_id), On("join_game", m.game_id)>>
    [] m.type = "MSG_JOIN_DECISION" ->
         <<[op |-> "get_waiting", game_id |-> m.game_id, accepted |-> m.accepted]>>
    [] m.type = "MSG_MOVE" -> <<[op |-> "move", game_id |-> m.game_id, cell |-> m.cell]>>
    [] m.type = "MSG_POST_GAME_OPTIONS" ->
         <<[op |-> "post_game", game_id |-> m.game_id, wants |-> m.winner_wants_to_continue]>>
    [] m.type = "MSG_LEAVE_GAME" -> <<Do("read_target")>>
    [] m.type = "EOF" -> Farewell

-----------------------------------------------------------------------------
ServerInit ==
  /\ Init
  /\ clients = [i \in Slots |-> EmptyRow]
  /\ active_clients_count = 0
  /\ open = {}
  /\ todo = [s \in Sockets |-> <<>>]
  /\ inbox = [s \in Sockets |-> <<>>]
  /\ conn = [u \in Users |-> NoSocket]
  /\ ui = [u \in Users |-> InitialUI]
  /\ connects = 0

\* Thread s is about to take a step of this kind.
Current(s) == todo[s][1]
Runs(s, op) == s \in open /\ todo[s] # <<>> /\ Current(s).op = op

\* The step is done and replaced by further steps; or the handler returns after them.
Then(s, steps) == todo' = [todo EXCEPT ![s] = steps \o Tail(@)]
Return(s, steps) == todo' = [todo EXCEPT ![s] = steps]
Fail(s) == Return(s, <<Send(s, ErrorMsg)>>)

(* A menu action of an unconnected client connects first; main.c accepts on *)
(* the lowest free descriptor and starts a thread for it.                   *)
Connect(u) ==
  /\ conn[u] = NoSocket
  /\ ui[u].screen = "SCREEN_MAIN_MENU" /\ ~ui[u].error_message
  /\ connects < MaxConnects
  /\ open # Sockets
  /\ LET s == Min(Sockets \ open) IN
       /\ open' = open \cup {s}
       /\ conn' = [conn EXCEPT ![u] = s]
       /\ Return(s, <<Do("add_client")>>)
       /\ inbox' = [inbox EXCEPT ![s] = <<>>]
  /\ connects' = connects + 1
  /\ UNCHANGED <<vars, rows, ui>>

(* The client quits or dies, and may be started again; what it sent before  *)
(* is still delivered.                                                      *)
Disconnect(u) ==
  /\ conn[u] # NoSocket
  /\ connects - Cardinality({v \in Users : conn[v] # NoSocket}) < MaxQuits
  /\ inbox' = [inbox EXCEPT ![conn[u]] = Append(@, [type |-> "EOF"])]
  /\ conn' = [conn EXCEPT ![u] = NoSocket]
  /\ ui' = [ui EXCEPT ![u] = InitialUI]
  /\ UNCHANGED <<vars, rows, open, todo, connects>>

(* The user presses a key.  Without a connection only keys that send        *)
(* nothing are considered: what is left in the client's queue is not kept.  *)
PressKey(u) ==
  /\ \E k \in Keys(ui[u]) :
       /\ ui' = [ui EXCEPT ![u] = k.ui]
       /\ IF k.cmds = <<>>
          THEN UNCHANGED inbox
          ELSE /\ conn[u] # NoSocket
               /\ \A i \in 1..Len(k.cmds) : k.cmds[i].type \in Requests
               /\ Len(inbox[conn[u]]) < InboxMax
               /\ todo[conn[u]] = <<>> \/ \A i \in 1..Len(k.cmds) : k.cmds[i].type \in Eager
               /\ inbox' = [inbox EXCEPT ![conn[u]] = @ \o k.cmds]
  /\ UNCHANGED <<vars, rows, open, todo, conn, connects>>

(* The receive loop of handle_client. *)
Receive(s) ==
  /\ s \in open /\ todo[s] = <<>> /\ inbox[s] # <<>>
  /\ Return(s, handle_message(Head(inbox[s])))
  /\ inbox' = [inbox EXCEPT ![s] = Tail(@)]
  /\ UNCHANGED <<vars, rows, open, conn, ui, connects>>

-----------------------------------------------------------------------------
(* The client table. *)

\* Mutant: a full table is not noticed, the last row is overwritten.
AddClientAnyway(s) ==
  LET free == {i \in Slots : ~clients[i].is_active} \cup {MAX_CLIENTS} IN
  /\ Runs(s, "add_client")
  /\ clients' = [clients EXCEPT ![Min(free)] =
                   [EmptyRow EXCEPT !.socket = s, !.is_active = TRUE]]
  /\ active_clients_count' = active_clients_count + 1
  /\ Return(s, <<>>)
  /\ UNCHANGED <<vars, wire, ui>>

\* Mutant: a refused client is told, but its thread goes on to receive.
RefuseAndServe(s) ==
  LET free == {i \in Slots : ~clients[i].is_active} IN
  /\ Runs(s, "add_client")
  /\ IF active_clients_count >= MAX_CLIENTS
     THEN Fail(s) /\ UNCHANGED rows
     ELSE /\ clients' = [clients EXCEPT ![Min(free)] =
                           [EmptyRow EXCEPT !.socket = s, !.is_active = TRUE]]
          /\ active_clients_count' = active_clients_count + 1
          /\ Return(s, <<>>)
  /\ UNCHANGED <<vars, wire, ui>>

add_client(s) ==
  /\ Runs(s, "add_client")
  /\ LET free == {i \in Slots : ~clients[i].is_active} IN
     IF active_clients_count >= MAX_CLIENTS \/ free = {}
     THEN /\ Return(s, <<Send(s, ErrorMsg), Do("close")>>)
          /\ UNCHANGED rows
     ELSE /\ clients' = [clients EXCEPT ![Min(free)] =
                           [EmptyRow EXCEPT !.socket = s, !.is_active = TRUE]]
          /\ active_clients_count' = active_clients_count + 1
          /\ Return(s, <<>>)
  /\ UNCHANGED <<vars, wire, ui>>

\* Mutant: the counter is not decremented.
RemoveClientUncounted(s) ==
  /\ Runs(s, "remove_client")
  /\ Return(s, (IF GameIdOf(s) # NoGame THEN <<LeaveGame(GameIdOf(s))>> ELSE <<>>)
               \o <<Scan(0), Broadcast, Do("close")>>)
  /\ clients' = [i \in Slots |-> IF i \in RowsOf(s)
                                 THEN [clients[i] EXCEPT !.is_active = FALSE] ELSE clients[i]]
  /\ UNCHANGED <<vars, active_clients_count, wire, ui>>

\* Mutant: the game id is looked up after the row is freed.
RemoveClientFirst(s) ==
  /\ Runs(s, "remove_client")
  /\ Return(s, <<Scan(0), Broadcast, Do("close")>>)
  /\ clients' = [i \in Slots |-> IF i \in RowsOf(s)
                                 THEN [clients[i] EXCEPT !.is_active = FALSE, !.is_playing = FALSE,
                                                         !.current_game_id = NoGame]
                                 ELSE clients[i]]
  /\ active_clients_count' = active_clients_count - Cardinality(RowsOf(s))
  /\ UNCHANGED <<vars, wire, ui>>

\* The game id is read and the row freed in one critical section.
remove_client(s) ==
  /\ Runs(s, "remove_client")
  /\ Return(s, (IF GameIdOf(s) # NoGame THEN <<LeaveGame(GameIdOf(s))>> ELSE <<>>)
               \o <<Scan(0), Broadcast, Do("close")>>)
  /\ IF RowsOf(s) = {}
     THEN UNCHANGED rows
     ELSE /\ clients' = [clients EXCEPT ![Min(RowsOf(s))] =
                           [@ EXCEPT !.is_active = FALSE, !.is_playing = FALSE,
                                     !.current_game_id = NoGame]]
          /\ active_clients_count' = active_clients_count - 1
  /\ UNCHANGED <<vars, wire, ui>>

(* close(): the descriptor can be reused.  A client still there is told of  *)
(* an error, receive_message never returning the -2 of a closed connection. *)
close(s) ==
  /\ Runs(s, "close")
  /\ open' = open \ {s}
  /\ inbox' = [inbox EXCEPT ![s] = <<>>]
  /\ conn' = [u \in Users |-> IF conn[u] = s THEN NoSocket ELSE conn[u]]
  /\ ui' = [u \in Users |-> IF conn[u] = s THEN handle_event(ui[u], ErrorMsg) ELSE ui[u]]
  /\ Return(s, <<>>)
  /\ UNCHANGED <<vars, rows, connects>>

client_set_playing(s) ==
  /\ Runs(s, "set_playing")
  /\ clients' = WithPlaying(Current(s).sock, Current(s).playing, Current(s).game_id)
  /\ Then(s, <<>>)
  /\ UNCHANGED <<vars, active_clients_count, wire, ui>>

client_is_playing(s) ==
  /\ Runs(s, "check_playing")
  /\ IF Playing(s) THEN Fail(s) ELSE Then(s, <<>>)
  /\ UNCHANGED <<vars, rows, wire, ui>>

(* send_message: whoever is connected to the descriptor now gets it. *)
send_message(s) ==
  /\ Runs(s, "send")
  /\ ui' = [u \in Users |-> IF conn[u] = Current(s).to /\ conn[u] # NoSocket
                            THEN handle_event(ui[u], Current(s).msg) ELSE ui[u]]
  /\ Then(s, <<>>)
  /\ UNCHANGED <<vars, rows, wire>>

-----------------------------------------------------------------------------
(* The lobby. *)
OpenGames == {id \in DOMAIN games : Listed(games[id])}

handle_list_game(s) ==
  /\ Runs(s, "list_games")
  /\ Then(s, <<Send(s, LobbyMsg(OpenGames))>>)
  /\ UNCHANGED <<vars, rows, wire, ui>>

\* broadcast_lobby_update: the games are listed first ...
broadcast_list(s) ==
  /\ Runs(s, "broadcast")
  /\ Then(s, <<[op |-> "collect", games |-> OpenGames]>>)
  /\ UNCHANGED <<vars, rows, wire, ui>>

\* ... then the sockets of the clients not playing are collected, in table order.
broadcast_collect(s) ==
  LET idle == {i \in Slots : clients[i].is_active /\ ~clients[i].is_playing}
      to(i) == Send(clients[i].socket, LobbyMsg(Current(s).games))
  IN
  /\ Runs(s, "collect")
  /\ Then(s, Each(to, idle))
  /\ UNCHANGED <<vars, rows, wire, ui>>

-----------------------------------------------------------------------------
(* handle_create_game.  The bound on the games stands for malloc failing.   *)
create_game(s) ==
  /\ Runs(s, "create_game")
  /\ IF next_game_id < MaxGames
     THEN /\ game_manager_create_game(s, Name)
          /\ Then(s, <<SetPlaying(s, TRUE, next_game_id), SetPlaying(s, TRUE, next_game_id),
                       Send(s, WaitingMsg(next_game_id)), Broadcast>>)
     ELSE Fail(s) /\ UNCHANGED vars
  /\ UNCHANGED <<rows, wire, ui>>

(* handle_join_request *)
OwnerOf(id) == IF id \in DOMAIN games THEN games[id].player_x_socket ELSE NoSocket

check_owner(s) ==
  /\ Runs(s, "check_owner")
  /\ IF OwnerOf(Current(s).game_id) = s THEN Fail(s) ELSE Then(s, <<>>)
  /\ UNCHANGED <<vars, rows, wire, ui>>

join_game(s) ==
  LET id == Current(s).game_id IN
  /\ Runs(s, "join_game")
  /\ IF id \in DOMAIN games /\ CanJoin(games[id])
     THEN game_manager_join_game(id, s) /\ Then(s, <<On("notify_owner", id)>>)
     ELSE Fail(s) /\ UNCHANGED vars
  /\ UNCHANGED <<rows, wire, ui>>

notify_owner(s) ==
  LET id == Current(s).game_id IN
  /\ Runs(s, "notify_owner")
  /\ Then(s, IF OwnerOf(id) # NoSocket THEN <<Send(OwnerOf(id), JoinRequestMsg(id))>> ELSE <<>>)
  /\ UNCHANGED <<vars, rows, wire, ui>>

(* handle_join_decision: the joiner is read before the decision is made. *)
get_waiting(s) ==
  LET h == Current(s) IN
  /\ Runs(s, "get_waiting")
  /\ Then(s, <<[op |-> "join_decision", game_id |-> h.game_id, accepted |-> h.accepted,
                waiting |-> IF h.game_id \in DOMAIN games
                            THEN games[h.game_id].waiting_player_socket ELSE NoSocket]>>)
  /\ UNCHANGED <<vars, rows, wire, ui>>

join_decision(s) ==
  LET h == Current(s) IN
  /\ Runs(s, "join_decision")
  /\ IF h.game_id \in DOMAIN games /\ CanDecide(games[h.game_id])
     THEN /\ game_manager_join_decision(h.game_id, h.accepted)
          /\ Then(s, IF h.accepted
                     THEN <<Scan(h.game_id), On("start_players", h.game_id)>>
                     ELSE (IF h.waiting # NoSocket THEN <<Send(h.waiting, ErrorMsg)>> ELSE <<>>)
                          \o <<Broadcast>>)
     ELSE Fail(s) /\ UNCHANGED vars
  /\ UNCHANGED <<rows, wire, ui>>

\* Mutant: the message for O is a copy of the one for X.
StartCopied(x, o, id) ==
  <<Send(x, GameStartMsg(id, "PLAYER_X")), Send(o, GameStartMsg(id, "PLAYER_X"))>>

\* The two players of a game and the state of it, as a handler reads them.
Start(x, o, id) == <<Send(x, GameStartMsg(id, "PLAYER_X")), Send(o, GameStartMsg(id, "PLAYER_O"))>>
State(x, o, id) ==
  LET m == GameStateMsg(id, games[id].board, games[id].current_turn)
  IN  <<Send(x, m), Send(o, m)>>

start_players(s) ==
  LET id == Current(s).game_id IN
  /\ Runs(s, "start_players")
  /\ IF id \in DOMAIN games
     THEN LET x == games[id].player_x_socket
              o == games[id].player_o_socket
          IN  Then(s, Start(x, o, id) \o
                      <<[op |-> "start_state", game_id |-> id, x |-> x, o |-> o]>>)
     ELSE Return(s, <<>>)
  /\ UNCHANGED <<vars, rows, wire, ui>>

\* Mutant: the initial board is not sent.
StartWithoutState(s) ==
  LET h == Current(s)
      id == h.game_id
  IN
  /\ Runs(s, "start_state")
  /\ Then(s, <<SetPlaying(h.x, TRUE, id), SetPlaying(h.o, TRUE, id),
               [op |-> "set_players", game_id |-> id, socks |-> {h.x, h.o}], Broadcast>>)
  /\ UNCHANGED <<vars, rows, wire, ui>>

start_state(s) ==
  LET h == Current(s)
      id == h.game_id
      told == IF id \in DOMAIN games
              THEN <<SetPlaying(h.x, TRUE, id), SetPlaying(h.o, TRUE, id)>> \o State(h.x, h.o, id)
              ELSE <<>>
  IN
  /\ Runs(s, "start_state")
  /\ Then(s, told \o <<[op |-> "set_players", game_id |-> id, socks |-> {h.x, h.o}], Broadcast>>)
  /\ UNCHANGED <<vars, rows, wire, ui>>

\* Every active row of either socket is marked.
set_players(s) ==
  LET h == Current(s) IN
  /\ Runs(s, "set_players")
  /\ clients' = [i \in Slots |->
                   IF clients[i].is_active /\ clients[i].socket \in h.socks
                   THEN [clients[i] EXCEPT !.is_playing = TRUE, !.current_game_id = h.game_id]
                   ELSE clients[i]]
  /\ Then(s, <<>>)
  /\ UNCHANGED <<vars, active_clients_count, wire, ui>>

-----------------------------------------------------------------------------
(* handle_move *)
move(s) ==
  LET h == Current(s)
      id == h.game_id
  IN
  /\ Runs(s, "move")
  /\ IF id \in DOMAIN games /\ CanMove(games[id], s, h.cell)
     THEN /\ game_manager_move(id, s, h.cell)
          /\ Then(s, <<[op |-> "move_players", game_id |-> id,
                        winner |-> game_check_winner(Placed(games[id], s, h.cell).board)]>>)
     ELSE Fail(s) /\ UNCHANGED vars
  /\ UNCHANGED <<rows, wire, ui>>

move_players(s) ==
  LET h == Current(s) IN
  /\ Runs(s, "move_players")
  /\ IF h.game_id \in DOMAIN games
     THEN Then(s, <<[op |-> "move_state", game_id |-> h.game_id, winner |-> h.winner,
                    x |-> games[h.game_id].player_x_socket,
                    o |-> games[h.game_id].player_o_socket]>>)
     ELSE Return(s, <<>>)
  /\ UNCHANGED <<vars, rows, wire, ui>>

move_state(s) ==
  LET h == Current(s)
      id == h.game_id
      over == GameOverMsg(id, h.winner)
      asked == CASE h.winner = "PLAYER_X" -> <<Send(h.x, PostGameMsg(id))>>
                 [] h.winner = "PLAYER_O" -> <<Send(h.o, PostGameMsg(id))>>
                 [] OTHER -> <<Send(h.x, PostGameMsg(id)), Send(h.o, PostGameMsg(id))>>
  IN
  /\ Runs(s, "move_state")
  /\ CASE id \notin DOMAIN games -> Return(s, <<>>)
       [] id \in DOMAIN games /\ h.winner # "RESULT_NONE" ->
            Then(s, <<Send(h.x, over), Send(h.o, over)>> \o asked)
       [] OTHER -> Then(s, State(h.x, h.o, id))
  /\ UNCHANGED <<vars, rows, wire, ui>>

-----------------------------------------------------------------------------
(* handle_post_game_decision *)
post_game(s) ==
  LET h == Current(s)
      id == h.game_id
  IN
  /\ Runs(s, "post_game")
  /\ IF id \in DOMAIN games /\ Seated(games[id], s)
     THEN /\ game_manager_post_game_decision(id, s, h.wants)
          /\ Then(s, (IF h.wants THEN <<>> ELSE <<SetPlaying(s, FALSE, 0), LeaveGame(id)>>)
                     \o IF PostGame(games[id], s, h.wants).both_decided
                        THEN <<[op |-> "post_state", game_id |-> id, wants |-> h.wants]>>
                        ELSE <<>>)
     ELSE Fail(s) /\ UNCHANGED vars
  /\ UNCHANGED <<rows, wire, ui>>

post_state(s) ==
  LET h == Current(s) IN
  /\ Runs(s, "post_state")
  /\ Then(s, IF h.game_id \in DOMAIN games /\ games[h.game_id].state # "GAME_FINISHED"
             THEN <<[op |-> "post_players", game_id |-> h.game_id, wants |-> h.wants], Broadcast>>
             ELSE <<Broadcast>>)
  /\ UNCHANGED <<vars, rows, wire, ui>>

post_players(s) ==
  LET h == Current(s)
      id == h.game_id
      keep(sock) == IF ~h.wants /\ sock = s THEN NoSocket ELSE sock
      x == keep(games[id].player_x_socket)
      o == keep(games[id].player_o_socket)
  IN
  /\ Runs(s, "post_players")
  /\ Then(s, CASE id \notin DOMAIN games -> <<>>
               [] id \in DOMAIN games /\ o = NoSocket /\ x = NoSocket -> <<>>
               [] id \in DOMAIN games /\ o = NoSocket /\ x # NoSocket ->
                    <<SetPlaying(x, TRUE, id), Send(x, WaitingMsg(id))>>
               [] OTHER ->
                    <<SetPlaying(x, TRUE, id), SetPlaying(o, TRUE, id)>> \o Start(x, o, id)
                    \o <<[op |-> "restart_state", game_id |-> id, x |-> x, o |-> o]>>)
  /\ UNCHANGED <<vars, rows, wire, ui>>

restart_state(s) ==
  LET h == Current(s) IN
  /\ Runs(s, "restart_state")
  /\ Then(s, IF h.game_id \in DOMAIN games THEN State(h.x, h.o, h.game_id) ELSE <<>>)
  /\ UNCHANGED <<vars, rows, wire, ui>>

-----------------------------------------------------------------------------
(* handle_leave_game: the game of the caller's row, else the id in the      *)
(* request, which is always 0 because none is transmitted.                  *)

read_target(s) ==
  /\ Runs(s, "read_target")
  /\ Then(s, <<LeaveGame(IF GameIdOf(s) # NoGame THEN GameIdOf(s) ELSE 0), Scan(0),
               SetPlaying(s, FALSE, 0), Broadcast>>)
  /\ UNCHANGED <<vars, rows, wire, ui>>

leave_game(s) ==
  LET id == Current(s).game_id IN
  /\ Runs(s, "leave_game")
  /\ IF id \in DOMAIN games /\ CanLeave(games[id], s)
     THEN game_manager_leave_game(id, s)
     ELSE UNCHANGED vars
  /\ Then(s, <<>>)
  /\ UNCHANGED <<rows, wire, ui>>

(* game_manager_cleanup_creator_games: the ids are collected under gm->lock *)
(* and the games left one by one after it.                                  *)
scan(s) ==
  LET mine == {id \in DOMAIN games : games[id].player_x_socket = s /\ id # Current(s).spared}
  IN
  /\ Runs(s, "scan")
  /\ Then(s, Each(LeaveGame, mine))
  /\ UNCHANGED <<vars, rows, wire, ui>>

-----------------------------------------------------------------------------
\* A step of the thread of socket s.
Thread(s) ==
  \/ Receive(s) \/ add_client(s) \/ remove_client(s) \/ close(s)
  \/ client_set_playing(s) \/ client_is_playing(s) \/ send_message(s)
  \/ handle_list_game(s) \/ broadcast_list(s) \/ broadcast_collect(s)
  \/ create_game(s) \/ check_owner(s) \/ join_game(s) \/ notify_owner(s)
  \/ get_waiting(s) \/ join_decision(s) \/ start_players(s) \/ start_state(s) \/ set_players(s)
  \/ move(s) \/ move_players(s) \/ move_state(s)
  \/ post_game(s) \/ post_state(s) \/ post_players(s) \/ restart_state(s)
  \/ read_target(s) \/ leave_game(s) \/ scan(s)

ServerNext ==
  \/ \E u \in Users : Connect(u) \/ Disconnect(u) \/ PressKey(u)
  \/ \E s \in Sockets : Thread(s)

ServerSpec == ServerInit /\ [][ServerNext]_svars

-----------------------------------------------------------------------------
(* Type correctness of the table, the connections and the interfaces; the   *)
(* counter of add_client and remove_client stays within 0..MAX_CLIENTS.      *)
ServerTypeOK ==
  /\ TypeOK
  /\ clients \in [Slots -> Client]
  /\ active_clients_count \in 0..MAX_CLIENTS
  /\ open \subseteq Sockets
  /\ conn \in [Users -> Seats]
  /\ ui \in [Users -> UIState]

(* add_client and remove_client (server.c:25-58) look rows up by descriptor *)
(* although descriptors are reused: the counter is the number of rows in    *)
(* use, every such row belongs to an open connection, no two to the same.   *)
SlotIntegrity ==
  /\ active_clients_count = Cardinality({i \in Slots : clients[i].is_active})
  /\ \A i \in Slots : clients[i].is_active => clients[i].socket \in open
  /\ \A i, j \in Slots : i # j /\ clients[i].is_active /\ clients[j].is_active =>
                            clients[i].socket # clients[j].socket

(* handle_client (server.c:134-190): a connection has a row from add_client *)
(* to remove_client and at no other time.  One that the full table refused  *)
(* is told and closed and no request of it is ever served, and none is      *)
(* closed that leaves its row behind for the next holder of the descriptor. *)
ServedHaveRow ==
  \A s \in open :
    (RowsOf(s) = {}) <=> \E e \in ToSet(todo[s]) : e.op \in {"add_client", "close"}

(* Disconnecting (server.c:169-188) leaves no game owned by a descriptor    *)
(* that is closed and may be given to somebody else: the game of the row is *)
(* left, and the games the creator still owns are cleaned up, before close. *)
(* This holds of the creators of games, whoever is queued and leaves; once  *)
(* joins are accepted it fails along with PlayersConnected, a departed      *)
(* joiner becoming a player and after a draw an owner.                      *)
OwnerConnected == \A id \in DOMAIN games : games[id].player_x_socket \in open \cup {NoSocket}

\* No request is waiting and no handler is running.
Quiet == \A s \in Sockets : todo[s] = <<>> /\ inbox[s] = <<>>

InProgress == {id \in DOMAIN games : games[id].state = "GAME_IN_PROGRESS"}
PlaysOn(u, id) == conn[u] # NoSocket /\ Seated(games[id], conn[u])

(* is_playing and current_game_id are set by other calls than the seats     *)
(* (client_handler.c:167, 299, 322, 445, 474, 486, 579), by either player's *)
(* thread.  Once the handlers have returned they agree: whoever holds a     *)
(* seat of a game that is not over is marked as playing that game.  It may  *)
(* fail once joins are accepted: when a joiner disconnected before, see     *)
(* PlayersConnected, when a late thread marks a player of the match before, *)
(* and when keys are pressed ahead of the answers.  The runs exclude these. *)
SeatedArePlaying ==
  Quiet => \A id \in DOMAIN games, s \in open :
             Seated(games[id], s) /\ games[id].state # "GAME_FINISHED" =>
               GameIdOf(s) = id /\ Playing(s)

(* The role a client plays comes only from MSG_GAME_START, while the owner  *)
(* of a reopened game may have been O in the match before: at rest, each    *)
(* player of a running match believes to be what the server takes it for.   *)
(* This is a statement about two users who stay connected: with a third, a  *)
(* late thread can announce the start of a match that is over to two of     *)
(* them who have exchanged roles in the meantime (client_handler.c:464-503).*)
RolesAgree ==
  Quiet => \A id \in InProgress, u \in Users :
             PlaysOn(u, id) => ui[u].player_role = RoleOf(games[id], conn[u])

(* Boards reach the clients by racing sends of two threads.  They may be    *)
(* old, but at rest none shows a mark the running match does not have, such *)
(* as one left over from the match before.  Checked, like RolesAgree, of    *)
(* two users who stay connected.                                            *)
ShownMarksAreReal ==
  Quiet => \A id \in InProgress, u \in Users :
             PlaysOn(u, id) /\ ui[u].screen = "SCREEN_IN_GAME" =>
               \A c \in Cells : ui[u].board[c] \in {" ", games[id].board[c]}

-----------------------------------------------------------------------------
(* What a comment and a message of the program say and the code does not    *)
(* live up to.                                                              *)

(* "remove client from list and notify game manager" (server.c:169), and a  *)
(* decision fails when the "joiner disconnected" (client_handler.c:265): no *)
(* player's seat holds a closed descriptor.                                 *)
PlayersConnected == \A id \in DOMAIN games :
    {games[id].player_x_socket, games[id].player_o_socket} \subseteq open \cup {NoSocket}
=============================================================================
