--------------------------------- MODULE UI ---------------------------------
(***************************************************************************)
(* The client's user interface (client/src/ui/ui.c) as two functions of    *)
(* its state: handle_event, what a message of the server does to it, and   *)
(* Keys, what the user can make it do and send (handle_keyboard).          *)
(*                                                                         *)
(* Drawing, the cursor, the menu selection, settings and help are left     *)
(* out: none of them sends a message or changes the state kept here.  The  *)
(* network thread passes messages on unchanged (message_to_event).         *)
(***************************************************************************)
EXTENDS Integers, Sequences

CONSTANTS Cells,   \* the cells of the board
          GameIds  \* ids of games

Screens == {"SCREEN_MAIN_MENU", "SCREEN_LOBBY", "SCREEN_GAME_WAITING", "SCREEN_IN_GAME",
            "SCREEN_JOIN_REQUEST", "SCREEN_POST_GAME", "SCREEN_GAME_OVER"}

UIState == [screen          : Screens,
            current_game_id : GameIds \cup {0},
            player_role     : {"PLAYER_X", "PLAYER_O"},
            board           : [Cells -> {" ", "X", "O", "NUL"}],
            current_turn    : {"PLAYER_X", "PLAYER_O"},
            lobby_games     : SUBSET GameIds,
            join_game_id    : GameIds \cup {0},
            error_message   : BOOLEAN]

\* The memset at the start of ui_run: the board holds NUL characters, not blanks.
InitialUI == [screen          |-> "SCREEN_MAIN_MENU",
              current_game_id |-> 0,
              player_role     |-> "PLAYER_X",
              board           |-> [c \in Cells |-> "NUL"],
              current_turn    |-> "PLAYER_X",
              lobby_games     |-> {},
              join_game_id    |-> 0,
              error_message   |-> FALSE]

-----------------------------------------------------------------------------
(* Messages of the server. *)
GameStateMsg(id, board, turn) ==
  [type |-> "MSG_GAME_STATE", game_id |-> id, board |-> board, current_turn |-> turn]
GameStartMsg(id, role)  == [type |-> "MSG_GAME_START", game_id |-> id, player_role |-> role]
GameOverMsg(id, winner) == [type |-> "MSG_GAME_OVER", game_id |-> id, winner |-> winner]
LobbyMsg(ids)           == [type |-> "MSG_LOBBY_UPDATE", games |-> ids]
JoinRequestMsg(id)      == [type |-> "MSG_JOIN_REQUEST", game_id |-> id]
WaitingMsg(id)          == [type |-> "MSG_GAME_STATUS_CHANGE", game_id |-> id]
PostGameMsg(id)         == [type |-> "MSG_POST_GAME_OPTIONS", game_id |-> id]
ErrorMsg                == [type |-> "MSG_ERROR"]

(* POST_GAME_OPTIONS does not set the game id: the answer will be about the *)
(* game the client last heard of.                                           *)
handle_event(v, m) ==
  CASE m.type = "MSG_GAME_STATE" ->
         [v EXCEPT !.board = m.board, !.current_turn = m.current_turn,
                   !.current_game_id = m.game_id, !.screen = "SCREEN_IN_GAME"]
    [] m.type = "MSG_GAME_START" ->
         [v EXCEPT !.current_game_id = m.game_id, !.player_role = m.player_role,
                   !.screen = "SCREEN_IN_GAME"]
    [] m.type = "MSG_GAME_OVER"          -> [v EXCEPT !.screen = "SCREEN_GAME_OVER"]
    [] m.type = "MSG_LOBBY_UPDATE"       -> [v EXCEPT !.lobby_games = m.games]
    [] m.type = "MSG_JOIN_REQUEST" ->
         [v EXCEPT !.join_game_id = m.game_id, !.screen = "SCREEN_JOIN_REQUEST"]
    [] m.type = "MSG_POST_GAME_OPTIONS"  -> [v EXCEPT !.screen = "SCREEN_POST_GAME"]
    [] m.type = "MSG_GAME_STATUS_CHANGE" ->
         [v EXCEPT !.current_game_id = m.game_id, !.screen = "SCREEN_GAME_WAITING"]
    [] m.type = "MSG_ERROR" ->
         IF v.screen = "SCREEN_GAME_WAITING"
         THEN [v EXCEPT !.error_message = TRUE, !.current_game_id = 0, !.screen = "SCREEN_LOBBY"]
         ELSE [v EXCEPT !.error_message = TRUE]

-----------------------------------------------------------------------------
(* Messages of the client.  MSG_LEAVE_GAME carries no payload on the wire   *)
(* (send_message), whatever game id the interface puts into it.             *)
CreateCmd             == [type |-> "MSG_CREATE_GAME"]
ListCmd               == [type |-> "MSG_LIST_GAMES"]
JoinCmd(id)           == [type |-> "MSG_JOIN_GAME", game_id |-> id]
DecisionCmd(id, yes)  == [type |-> "MSG_JOIN_DECISION", game_id |-> id, accepted |-> yes]
MoveCmd(id, c)        == [type |-> "MSG_MOVE", game_id |-> id, cell |-> c]
PostGameCmd(id, yes)  == [type |-> "MSG_POST_GAME_OPTIONS", game_id |-> id,
                          winner_wants_to_continue |-> yes]
LeaveCmd              == [type |-> "MSG_LEAVE_GAME"]

\* The outcome of a key: the new state and the commands queued for the server.
Key(v, cmds) == [ui |-> v, cmds |-> cmds]
OnScreen(v, screen) == [v EXCEPT !.screen = screen]
GivenUp(v) == [v EXCEPT !.screen = "SCREEN_MAIN_MENU", !.current_game_id = 0]

MenuKeys(v) == {Key(v, <<CreateCmd>>), Key(OnScreen(v, "SCREEN_LOBBY"), <<ListCmd>>)}

LobbyKeys(v) ==
  {Key([v EXCEPT !.current_game_id = id, !.screen = "SCREEN_GAME_WAITING"], <<JoinCmd(id)>>) :
     id \in v.lobby_games}
  \cup {Key(v, <<ListCmd>>), Key(OnScreen(v, "SCREEN_MAIN_MENU"), <<>>)}

WaitingKeys(v) == {Key(GivenUp(v), <<LeaveCmd>>)}

InGameKeys(v) ==
  {Key(v, <<MoveCmd(v.current_game_id, c)>>) :
     c \in {c \in Cells : v.board[c] = " " /\ v.current_turn = v.player_role}}
  \cup {Key(GivenUp(v), <<LeaveCmd>>)}

JoinRequestKeys(v) ==
  {Key(OnScreen(v, "SCREEN_GAME_WAITING"), <<DecisionCmd(v.join_game_id, yes)>>) :
     yes \in BOOLEAN}
  \cup {Key(GivenUp(v), <<DecisionCmd(v.join_game_id, FALSE), LeaveCmd>>)}

PostGameKeys(v) ==
  {Key(OnScreen(v, "SCREEN_GAME_WAITING"), <<PostGameCmd(v.current_game_id, TRUE)>>),
   Key(OnScreen(v, "SCREEN_MAIN_MENU"), <<PostGameCmd(v.current_game_id, FALSE)>>)}

GameOverKeys(v) == {Key(GivenUp(v), <<LeaveCmd>>)}

(* handle_keyboard: while an error is shown, a key only dismisses it. *)
Keys(v) ==
  IF v.error_message
  THEN {Key([v EXCEPT !.error_message = FALSE], <<>>)}
  ELSE CASE v.screen = "SCREEN_MAIN_MENU"    -> MenuKeys(v)
         [] v.screen = "SCREEN_LOBBY"        -> LobbyKeys(v)
         [] v.screen = "SCREEN_GAME_WAITING" -> WaitingKeys(v)
         [] v.screen = "SCREEN_IN_GAME"      -> InGameKeys(v)
         [] v.screen = "SCREEN_JOIN_REQUEST" -> JoinRequestKeys(v)
         [] v.screen = "SCREEN_POST_GAME"    -> PostGameKeys(v)
         [] v.screen = "SCREEN_GAME_OVER"    -> GameOverKeys(v)
=============================================================================
