---------------------------- MODULE ClientProofs ----------------------------
(***************************************************************************)
(* Proofs about Client for every capacity of the queues and every set of   *)
(* messages of the server.                                                 *)
(***************************************************************************)
EXTENDS Client, QueueProofs

Events == Messages \cup {ErrorMsg}

-----------------------------------------------------------------------------
(* The interface. *)

(* The types of the server's messages, and what handle_event reads of each. *)
LEMMA EventFields ==
  ASSUME NEW m \in Events
  PROVE  \/ m.type = "MSG_ERROR"
         \/ m.type = "MSG_LOBBY_UPDATE" /\ m.games \in SUBSET GameIds
         \/ /\ m.type = "MSG_GAME_START" /\ m.game_id \in GameIds
            /\ m.player_role \in {"PLAYER_X", "PLAYER_O"}
         \/ /\ m.type = "MSG_GAME_STATE" /\ m.game_id \in GameIds
            /\ m.board \in [Cells -> {" ", "X", "O", "NUL"}]
            /\ m.current_turn \in {"PLAYER_X", "PLAYER_O"}
         \/ m.type = "MSG_GAME_OVER"
         \/ m.type = "MSG_JOIN_REQUEST" /\ m.game_id \in GameIds
         \/ m.type = "MSG_GAME_STATUS_CHANGE" /\ m.game_id \in GameIds
         \/ m.type = "MSG_POST_GAME_OPTIONS"
<1>1. m \in ServerMessages
  BY MessagesAssumption, Zenon DEF Events, ServerMessages
<1>2. CASE m = ErrorMsg
  BY <1>2 DEF ErrorMsg
<1>3. CASE m # ErrorMsg
  BY <1>1, <1>3 DEF ServerMessages
<1> QED
  BY <1>2, <1>3

(* An event leaves the interface in one of its states. *)
LEMMA HandleEventType ==
  ASSUME NEW v \in UIState, NEW m \in Events
  PROVE  handle_event(v, m) \in UIState
<1> USE DEF UIState, Screens
<1>1. CASE m.type = "MSG_ERROR"
  BY <1>1 DEF handle_event
<1>2. CASE m.type = "MSG_LOBBY_UPDATE" /\ m.games \in SUBSET GameIds
  BY <1>2 DEF handle_event
<1>3. CASE /\ m.type = "MSG_GAME_START" /\ m.game_id \in GameIds
           /\ m.player_role \in {"PLAYER_X", "PLAYER_O"}
  BY <1>3 DEF handle_event
<1>4. CASE /\ m.type = "MSG_GAME_STATE" /\ m.game_id \in GameIds
           /\ m.board \in [Cells -> {" ", "X", "O", "NUL"}]
           /\ m.current_turn \in {"PLAYER_X", "PLAYER_O"}
  BY <1>4 DEF handle_event
<1>5. CASE m.type = "MSG_GAME_OVER" \/ m.type = "MSG_POST_GAME_OPTIONS"
  BY <1>5 DEF handle_event
<1>6. CASE m.type = "MSG_JOIN_REQUEST" /\ m.game_id \in GameIds
  BY <1>6 DEF handle_event
<1>7. CASE m.type = "MSG_GAME_STATUS_CHANGE" /\ m.game_id \in GameIds
  BY <1>7 DEF handle_event
<1> QED
  BY <1>1, <1>2, <1>3, <1>4, <1>5, <1>6, <1>7, EventFields, Zenon

\* The outcomes of keys.
KeyType == [ui : UIState, cmds : Seq(Commands)]

(* Every key leads to a state of the interface and to known commands. *)
LEMMA KeysType ==
  ASSUME NEW v \in UIState, NEW k \in Keys(v)
  PROVE  k \in KeyType
<1> DEFINE Game == GameIds \cup {0}
<1>1. \A screen \in Screens : OnScreen(v, screen) \in UIState
  BY DEF OnScreen, UIState
<1>2. GivenUp(v) \in UIState
  BY DEF GivenUp, UIState, Screens
<1>3. /\ CreateCmd \in Commands /\ ListCmd \in Commands /\ LeaveCmd \in Commands
      /\ \A id \in GameIds : JoinCmd(id) \in Commands
      /\ \A id \in Game, yes \in BOOLEAN :
           DecisionCmd(id, yes) \in Commands /\ PostGameCmd(id, yes) \in Commands
      /\ \A id \in Game, c \in Cells : MoveCmd(id, c) \in Commands
  BY DEF Commands
<1>4. v.current_game_id \in Game /\ v.join_game_id \in Game /\ v.lobby_games \subseteq GameIds
  BY DEF UIState
<1>5. \A w \in UIState, c \in Commands : Key(w, <<c>>) \in KeyType
  BY DEF Key, KeyType
<1>6. \A w \in UIState, c, d \in Commands : Key(w, <<c, d>>) \in KeyType
  BY DEF Key, KeyType
<1>7. \A w \in UIState : Key(w, <<>>) \in KeyType
  BY DEF Key, KeyType
<1>8. /\ \A id \in GameIds : [v EXCEPT !.current_game_id = id, !.screen = "SCREEN_GAME_WAITING"]
                               \in UIState
      /\ [v EXCEPT !.error_message = FALSE] \in UIState
  BY DEF UIState, Screens
<1> HIDE DEF KeyType
<1>9. MenuKeys(v) \subseteq KeyType
  BY <1>1, <1>3, <1>5 DEF MenuKeys, Screens
<1>10. LobbyKeys(v) \subseteq KeyType
  BY <1>1, <1>3, <1>4, <1>5, <1>7, <1>8 DEF LobbyKeys, Screens
<1>11. WaitingKeys(v) \subseteq KeyType /\ GameOverKeys(v) \subseteq KeyType
  BY <1>2, <1>3, <1>5 DEF WaitingKeys, GameOverKeys
<1>12. InGameKeys(v) \subseteq KeyType
  BY <1>2, <1>3, <1>4, <1>5 DEF InGameKeys
<1>13. JoinRequestKeys(v) \subseteq KeyType
  BY <1>1, <1>2, <1>3, <1>4, <1>5, <1>6, ZenonT(40) DEF JoinRequestKeys, Screens
<1>14. PostGameKeys(v) \subseteq KeyType
  BY <1>1, <1>3, <1>4, <1>5 DEF PostGameKeys, Screens
<1>15. v.screen \in Screens
  BY DEF UIState
<1> QED
  BY <1>7, <1>8, <1>9, <1>10, <1>11, <1>12, <1>13, <1>14, <1>15 DEF Keys, Screens

-----------------------------------------------------------------------------
(* The inductive invariant. *)

UIPoints == {"events", "key", "done", "ensure", "push", "start", "confirm", "stop", "shutdown",
             "join", "drain", "destroy_to_net", "destroy_from_net", "exited", "aborted"}
NetPoints == {"none", "socket", "connect", "loop", "pop", "send", "send_failed", "poll", "receive",
              "blocked", "push", "drain", "close", "last"}

QueueTypes ==
  /\ RingOK(to_net) /\ Contents(to_net) \in Seq(Commands)
  /\ RingOK(from_net) /\ Contents(from_net) \in Seq(Events)
  /\ asleep \subseteq {"to_net", "from_net"}

\* On the way to a push there is a command to push.
UITypes ==
  /\ ui \in UIState /\ key \in KeyType
  /\ upc \in UIPoints /\ goal \in {"start", "fail", "exit"}
  /\ upc \in {"push", "ensure", "start", "confirm"} => key.cmds # <<>>
  /\ upc \in {"stop", "shutdown", "join"} /\ goal = "start" => key.cmds # <<>>

NetTypes ==
  /\ ctx \in [live : BOOLEAN, sock : BOOLEAN, running : BOOLEAN]
  /\ npc \in NetPoints /\ event \in [ev : Events, next : NetPoints]
  /\ npc \in {"push", "blocked"} => event.next \in {"close", "send_failed", "loop", "drain"}
  /\ link \in {"none", "open", "up", "eof"}

\* Where the interface thread has no network_ctx, where it has one, and what is destroyed.
Lifetime ==
  /\ npc # "none" => ctx.live
  /\ upc \in {"start", "drain", "destroy_to_net", "destroy_from_net", "exited", "aborted"}
       => ~ctx.live
  /\ upc \in {"confirm", "stop", "shutdown", "join"} => ctx.live
  /\ to_net.destroyed => upc \in {"destroy_from_net", "exited", "aborted"}
  /\ from_net.destroyed => upc = "exited"
  /\ npc = "none" => ~ctx.running
  /\ link # "none" => npc \notin {"none", "last", "socket"}

CInv == QueueTypes /\ UITypes /\ NetTypes /\ Lifetime /\ NoEventLeft

(* What each queue can undergo in a step: one operation at most, none once  *)
(* it is destroyed, and only queue_destroy destroys it.                     *)
LEMMA ToNetStep ==
  ASSUME CInv, [ClientNext]_cvars
  PROVE  /\ QueueStep(to_net, to_net', Commands)
         /\ destroy_to_net \/ to_net'.destroyed = to_net.destroyed
<1> USE DEF CInv, QueueStep
<1>0. RingOK(to_net) /\ Commands \subseteq Elements
  BY ElementsAssumption DEF QueueTypes
<1>1. CASE UNCHANGED to_net
  BY <1>1
<1>2. CASE ui_push
  <2>1. CASE push_to_net(Head(key.cmds))
    <3>1. Head(key.cmds) \in Commands
      <4>1. key.cmds \in Seq(Commands) /\ key.cmds # <<>>
        BY <1>2 DEF ui_push, UITypes, KeyType
      <4> QED BY <4>1
    <3>2. ~to_net.destroyed
      BY <1>2 DEF ui_push, Lifetime
    <3> QED BY <1>0, <2>1, <3>1, <3>2, PushedRing DEF push_to_net
  <2> QED BY <1>1, <1>2, <2>1 DEF ui_push, wait_not_full
<1>3. CASE net_pop \/ drain_message_queue
  <2>1. ~to_net.destroyed
    BY <1>3 DEF net_pop, drain_message_queue, Lifetime
  <2> QED BY <1>0, <1>3, <2>1, PoppedRing DEF net_pop, drain_message_queue, pop_to_net, queues
<1>4. CASE destroy_to_net
  <2>1. ~to_net.destroyed
    BY <1>4 DEF destroy_to_net, Lifetime
  <2> QED BY <1>4, <2>1 DEF destroy_to_net
<1>5. CASE UIThread /\ ~ui_push /\ ~destroy_to_net
  <2>1. UNCHANGED to_net
    BY <1>5 DEF UIThread, ui_event, handle_key, no_key, ui_stop, key_done,
                ensure_network_connected, network_start, confirm_connected, network_stop,
                network_shutdown, network_wait, ui_drain, destroy_from_net, pop_from_net, queues
  <2> QED BY <1>1, <2>1
<1>6. CASE (NetThread /\ ~net_pop /\ ~drain_message_queue) \/ PeerCloses \/ UNCHANGED cvars
  <2>1. UNCHANGED to_net
    BY <1>6 DEF NetThread, net_socket, net_connect, net_loop, net_send, send_failed, net_poll,
                receive_message, net_unblock, net_push, net_close, net_exit,
                push_from_net, wait_not_full, queues, PeerCloses, cvars
  <2> QED BY <1>1, <2>1
<1> QED
  BY <1>2, <1>3, <1>4, <1>5, <1>6 DEF ClientNext

LEMMA FromNetStep ==
  ASSUME CInv, [ClientNext]_cvars
  PROVE  /\ QueueStep(from_net, from_net', Events)
         /\ destroy_from_net \/ from_net'.destroyed = from_net.destroyed
<1> USE DEF CInv, QueueStep
<1>0. RingOK(from_net) /\ Events \subseteq Elements
  BY ElementsAssumption DEF QueueTypes, Events
<1>1. CASE UNCHANGED from_net
  BY <1>1
<1>2. CASE net_push
  <2>1. event.ev \in Events /\ ~from_net.destroyed
    BY <1>2 DEF net_push, NetTypes, Lifetime
  <2> QED BY <1>0, <1>2, <2>1, PushedRing DEF net_push, push_from_net, wait_not_full
<1>3. CASE ui_event \/ ui_drain
  <2>1. ~from_net.destroyed
    BY <1>3 DEF ui_event, ui_drain, Lifetime
  <2> QED BY <1>0, <1>3, <2>1, PoppedRing DEF ui_event, ui_drain, pop_from_net, queues
<1>4. CASE destroy_from_net
  <2>1. ~from_net.destroyed
    BY <1>4 DEF destroy_from_net, Lifetime
  <2> QED BY <1>4, <2>1 DEF destroy_from_net
<1>5. CASE UIThread /\ ~ui_event /\ ~ui_drain /\ ~destroy_from_net
  <2>1. UNCHANGED from_net
    BY <1>5 DEF UIThread, handle_key, no_key, ui_stop, key_done, ui_push,
                ensure_network_connected, network_start, confirm_connected, network_stop,
                network_shutdown, network_wait, destroy_to_net, push_to_net, wait_not_full, queues
  <2> QED BY <1>1, <2>1
<1>6. CASE (NetThread /\ ~net_push) \/ PeerCloses \/ UNCHANGED cvars
  <2>1. UNCHANGED from_net
    BY <1>6 DEF NetThread, net_socket, net_connect, net_loop, net_pop, net_send, send_failed,
                net_poll, receive_message, net_unblock, drain_message_queue,
                net_close, net_exit, pop_to_net, queues, PeerCloses, cvars
  <2> QED BY <1>1, <2>1
<1> QED
  BY <1>2, <1>3, <1>4, <1>5, <1>6 DEF ClientNext

(* The queues hold what their producers put there. *)
LEMMA QueueTypesStep == CInv /\ [ClientNext]_cvars => QueueTypes'
<1> SUFFICES ASSUME CInv, [ClientNext]_cvars PROVE QueueTypes'
  OBVIOUS
<1>1. Commands \subseteq Elements /\ Events \subseteq Elements
  BY ElementsAssumption DEF Events
<1>2. RingOK(to_net') /\ Contents(to_net') \in Seq(Commands)
  BY <1>1, ToNetStep, QueueStepIsFifo DEF CInv, QueueTypes
<1>3. RingOK(from_net') /\ Contents(from_net') \in Seq(Events)
  BY <1>1, FromNetStep, QueueStepIsFifo DEF CInv, QueueTypes
<1>4. asleep' \subseteq {"to_net", "from_net"}
  <2>1. asleep \subseteq {"to_net", "from_net"}
    BY DEF CInv, QueueTypes
  <2>2. CASE UIThread
    BY <2>1, <2>2 DEF UIThread, ui_event, handle_key, no_key, ui_stop, key_done, ui_push,
                ensure_network_connected, network_start, confirm_connected, network_stop,
                network_shutdown, network_wait, ui_drain, destroy_to_net, destroy_from_net,
                push_to_net, pop_from_net, wait_not_full, queues
  <2>3. CASE NetThread \/ PeerCloses \/ UNCHANGED cvars
    BY <2>1, <2>3 DEF NetThread, net_socket, net_connect, net_loop, net_pop, net_send,
                send_failed, net_poll, receive_message, net_unblock, net_push,
                drain_message_queue, net_close, net_exit, push_from_net,
                pop_to_net, wait_not_full, queues, PeerCloses, cvars
  <2> QED BY <2>2, <2>3 DEF ClientNext
<1> QED
  BY <1>2, <1>3, <1>4 DEF QueueTypes

(* The interface stays in its states, and a key whose command is still to   *)
(* be sent is kept through a reconnection.                                  *)
LEMMA UITypesStep == CInv /\ [ClientNext]_cvars => UITypes'
<1> SUFFICES ASSUME CInv, [ClientNext]_cvars PROVE UITypes'
  OBVIOUS
<1>1. ASSUME UNCHANGED uvars
      PROVE  UITypes'
  BY <1>1 DEF CInv, UITypes, uvars
<1>2. CASE NetThread \/ PeerCloses \/ UNCHANGED cvars
  <2>1. UNCHANGED uvars
    BY <1>2 DEF NetThread, net_socket, net_connect, net_loop, net_pop, net_send, send_failed,
                net_poll, receive_message, net_unblock, net_push,
                drain_message_queue, net_close, net_exit, uvars, PeerCloses,
                cvars
  <2> QED BY <1>1, <2>1
<1>3. NoKey \in KeyType /\ [ui EXCEPT !.error_message = TRUE] \in UIState
  <2>1. InitialUI \in UIState
    BY DEF InitialUI, UIState, Screens
  <2>2. [ui EXCEPT !.error_message = TRUE] \in UIState
    BY DEF CInv, UITypes, UIState
  <2> QED BY <2>1, <2>2 DEF NoKey, Key, KeyType
<1>4. CASE ui_event
  <2>1. CASE pop_from_net /\ ui' = handle_event(ui, Front(from_net)) /\ UNCHANGED <<upc, key, goal>>
    <3>1. Contents(from_net) # <<>> /\ Front(from_net) = Head(Contents(from_net))
      BY <2>1, PoppedRing DEF pop_from_net, CInv, QueueTypes
    <3>2. Contents(from_net) \in Seq(Events)
      BY DEF CInv, QueueTypes
    <3>3. Front(from_net) \in Events
      BY <3>1, <3>2
    <3>4. ui' \in UIState
      BY <2>1, <3>3, HandleEventType DEF CInv, UITypes
    <3> QED BY <2>1, <3>4 DEF CInv, UITypes
  <2>2. CASE Goto("key")
    BY <2>2 DEF CInv, UITypes, Goto, UIPoints
  <2> QED BY <1>4, <2>1, <2>2 DEF ui_event
<1>5. CASE handle_key
  <2>1. PICK k \in Keys(ui) :
          /\ key' = k
          /\ upc' = CASE k.cmds = <<>> -> "done"
                      [] k.cmds # <<>> /\ ui.screen = "SCREEN_MAIN_MENU" -> "ensure"
                      [] OTHER -> "push"
    BY <1>5 DEF handle_key
  <2>2. k \in KeyType
    BY KeysType DEF CInv, UITypes
  <2>3. \/ upc' = "done"
        \/ upc' \in {"ensure", "push"} /\ key'.cmds # <<>>
    BY <2>1
  <2> QED BY <1>5, <2>1, <2>2, <2>3 DEF handle_key, CInv, UITypes, UIPoints
<1>6. CASE key_done
  <2>1. key.ui \in UIState
    BY DEF CInv, UITypes, KeyType
  <2> QED BY <1>3, <1>6, <2>1 DEF key_done, CInv, UITypes, UIPoints
<1>7. CASE ui_push
  <2>1. key.cmds \in Seq(Commands) /\ key.cmds # <<>> /\ key.ui \in UIState
    BY <1>7 DEF ui_push, CInv, UITypes, KeyType
  <2>2. CASE key' = [key EXCEPT !.cmds = Tail(@)] /\ upc' = IF Len(key.cmds) = 1 THEN "done" ELSE "push"
    <3>1. Tail(key.cmds) \in Seq(Commands) /\ (Len(key.cmds) # 1 => Tail(key.cmds) # <<>>)
      <4>1. Len(key.cmds) \in Nat /\ Len(key.cmds) # 0
        BY <2>1
      <4>2. Tail(key.cmds) \in Seq(Commands) /\ Len(Tail(key.cmds)) = Len(key.cmds) - 1
        BY <2>1
      <4>3. \A q \in Seq(Commands) : Len(q) # 0 => q # <<>>
        OBVIOUS
      <4>4. Len(key.cmds) # 1 => Len(Tail(key.cmds)) # 0
        BY <4>1, <4>2
      <4> QED BY <4>2, <4>3, <4>4, Zenon
    <3>2. key' \in KeyType /\ key'.cmds = Tail(key.cmds)
      BY <2>2, <3>1 DEF CInv, UITypes, KeyType
    <3> QED BY <1>7, <2>2, <3>1, <3>2 DEF ui_push, CInv, UITypes, UIPoints
  <2> QED BY <1>1, <1>7, <2>2 DEF ui_push, uvars
<1>8. CASE no_key \/ ui_stop \/ ensure_network_connected \/ confirm_connected \/ network_stop
             \/ network_shutdown \/ destroy_to_net \/ destroy_from_net
  BY <1>8 DEF no_key, ui_stop, ensure_network_connected, confirm_connected, network_stop,
              network_shutdown, destroy_to_net, destroy_from_net, Goto, Stop, CInv, UITypes,
              UIPoints
<1>9. CASE network_start \/ network_wait
  BY <1>3, <1>9 DEF network_start, network_wait, Goto, Failed, CInv, UITypes, UIPoints
<1>10. CASE ui_drain
  BY <1>1, <1>10 DEF ui_drain, Goto, CInv, UITypes, UIPoints
<1> QED
  BY <1>2, <1>4, <1>5, <1>6, <1>7, <1>8, <1>9, <1>10 DEF ClientNext, UIThread

(* The network thread and its context stay in their states. *)
LEMMA NetTypesStep == CInv /\ [ClientNext]_cvars => NetTypes'
<1> SUFFICES ASSUME CInv, [ClientNext]_cvars PROVE NetTypes'
  OBVIOUS
<1> USE DEF CInv, NetTypes, NetPoints
<1> DEFINE Ctxs == [live : BOOLEAN, sock : BOOLEAN, running : BOOLEAN]
<1>0. /\ NoCtx \in Ctxs /\ [live |-> TRUE, sock |-> FALSE, running |-> TRUE] \in Ctxs
      /\ \A b \in BOOLEAN : [ctx EXCEPT !.running = b] \in Ctxs /\ [ctx EXCEPT !.sock = b] \in Ctxs
  BY DEF NoCtx
<1>1. CASE UNCHANGED cvars
  BY <1>1 DEF cvars
<1>2. CASE ui_event \/ handle_key \/ no_key \/ ui_stop \/ key_done \/ ui_push
             \/ ensure_network_connected \/ confirm_connected \/ ui_drain \/ destroy_to_net
             \/ destroy_from_net
  BY <1>2 DEF ui_event, handle_key, no_key, ui_stop, key_done, ui_push,
              ensure_network_connected, confirm_connected, ui_drain, destroy_to_net,
              destroy_from_net, nvars
<1>3. CASE network_start
  BY <1>0, <1>3 DEF network_start
<1>4. CASE network_stop \/ network_shutdown \/ network_wait
  BY <1>0, <1>4 DEF network_stop, network_shutdown, network_wait, nvars
<1>5. ErrorMsg \in Events /\ Messages \subseteq Events
  BY DEF Events
<1>6. CASE net_socket \/ net_connect \/ net_send
  <2>1. \A next \in NetPoints : [ev |-> ErrorMsg, next |-> next] \in [ev : Events, next : NetPoints]
    BY <1>5
  <2>2. CASE net_socket
    BY <1>0, <2>1, <2>2, ZenonT(40) DEF net_socket, NetGoto, thread_exit_error, Report
  <2>3. CASE net_connect
    BY <2>1, <2>3 DEF net_connect, NetGoto, thread_exit_error, Report
  <2>4. CASE net_send
    BY <2>1, <2>4 DEF net_send, NetGoto, Report, Block
  <2> QED BY <1>6, <2>2, <2>3, <2>4
<1>7. CASE net_loop \/ net_pop \/ send_failed \/ drain_message_queue \/ net_close \/ net_exit
  BY <1>0, <1>7 DEF net_loop, net_pop, send_failed, drain_message_queue, net_close, net_exit, NetGoto,
              nvars
<1>8. CASE net_poll
  BY <1>8 DEF net_poll, NetGoto
<1>11. CASE receive_message \/ net_unblock
  BY <1>5, <1>11 DEF receive_message, net_unblock, Report, Block
<1>9. CASE net_push
  BY <1>5, <1>9 DEF net_push, NoEvent, nvars
<1>10. CASE PeerCloses
  BY <1>10 DEF PeerCloses, nvars
<1> QED
  BY <1>1, <1>2, <1>3, <1>4, <1>6, <1>7, <1>8, <1>9, <1>10, <1>11
     DEF ClientNext, UIThread, NetThread

(* The network_ctx and the queues outlive the thread that uses them. *)
LEMMA LifetimeStep == CInv /\ [ClientNext]_cvars => Lifetime'
<1> SUFFICES ASSUME CInv, [ClientNext]_cvars PROVE Lifetime'
  OBVIOUS
<1> USE DEF Lifetime
<1>1. /\ Lifetime /\ ctx \in [live : BOOLEAN, sock : BOOLEAN, running : BOOLEAN]
      /\ upc \in UIPoints /\ npc \in NetPoints
      /\ npc \in {"push", "blocked"} => event.next \in {"close", "send_failed", "loop", "drain"}
  BY DEF CInv, UITypes, NetTypes
<1>2. /\ destroy_to_net \/ to_net'.destroyed = to_net.destroyed
      /\ destroy_from_net \/ from_net'.destroyed = from_net.destroyed
  BY ToNetStep, FromNetStep
<1>3. CASE destroy_to_net \/ destroy_from_net
  BY <1>1, <1>2, <1>3 DEF destroy_to_net, destroy_from_net, Goto, nvars
<1>4. ASSUME to_net'.destroyed = to_net.destroyed, from_net'.destroyed = from_net.destroyed
      PROVE  Lifetime'
  <2>1. CASE UNCHANGED cvars
    BY <1>1, <1>4, <2>1 DEF cvars
  <2>2. CASE ui_event \/ handle_key \/ no_key \/ ui_stop \/ key_done \/ ui_push
    BY <1>1, <1>4, <2>2 DEF ui_event, handle_key, no_key, ui_stop, key_done, ui_push, Goto, Stop,
                            nvars
  <2>3. CASE ensure_network_connected \/ confirm_connected
    BY <1>1, <1>4, <2>3 DEF ensure_network_connected, confirm_connected, Goto, Stop, nvars
  <2>4. CASE network_start
    BY <1>1, <1>4, <2>4 DEF network_start, Goto, Failed
  <2>5. CASE network_stop \/ network_shutdown
    BY <1>1, <1>4, <2>5 DEF network_stop, network_shutdown, Goto, nvars
  <2>6. CASE network_wait
    <3>1. goal \in {"start", "fail", "exit"}
      BY DEF CInv, UITypes
    <3> QED BY <1>1, <1>4, <2>6, <3>1 DEF network_wait, Goto, Failed, NoCtx, nvars
  <2>7. CASE ui_drain
    BY <1>1, <1>4, <2>7 DEF ui_drain, Goto, uvars, nvars
  <2>8. CASE net_socket \/ net_connect
    BY <1>1, <1>4, <2>8 DEF net_socket, net_connect, NetGoto, thread_exit_error, Report, uvars
  <2>9. CASE net_loop \/ net_pop \/ net_poll \/ drain_message_queue
    BY <1>1, <1>4, <2>9 DEF net_loop, net_pop, net_poll, drain_message_queue, NetGoto, uvars, nvars
  <2>13. CASE net_send \/ receive_message \/ net_unblock
    BY <1>1, <1>4, <2>13 DEF net_send, receive_message, net_unblock, NetGoto, Report, Block, uvars
  <2>10. CASE send_failed \/ net_close \/ net_exit
    BY <1>1, <1>4, <2>10 DEF send_failed, net_close, net_exit, NetGoto, uvars
  <2>11. CASE net_push
    BY <1>1, <1>4, <2>11 DEF net_push, uvars, nvars
  <2>12. CASE PeerCloses
    BY <1>1, <1>4, <2>12 DEF PeerCloses, uvars, nvars
  <2> QED BY <1>3, <2>1, <2>2, <2>3, <2>4, <2>5, <2>6, <2>7, <2>8, <2>9, <2>10, <2>11, <2>12, <2>13
          DEF ClientNext, UIThread, NetThread
<1> QED
  BY <1>2, <1>3, <1>4

(* Nothing is added to from_net once the interface has emptied it for the   *)
(* last time: there is no thread left to do so.                             *)
LEMMA NoEventLeftStep == CInv /\ [ClientNext]_cvars => NoEventLeft'
<1> SUFFICES ASSUME CInv, [ClientNext]_cvars, (upc \in {"destroy_to_net", "destroy_from_net"})'
             PROVE  IsEmpty(from_net)'
  BY DEF NoEventLeft
<1>1. upc' \in {"destroy_to_net", "destroy_from_net"}
  OBVIOUS
<1>2. CASE UNCHANGED <<upc, from_net>>
  BY <1>1, <1>2 DEF CInv, NoEventLeft, IsEmpty
<1>3. CASE UIThread
  <2>1. \/ upc = "drain" /\ ui_drain
        \/ upc = "destroy_to_net" /\ destroy_to_net
    BY <1>1, <1>3 DEF UIThread, ui_event, handle_key, no_key, ui_stop, key_done, ui_push,
                ensure_network_connected, network_start, confirm_connected, network_stop,
                network_shutdown, network_wait, ui_drain, destroy_to_net, destroy_from_net,
                Goto, Stop, Failed, uvars, CInv, UITypes
  <2>2. CASE ui_drain
    BY <1>1, <2>2 DEF ui_drain, uvars, queues, IsEmpty
  <2>3. CASE upc = "destroy_to_net" /\ destroy_to_net
    BY <2>3 DEF destroy_to_net, CInv, NoEventLeft, IsEmpty
  <2> QED BY <2>1, <2>2, <2>3
<1>4. CASE NetThread
  <2>1. UNCHANGED upc /\ npc # "none"
    BY <1>4 DEF NetThread, net_socket, net_connect, net_loop, net_pop, net_send, send_failed,
                net_poll, receive_message, net_unblock, net_push,
                drain_message_queue, net_close, net_exit, uvars
  <2> QED BY <1>1, <2>1 DEF CInv, Lifetime
<1>5. CASE PeerCloses \/ UNCHANGED cvars
  BY <1>2, <1>5 DEF PeerCloses, cvars, queues, uvars
<1> QED
  BY <1>3, <1>4, <1>5 DEF ClientNext

-----------------------------------------------------------------------------
(* The invariant holds in every reachable state of the client. *)
THEOREM ClientInvariance == ClientSpec => []CInv
<1>1. ClientInit => CInv
  <2> SUFFICES ASSUME ClientInit PROVE CInv
    OBVIOUS
  <2> USE DEF ClientInit
  <2>1. QueueTypes
    BY CreatedRing DEF QueueTypes
  <2>2. UITypes
    <3>1. InitialUI \in UIState
      BY DEF InitialUI, UIState, Screens
    <3>2. NoKey \in KeyType
      BY <3>1 DEF NoKey, Key, KeyType
    <3> QED BY <3>1, <3>2 DEF UITypes, UIPoints
  <2>3. NetTypes
    BY DEF NetTypes, NetPoints, NoCtx, NoEvent, Events
  <2>4. Lifetime
    BY DEF Lifetime, NoCtx, queue_create
  <2> QED BY <2>1, <2>2, <2>3, <2>4 DEF CInv, NoEventLeft
<1>2. CInv /\ [ClientNext]_cvars => CInv'
  BY QueueTypesStep, UITypesStep, NetTypesStep, LifetimeStep, NoEventLeftStep DEF CInv
<1> QED
  BY <1>1, <1>2, PTL DEF ClientSpec

(* The rings of both queues and the state of the interface are well formed, *)
(* for every capacity and whatever the server sends.                        *)
THEOREM ClientTypeCorrect == ClientSpec => []ClientTypeOK
<1>1. CInv => ClientTypeOK
  BY DEF CInv, QueueTypes, UITypes, NetTypes, KeyType, Events, ClientTypeOK
<1> QED
  BY <1>1, ClientInvariance, PTL

(* No thread outlives its network_ctx or the queues, and none ends with its *)
(* socket open.                                                             *)
THEOREM ThreadLifetime == ClientSpec => []ThreadWithinLifetime
<1>1. CInv => ThreadWithinLifetime
  BY DEF CInv, Lifetime, NetTypes, ThreadWithinLifetime, network_is_connected
<1> QED
  BY <1>1, ClientInvariance, PTL

(* from_net is empty when it is destroyed: the assertion of queue_destroy   *)
(* never stops the client because of an event.                              *)
THEOREM EventsFreed == ClientSpec => []NoEventLeft
<1>1. CInv => NoEventLeft
  BY DEF CInv
<1> QED
  BY <1>1, ClientInvariance, PTL

(* to_net implements a bounded first-in first-out channel. *)
THEOREM CommandsImplementFifo == ClientSpec => CommandsAreFifo
<1>1. ClientInit => ToNet!Init
  BY CreatedRing DEF ClientInit, ToNet!Init, queue_create
<1>2. CInv /\ [ClientNext]_cvars => [ToNet!Next]_<<Contents(to_net), to_net.destroyed>>
  <2> SUFFICES ASSUME CInv, [ClientNext]_cvars
               PROVE  [ToNet!Next]_<<Contents(to_net), to_net.destroyed>>
    OBVIOUS
  <2>1. RingOK(to_net) /\ Contents(to_net) \in Seq(Commands) /\ Commands \in SUBSET Elements
    BY ElementsAssumption DEF CInv, QueueTypes
  <2> QED BY <2>1, ToNetStep, QueueStepIsFifo
          DEF ToNet!Next, ToNet!Enqueue, ToNet!Dequeue, ToNet!Close
<1> QED
  BY <1>1, <1>2, ClientInvariance, PTL DEF ClientSpec, CommandsAreFifo, ToNet!Spec

(* from_net implements a bounded first-in first-out channel. *)
THEOREM EventsImplementFifo == ClientSpec => EventsAreFifo
<1>1. ClientInit => FromNet!Init
  BY CreatedRing DEF ClientInit, FromNet!Init, queue_create
<1>2. CInv /\ [ClientNext]_cvars => [FromNet!Next]_<<Contents(from_net), from_net.destroyed>>
  <2> SUFFICES ASSUME CInv, [ClientNext]_cvars
               PROVE  [FromNet!Next]_<<Contents(from_net), from_net.destroyed>>
    OBVIOUS
  <2>1. RingOK(from_net) /\ Contents(from_net) \in Seq(Events) /\ Events \in SUBSET Elements
    BY ElementsAssumption DEF CInv, QueueTypes, Events
  <2> QED BY <2>1, FromNetStep, QueueStepIsFifo
          DEF FromNet!Next, FromNet!Enqueue, FromNet!Dequeue, FromNet!Close
<1> QED
  BY <1>1, <1>2, ClientInvariance, PTL DEF ClientSpec, EventsAreFifo, FromNet!Spec

(* No wake-up is lost: a thread sleeps in queue_push exactly while its queue is full, for    *)
(* every capacity, over every reconnection and whatever the server sends.                    *)
THEOREM NoLostWakeupProved == ClientSpec => []NoLostWakeup
<1>1. ClientInit => NoLostWakeup
  BY DEF ClientInit, NoLostWakeup
<1>2. CInv /\ NoLostWakeup /\ [ClientNext]_cvars => NoLostWakeup'
  <2> SUFFICES ASSUME CInv, NoLostWakeup, [ClientNext]_cvars
               PROVE  NoLostWakeup'
    OBVIOUS
  <2> USE DEF NoLostWakeup, IsFull
  <2>1. CASE UNCHANGED queues /\ UNCHANGED <<upc, npc>>
    BY <2>1 DEF queues
  <2>2. CASE ui_push
    BY <2>2 DEF ui_push, push_to_net, wait_not_full, nvars
  <2>3. CASE net_push
    BY <2>3 DEF net_push, push_from_net, wait_not_full, nvars, uvars
  <2>4. CASE net_pop \/ drain_message_queue
    BY <2>4 DEF net_pop, drain_message_queue, pop_to_net, queues, nvars, uvars, NetGoto
  <2>5. CASE ui_event \/ ui_drain
    BY <2>5 DEF ui_event, ui_drain, pop_from_net, queues, nvars, uvars, Goto
  <2>6. CASE destroy_to_net \/ destroy_from_net
    BY <2>6 DEF destroy_to_net, destroy_from_net, nvars, Goto
  <2>7. CASE network_start
    BY <2>7 DEF network_start, queues, Goto, Failed, CInv, Lifetime
  <2>8. CASE handle_key \/ no_key \/ ui_stop \/ key_done \/ ensure_network_connected
             \/ confirm_connected \/ network_stop \/ network_shutdown \/ network_wait
    BY <2>8 DEF handle_key, no_key, ui_stop, key_done, ensure_network_connected,
                confirm_connected, network_stop, network_shutdown, network_wait, queues, nvars
  <2>9. CASE net_socket \/ net_connect \/ net_loop \/ net_send \/ send_failed \/ net_poll
             \/ receive_message \/ net_unblock \/ net_close \/ net_exit
    BY <2>9 DEF net_socket, net_connect, net_loop, net_send, send_failed, net_poll,
                receive_message, net_unblock, net_close, net_exit, queues, uvars
  <2>10. CASE PeerCloses \/ UNCHANGED cvars
    BY <2>1, <2>10 DEF PeerCloses, cvars, queues, uvars, nvars
  <2> QED
    BY <2>2, <2>3, <2>4, <2>5, <2>6, <2>7, <2>8, <2>9, <2>10 DEF ClientNext, UIThread, NetThread
<1> QED
  BY <1>1, <1>2, ClientInvariance, PTL DEF ClientSpec
=============================================================================
