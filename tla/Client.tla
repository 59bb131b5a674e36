------------------------------- MODULE Client -------------------------------
(***************************************************************************)
(* The client process: the interface thread (ui_run in client/src/ui/ui.c, *)
(* with the keys and events of module UI), the network thread it starts    *)
(* and stops (client/src/network/network.c) and the two queues between     *)
(* them, which main creates and destroys (client/src/main.c).              *)
(*                                                                         *)
(* One step is one critical section of a queue, one access to the shared   *)
(* network_ctx or one call on the socket.  The server may send anything,   *)
(* at any time, and go away.  Memory does not run out.  No bound is put on *)
(* keys, messages or connections.                                          *)
(***************************************************************************)
EXTENDS Queue

CONSTANTS Cells, GameIds,
          Messages  \* what the server sends (all kinds, or fewer to bound a run)

INSTANCE UI

Commands == {CreateCmd, ListCmd, LeaveCmd}
              \cup {JoinCmd(id) : id \in GameIds}
              \cup {DecisionCmd(id, yes) : id \in GameIds \cup {0}, yes \in BOOLEAN}
              \cup {MoveCmd(id, c) : id \in GameIds \cup {0}, c \in Cells}
              \cup {PostGameCmd(id, yes) : id \in GameIds \cup {0}, yes \in BOOLEAN}

ServerMessages ==
  {ErrorMsg}
    \cup [type : {"MSG_LOBBY_UPDATE"}, games : SUBSET GameIds]
    \cup [type : {"MSG_GAME_START"}, game_id : GameIds, player_role : {"PLAYER_X", "PLAYER_O"}]
    \cup [type : {"MSG_GAME_STATE"}, game_id : GameIds, board : [Cells -> {" ", "X", "O"}],
          current_turn : {"PLAYER_X", "PLAYER_O"}]
    \cup [type : {"MSG_GAME_OVER"}, game_id : GameIds,
          winner : {"PLAYER_X", "PLAYER_O", "RESULT_DRAW"}]
    \cup [type : {"MSG_JOIN_REQUEST", "MSG_GAME_STATUS_CHANGE", "MSG_POST_GAME_OPTIONS"},
          game_id : GameIds]

ASSUME MessagesAssumption == Messages \subseteq ServerMessages
ASSUME ElementsAssumption == Commands \cup Messages \cup {ErrorMsg} \subseteq Elements

VARIABLES
  to_net, from_net,  \* commands for the network thread, events for the interface
  asleep,            \* the queues whose producer waits on not_full
  ui,                \* state of the interface
  upc,               \* where the interface thread is
  key,               \* outcome of the key at hand
  goal,              \* what follows once the network thread has been stopped
  ctx,               \* the network_ctx; not live if the pointer is NULL
  npc,               \* where the network thread is, "none" if there is no thread
  event,             \* the event it is about to push, and where it goes on after that
  link               \* its socket: "none", "open", connected and "up", or at its "eof"

uvars == <<ui, upc, key, goal>>
nvars == <<npc, event>>
cvars == <<to_net, from_net, asleep, ui, upc, key, goal, ctx, npc, event, link>>

NoKey == Key(InitialUI, <<>>)
NoCtx == [live |-> FALSE, sock |-> FALSE, running |-> FALSE]
NoEvent == [ev |-> ErrorMsg, next |-> "none"]

ClientInit ==
  /\ to_net = queue_create /\ from_net = queue_create /\ asleep = {}
  /\ ui = InitialUI /\ upc = "events" /\ key = NoKey /\ goal = "start"
  /\ ctx = NoCtx /\ npc = "none" /\ event = NoEvent /\ link = "none"

-----------------------------------------------------------------------------
(* The queues.  Each has one producer, which blocks while it is full, and   *)
(* one consumer, which never blocks: queue_try_pop.                         *)
push_to_net(cmd) == /\ ~IsFull(to_net)
                    /\ to_net' = Pushed(to_net, cmd)
                    /\ UNCHANGED <<from_net, asleep>>

\* Mutant: a full queue makes room by dropping its oldest element.
PushOverOldest(ev) ==
  /\ from_net' = Pushed(IF IsFull(from_net) THEN Popped(from_net) ELSE from_net, ev)
  /\ UNCHANGED <<to_net, asleep>>

push_from_net(ev) == /\ ~IsFull(from_net)
                     /\ from_net' = Pushed(from_net, ev)
                     /\ UNCHANGED <<to_net, asleep>>

\* pthread_cond_wait, until the consumer signals.
wait_not_full(name, q) == /\ IsFull(q) /\ name \notin asleep
                          /\ asleep' = asleep \cup {name}
                          /\ UNCHANGED <<to_net, from_net>>

\* Mutant: the producer is not signalled.
PopSilently == /\ ~IsEmpty(to_net)
               /\ to_net' = Popped(to_net)
               /\ UNCHANGED <<from_net, asleep>>

pop_to_net == /\ ~IsEmpty(to_net)
              /\ to_net' = Popped(to_net)
              /\ asleep' = asleep \ {"to_net"}
              /\ UNCHANGED from_net
pop_from_net == /\ ~IsEmpty(from_net)
                /\ from_net' = Popped(from_net)
                /\ asleep' = asleep \ {"from_net"}
                /\ UNCHANGED to_net

queues == <<to_net, from_net, asleep>>

-----------------------------------------------------------------------------
(* The interface thread: events, then a key or a timeout of getch, for ever. *)
Goto(pc) == upc' = pc /\ UNCHANGED <<ui, key, goal>>
Stop(for) == upc' = "stop" /\ goal' = for /\ UNCHANGED <<ui, key>>
Failed == /\ ui' = [ui EXCEPT !.error_message = TRUE]
          /\ key' = NoKey /\ upc' = "events"
          /\ UNCHANGED goal

ui_event ==
  /\ upc = "events"
  /\ \/ /\ pop_from_net
        /\ ui' = handle_event(ui, Front(from_net))
        /\ UNCHANGED <<upc, key, goal>>
     \/ /\ IsEmpty(from_net)
        /\ Goto("key")
        /\ UNCHANGED queues
  /\ UNCHANGED <<ctx, nvars, link>>

(* The keys of the menu need a connection; those of the other screens queue *)
(* their commands without looking.                                          *)
handle_key ==
  /\ upc = "key"
  /\ \E k \in Keys(ui) :
       /\ key' = k
       /\ upc' = CASE k.cmds = <<>> -> "done"
                   [] k.cmds # <<>> /\ ui.screen = "SCREEN_MAIN_MENU" -> "ensure"
                   [] OTHER -> "push"
  /\ UNCHANGED <<queues, ui, goal, ctx, nvars, link>>

no_key == /\ upc = "key" /\ Goto("events")
          /\ UNCHANGED <<queues, ctx, nvars, link>>

ui_stop ==
  /\ upc = "key" /\ ui.screen = "SCREEN_MAIN_MENU" /\ ~ui.error_message
  /\ IF ctx.live THEN Stop("exit") ELSE Goto("drain")
  /\ UNCHANGED <<queues, ctx, nvars, link>>

key_done ==
  /\ upc = "done"
  /\ ui' = key.ui /\ key' = NoKey /\ upc' = "events"
  /\ UNCHANGED <<queues, goal, ctx, nvars, link>>

\* queue_push of the commands of a key, one after the other.
ui_push ==
  /\ upc = "push" /\ "to_net" \notin asleep
  /\ \/ /\ push_to_net(Head(key.cmds))
        /\ key' = [key EXCEPT !.cmds = Tail(@)]
        /\ upc' = IF Len(key.cmds) = 1 THEN "done" ELSE "push"
     \/ /\ wait_not_full("to_net", to_net)
        /\ UNCHANGED <<key, upc>>
  /\ UNCHANGED <<ui, goal, ctx, nvars, link>>

\* The socket is stored before connect(): true also while connecting.
network_is_connected == ctx.sock /\ ctx.running

(* ensure_network_connected.  is_connected is set as long as there is a     *)
(* network_ctx.                                                             *)
ensure_network_connected ==
  /\ upc = "ensure"
  /\ CASE ctx.live /\ network_is_connected -> Goto("push")
       [] ctx.live /\ ~network_is_connected -> Stop("start")
       [] OTHER -> Goto("start")
  /\ UNCHANGED <<queues, ctx, nvars, link>>

\* pthread_create can fail.
network_start ==
  /\ upc = "start"
  /\ \/ /\ ctx' = [live |-> TRUE, sock |-> FALSE, running |-> TRUE]
        /\ npc' = "socket"
        /\ Goto("confirm")
     \/ Failed /\ UNCHANGED <<ctx, npc>>
  /\ UNCHANGED <<queues, event, link>>

\* After 100 ms, in which the network thread may have done much or nothing.
confirm_connected ==
  /\ upc = "confirm"
  /\ IF network_is_connected THEN Goto("push") ELSE Stop("fail")
  /\ UNCHANGED <<queues, ctx, nvars, link>>

\* Mutant: the flag is left to the socket.
StopBySocket ==
  /\ upc = "stop"
  /\ Goto("shutdown")
  /\ UNCHANGED <<queues, ctx, nvars, link>>

network_stop ==
  /\ upc = "stop"
  /\ ctx' = [ctx EXCEPT !.running = FALSE]
  /\ Goto("shutdown")
  /\ UNCHANGED <<queues, nvars, link>>

network_shutdown ==
  /\ upc = "shutdown"
  /\ link' = IF ctx.sock /\ link = "up" THEN "eof" ELSE link
  /\ Goto("join")
  /\ UNCHANGED <<queues, ctx, nvars>>

\* Mutant: the thread is not waited for.
DestroyAtOnce ==
  /\ upc = "join"
  /\ ctx' = NoCtx
  /\ CASE goal = "start" -> Goto("start")
       [] goal = "fail"  -> Failed
       [] goal = "exit"  -> Goto("drain")
  /\ UNCHANGED <<queues, nvars, link>>

\* network_wait and network_destroy
network_wait ==
  /\ upc = "join" /\ npc = "none"
  /\ ctx' = NoCtx
  /\ CASE goal = "start" -> Goto("start")
       [] goal = "fail"  -> Failed
       [] goal = "exit"  -> Goto("drain")
  /\ UNCHANGED <<queues, nvars, link>>

\* Mutant: events left over are not freed.
DrainNothing ==
  /\ upc = "drain"
  /\ Goto("destroy_to_net")
  /\ UNCHANGED <<queues, ctx, nvars, link>>

\* The end of ui_run.
ui_drain ==
  /\ upc = "drain"
  /\ IF IsEmpty(from_net)
     THEN Goto("destroy_to_net") /\ UNCHANGED queues
     ELSE pop_from_net /\ UNCHANGED uvars
  /\ UNCHANGED <<ctx, nvars, link>>

\* Mutant: the assertion is compiled out.
DestroyAnyway ==
  /\ upc = "destroy_to_net"
  /\ to_net' = Destroyed(to_net) /\ asleep' = asleep \ {"to_net"} /\ Goto("destroy_from_net")
  /\ UNCHANGED <<from_net, ctx, nvars, link>>

\* The end of main: queue_destroy asserts that the queue is empty.
destroy_to_net ==
  /\ upc = "destroy_to_net"
  /\ IF IsEmpty(to_net)
     THEN to_net' = Destroyed(to_net) /\ asleep' = asleep \ {"to_net"} /\ Goto("destroy_from_net")
     ELSE UNCHANGED <<to_net, asleep>> /\ Goto("aborted")
  /\ UNCHANGED <<from_net, ctx, nvars, link>>

destroy_from_net ==
  /\ upc = "destroy_from_net"
  /\ IF IsEmpty(from_net)
     THEN from_net' = Destroyed(from_net) /\ asleep' = asleep \ {"from_net"} /\ Goto("exited")
     ELSE UNCHANGED <<from_net, asleep>> /\ Goto("aborted")
  /\ UNCHANGED <<to_net, ctx, nvars, link>>

UIThread ==
  \/ ui_event \/ handle_key \/ no_key \/ ui_stop \/ key_done \/ ui_push
  \/ ensure_network_connected \/ network_start \/ confirm_connected
  \/ network_stop \/ network_shutdown \/ network_wait
  \/ ui_drain \/ destroy_to_net \/ destroy_from_net

-----------------------------------------------------------------------------
(* The network thread. *)
NetGoto(pc) == npc' = pc /\ UNCHANGED event
Report(ev, next) == npc' = "push" /\ event' = [ev |-> ev, next |-> next]

(* send() and recv() have no timeout: the peer may never read, or never     *)
(* send the rest of a message.  A call that returns late but by itself is   *)
(* an ordinary one; this is one that does not.                              *)
Block(next) == link = "up" /\ npc' = "blocked" /\ event' = [ev |-> ErrorMsg, next |-> next]

\* thread_exit_error does not empty to_net.
thread_exit_error == Report(ErrorMsg, "close")

net_socket ==
  /\ npc = "socket"
  /\ \/ /\ ctx' = [ctx EXCEPT !.sock = TRUE]
        /\ link' = "open"
        /\ NetGoto("connect")
     \/ thread_exit_error /\ UNCHANGED <<ctx, link>>
  /\ UNCHANGED <<queues, uvars>>

\* The address is parsed and the connection made; the user name is sent and forgotten.
net_connect ==
  /\ npc = "connect"
  /\ \/ link' = "up" /\ NetGoto("loop")
     \/ thread_exit_error /\ UNCHANGED link
  /\ UNCHANGED <<queues, uvars, ctx>>

net_loop ==
  /\ npc = "loop"
  /\ NetGoto(IF ctx.running THEN "pop" ELSE "drain")
  /\ UNCHANGED <<queues, uvars, ctx, link>>

net_pop ==
  /\ npc = "pop"
  /\ \/ pop_to_net /\ NetGoto("send")
     \/ IsEmpty(to_net) /\ NetGoto(IF ctx.running THEN "poll" ELSE "drain") /\ UNCHANGED queues
  /\ UNCHANGED <<uvars, ctx, link>>

\* A send can still succeed after the peer has gone.
net_send ==
  /\ npc = "send"
  /\ \/ NetGoto("pop")
     \/ link = "eof" /\ Report(ErrorMsg, "send_failed")
     \/ Block("send_failed")
  /\ UNCHANGED <<queues, uvars, ctx, link>>

send_failed ==
  /\ npc = "send_failed"
  /\ ctx' = [ctx EXCEPT !.running = FALSE]
  /\ NetGoto("drain")
  /\ UNCHANGED <<queues, uvars, link>>

(* There is something to read, or poll times out or is interrupted, or an   *)
(* error of poll ends the loop.                                             *)
net_poll ==
  /\ npc = "poll"
  /\ NetGoto("receive") \/ NetGoto("loop") \/ NetGoto("drain")
  /\ UNCHANGED <<queues, uvars, ctx, link>>

(* A message is there as a whole and becomes an event, or it is malformed   *)
(* or the connection ends before the rest of it comes, or recv() blocks.    *)
receive_message ==
  /\ npc = "receive"
  /\ \/ \E m \in Messages : Report(m, "loop")
     \/ Report(ErrorMsg, "drain")
     \/ Block("drain")
  /\ UNCHANGED <<queues, uvars, ctx, link>>

\* Only the end of the connection gets the thread out of the call, with an error.
net_unblock ==
  /\ npc = "blocked" /\ link = "eof"
  /\ npc' = "push" /\ UNCHANGED event
  /\ UNCHANGED <<queues, uvars, ctx, link>>

net_push ==
  /\ npc = "push" /\ "from_net" \notin asleep
  /\ \/ /\ push_from_net(event.ev)
        /\ npc' = event.next /\ event' = NoEvent
     \/ wait_not_full("from_net", from_net) /\ UNCHANGED nvars
  /\ UNCHANGED <<uvars, ctx, link>>

drain_message_queue ==
  /\ npc = "drain"
  /\ \/ pop_to_net /\ UNCHANGED nvars
     \/ IsEmpty(to_net) /\ NetGoto("close") /\ UNCHANGED queues
  /\ UNCHANGED <<uvars, ctx, link>>

net_close ==
  /\ npc = "close"
  /\ ctx' = [ctx EXCEPT !.sock = FALSE]
  /\ link' = "none"
  /\ NetGoto("last")
  /\ UNCHANGED <<queues, uvars>>

net_exit ==
  /\ npc = "last"
  /\ ctx' = [ctx EXCEPT !.running = FALSE]
  /\ NetGoto("none")
  /\ UNCHANGED <<queues, uvars, link>>

NetThread ==
  \/ net_socket \/ net_connect \/ net_loop \/ net_pop \/ net_send \/ send_failed
  \/ net_poll \/ receive_message \/ net_unblock \/ net_push \/ drain_message_queue \/ net_close \/ net_exit

\* The server closes the connection or dies.
PeerCloses == /\ link = "up" /\ link' = "eof"
              /\ UNCHANGED <<queues, uvars, ctx, nvars>>

ClientNext == UIThread \/ NetThread \/ PeerCloses

ClientSpec == ClientInit /\ [][ClientNext]_cvars

(* Both threads are scheduled; getch and poll time out, connect gives up,   *)
(* and a send or recv that blocks returns once the connection has ended.    *)
FairClientSpec == ClientSpec /\ WF_cvars(UIThread) /\ WF_cvars(NetThread)

-----------------------------------------------------------------------------
(* Type correctness, and the ring of each queue: head, tail and count agree *)
(* after every push and pop of either thread.                               *)
ClientTypeOK ==
  /\ RingOK(to_net) /\ RingOK(from_net)
  /\ asleep \subseteq {"to_net", "from_net"}
  /\ ui \in UIState
  /\ key.ui \in UIState /\ key.cmds \in Seq(Commands)
  /\ ctx \in [live : BOOLEAN, sock : BOOLEAN, running : BOOLEAN]
  /\ event.ev \in Messages \cup {ErrorMsg}
  /\ link \in {"none", "open", "up", "eof"}

(* Each queue of the client is a bounded first-in first-out channel between *)
(* its two threads (queue.c:85-125), over all connections of one run.       *)
ToNet == INSTANCE Fifo WITH items <- Contents(to_net), closed <- to_net.destroyed
FromNet == INSTANCE Fifo WITH items <- Contents(from_net), closed <- from_net.destroyed
CommandsAreFifo == ToNet!Spec
EventsAreFifo == FromNet!Spec

(* The network_ctx is freed (ui.c:111, 126, 913) and the queues destroyed   *)
(* (main.c:27) only when no network thread is left to use them, and a       *)
(* thread that has ended has closed its socket, on whichever path it ended. *)
ThreadWithinLifetime ==
  /\ npc # "none" => ctx.live /\ ~to_net.destroyed /\ ~from_net.destroyed
  /\ npc = "none" => link = "none" /\ ~network_is_connected

(* The events left over when the interface ends are freed (ui.c:916-919)    *)
(* after the last thread that could add one has ended: the assertion of     *)
(* queue_destroy (queue.c:70) holds of from_net.                            *)
NoEventLeft == upc \in {"destroy_to_net", "destroy_from_net"} => IsEmpty(from_net)

(* A thread that waits for room in a queue is woken by whoever makes room:  *)
(* it is never left asleep (queue.c:92, 122) with an element taken since,   *)
(* across stops and restarts of the other thread.  What can hang the client *)
(* is only a queue that is full and has no consumer.                        *)
NoLostWakeup ==
  /\ "to_net" \in asleep => IsFull(to_net) /\ upc = "push"
  /\ "from_net" \in asleep => IsFull(from_net) /\ npc = "push"

(* Stopping the network thread (network.c:246-262) ends, whatever it is     *)
(* doing, unless it is stuck pushing into a full from_net, which nobody     *)
(* empties while the interface waits.                                       *)
JoinReturns == upc = "join" ~> (upc # "join" \/ IsFull(from_net))

(* A key whose command has to wait for room in to_net (ui.c:486 and others) *)
(* does not stop the interface, as long as there is a network thread and    *)
(* from_net is not full as well.  Excepted is a network thread that never   *)
(* comes back from a send, or from a recv in which it waits for the rest of *)
(* a message (protocol.c:519, 559): with no timeout there, one message that *)
(* never becomes complete holds up the key for ever.                        *)
PushReturns ==
  upc = "push" ~> (upc # "push" \/ npc \in {"none", "blocked"} \/ IsFull(from_net))

-----------------------------------------------------------------------------
(* "queue_destroy: called with elements still in queue" (queue.c:71) does   *)
(* not happen to to_net: nothing is left in it once the threads have ended. *)
NoCommandLeft == upc = "destroy_to_net" => IsEmpty(to_net)
=============================================================================
