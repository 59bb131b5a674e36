# Tris: a verification project

TLA+ models of the multiplayer tic-tac-toe in this repository (a multi-threaded
C server and an ncurses client), the TLC instances that check them, and TLAPS
proofs about the core. Source paths below are relative to the repository.

## 1. Inventory

| Component | State | Operations | Correct when |
|---|---|---|---|
| Game rules, `server/src/game.c` | `struct Game`: three seats (X, O, waiting joiner), board, turn, state, results, post-game answers | create, join, decide on a join, move, leave, post-game decision | turn, board and results agree; seats are filled in order; the winner keeps the game |
| List and locks, `server/src/game.c` | `gm->head`, `gm->tail`, `gm->lock`, each `g->lock`, `next_game_id` | lookup hand over hand, append, unlink and free, list, scan | the list is intact, freed memory is not used, calls are atomic, no deadlock |
| Client table, `server/src/server.c` | `clients[]`, `active_clients_count`, `clients_mutex` | `add_client`, `remove_client`, lookups by descriptor | one row per open connection; it agrees with the seats |
| Handlers, `server/src/client_handler.c` | none of their own: locals kept between manager calls, table updates and sends | one handler per message type, lobby broadcast | what the clients are told matches what the manager did |
| Protocol, `common/` | none | serialization, `send_message`, `receive_message` | what is sent is what is received |
| Client interface, `client/src/ui/ui.c` | `UIState` | `handle_event`, `handle_keyboard` | the screen shows the game the server plays |
| Client network thread, `client/src/network/network.c` | `network_ctx`: the socket and the running flag | start, connect, poll loop, stop, join, destroy | it uses nothing that has been freed, its socket is closed, it can be stopped |
| Client queues, `client/src/utils/queue.c` | a ring buffer with read index, write index and count; a lock, two condition variables | blocking push, `queue_try_pop`, destroy | first in first out, nothing lost, empty when destroyed, nobody blocks for ever |
| Server process, `server/src/main.c`, `handle_client` | `keep_running`, `active_thread_count`, the descriptors | accept, close all sockets, wait, destroy the manager | no thread uses another's descriptor or what is destroyed; a signal ends it |

Components meet in four ways: handlers call the manager (locks inside), handlers
read and write the client table (`clients_mutex`), threads send on each other's
sockets (no lock at all), and the client's two threads exchange commands and events
through queues and share the `network_ctx` (atomics). The hard behaviours follow from
this: a handler is many atomic steps between which other threads run; messages of two
threads to one client are unordered and can even mix; descriptors are identities in
the game records and are reused by the kernel; a long-lived game record passes
through many matches and owners; both programs stop threads that may be blocked.
`PROJECT.json` lists each hazard with its line.

## 2. Modules

| Module | Models | Notes |
|---|---|---|
| `Game` | the record and, as operators, the body of each manager function under `g->lock` | board and lines are constants: 3x3 and smaller boards use the same definitions |
| `GameManager` | the manager's API as atomic actions on a table id → game, called by anyone with anything | the type invariant, safety invariants and action properties of the core |
| `GameManagerProofs` | the theorems | section 5 |
| `GameTable` | the abstract promise of the list: every call is one step | |
| `GameList` | the linked list, the two levels of locks, memory reuse; one shared access per step | refines `GameTable` |
| `GameListProofs` | theorems about the list, the refinement included | section 5 |
| `UI` | `handle_event` and `handle_keyboard` as functions of the interface's state | |
| `Server` | connections, client table, handlers and clients together; extends `GameManager`, instantiates `UI` | `todo[s]` is the rest of the program of the thread of descriptor `s` |
| `ServerProofs` | theorems about the server, among them that it implements `GameManager` | section 5 |
| `LobbyProofs` | theorems about the server on which no join is decided on | section 5 |
| `Shutdown` | the life of the server process: `main`, and `handle_client` reduced to its connection, its row and its place in the thread counter | every thread's requests are one step that uses the manager, and for some the lobby update: descriptors collected under the lock, then one send after the other |
| `ShutdownProofs` | theorems about `Shutdown` | section 5 |
| `Wire` | `send_message` and `receive_message` over one direction of a TCP connection, with any number of senders | the unit of the stream is a field |
| `WireProofs` | theorems about the stream | section 5 |
| `Queue` | the ring buffer, one operator per critical section | |
| `Fifo` | the abstract promise of a queue to its two ends | |
| `Client` | the client process: interface thread, network thread, both queues, start and end; extends `Queue`, instantiates `UI` | refines `Fifo` twice |
| `QueueProofs`, `ClientProofs` | theorems about the ring and the client | section 5 |
| `Rematch` | the handlers reduced to their manager calls, with clients that follow the protocol | only for the question of the post-game flags |
| `MC*` | values of the constants for TLC | |

**Correspondence.** Names are the source's. In `Server`, each action is one manager
call, one critical section of `clients_mutex` or one send; the local variables a
handler carries from one to the next are fields of the steps in `todo`. An early
return drops the rest (`Return`), a normal step replaces itself (`Then`). A handler's
trailing broadcast is part of the sequence it starts with. `GameList` justifies
treating a manager call as one step in `Server` and `GameManager`.

In `Client` a step is one critical section of a queue, one access to the `network_ctx`
or one call on the socket; `upc` and `npc` are the program counters of the two
threads. Waiting on `not_full` is explicit: the producer is in `asleep` until the
consumer's signal takes it out. `ensure_network_connected` is spread over the points
`ensure`, `stop`, `shutdown`, `join`, `start`, `confirm` and `push`, with `goal`
saying what follows the join; the same points serve the end of `ui_run`. Any key may be
pressed on any screen (`Keys` of `UI`), and the server may send any message of
`Messages` at any time or go away. It may also stop half-way through a message, or stop
reading: then the network thread is `blocked` in `recv()` or `send()`, which have no
timeout, until the connection ends. `thread_exit_error` and the regular end differ, as
in the code: only the latter drains the command queue. In `Shutdown` a descriptor
refers to a connection (`conn`), so that closing it, reusing it and closing it a second
time can be told apart; `close()` does not wake a thread blocked in `recv()`. `main`
tests `keep_running` (`check`), may be interrupted by the signal's handler before it
calls `accept()` (`call_accept`), and is interrupted by it once inside (`accept`). In `Wire`
a field carries the call it comes from, which the receiver never looks at and the
properties do.

**Abstractions.** Of a game `GameList` keeps the id, the owner and one guest seat,
which is all that decides whether a game is freed, listed or scanned up to its state.
In `Server` a message takes effect on the client when it is sent, while requests
queue: a key pressed before a late message arrives is a key pressed before that
message was sent, whose request is received late. User names, drawing, cursor and
settings are left out. `MSG_LEAVE_GAME` carries no id, because `send_message` drops
it. The fields nothing reads (`winner_stays`, `waiting_player_username`, the server's
`player_role`) are not kept. `MSG_SET_USERNAME` is not sent. `Wire` counts lengths in
fields and not in bytes; the limit of 1024 is kept as it is, and only a header made of
another message's fields exceeds it. In `Client` memory does not run out and
`UI_EVENT_DISCONNECTED` does not occur, because `receive_message` never returns -2: the
end of a connection shows as a receive error. In `GameList` the state of a game is not
kept: any answer of a seated client may be the one that settles who goes on, and what a
creator reads from its game after unlocking is not followed. In `Shutdown` only the lobby
update is sent to other clients; replies and messages to the seats of a game are left out.

**Bounds.** `MaxGames`, `MaxId` (games ever created), `ListMax` (10 in the program),
`ScanMax` (128, the games a departing client's scan collects), `MAX_CLIENTS` (100),
`InboxMax` (a key that sends is pressed only with fewer requests waiting),
`MaxConnects`, `MaxQuits`, `Requests`, the kinds of request users make in a run, and
`Eager`, those they also make while their previous request is being handled (all, but
the request for a listing in `server_draw`); `Capacity` (64), `Messages` (what the
server sends the client), `MaxThreads` (connections ever accepted), `MaxWait` (50 naps),
`MaxCalls` (calls of `send_message`), `Types` (message types sent).

## 3. Runs that pass

| Run | Checks | Instance |
|---|---|---|
| `manager` | `TypeOK`, `PendingJoinIsOpen`, `OrphanIsOpen`, `TurnMatchesBoard`, `OutcomeMatchesBoard`, `BoardStep`, `IdsNeverReused`, `SeatStep`, `WinnerContinues` | the program's own board and eight lines, three clients, two games, of which two at a time only while neither has a mark on its board |
| `list_safety` | `TypeOK`, `ListWellFormed`, `NoUseAfterFree`, `OnlyScanRaces`, `SnapshotIsExact`, `NoDeadlock` | three threads, two blocks of memory, two games, listings of one entry and scans of one game: the limits bite |
| `list_progress` | `ImplementsTable`, `ManagerReleased` | two threads, two games, with fairness |
| `server_full` | `ServerTypeOK`, `SlotIntegrity`, `ServedHaveRow` | three users, two descriptors, one row, four connections, four departures |
| `server_leave` | `OwnerConnected` | two users, four connections, two departures; create, list, join, leave |
| `server_draw` | `RolesAgree`, `SeatedArePlaying`, `ShownMarksAreReal` | two users who stay, one game on three cells without a line, so that a match is three moves and a draw, all answers, one request waiting besides the one being handled; states of two moves, and of two matches, overtake each other |
| `client` | `ClientTypeOK`, `ThreadWithinLifetime`, `NoEventLeft`, `CommandsAreFifo`, `EventsAreFifo`, `NoLostWakeup`, `JoinReturns`, `PushReturns` | queues of two elements, so that both fill up and wrap around; one game, one cell; the server sends waits and errors; any number of keys, connections and failures |
| `shutdown` | `ShutdownTypeOK`, `DescriptorsNotShared`, `OrderlyDestroy`, `StopEnds` | four connections over two descriptors, one row in the table, two naps |
| `wire` | `WireTypeOK`, `IntactUnlessMixed`, `WaitsOnlyForSenders`, `EveryMessageArrives` | two senders, two calls, payloads of no, one and two fields |

Small instances suffice where the argument is about pairs: two threads conflict on
one game or on two neighbouring nodes, two sends race to one client. A third client
matters for the three seats of a game and for the full table, a third thread for a
lookup, a listing and a removal at once. A queue of two elements is the smallest that
is neither full nor empty at some time; one row and two descriptors are enough for a
refused client and for a descriptor that is closed, given out again and closed by its
former owner. Two calls are enough for one message to follow another, and for two to
mix. The safety properties of the manager, the list, the table of clients, the wire,
the client and the shutdown do not rest on the bounds at all: they are proved
(section 5). The exception is `server_draw`, whose bounds are part of the claim (below).

Seven properties name the exceptions the code really has.

- `NoUseAfterFree` excepts the creator's read of the new id after unlocking (game.c:240).
- `DescriptorsNotShared` says of a broadcast, which sends after releasing the lock, that it
  reaches a stranger only in place of a client that its own thread has dismissed since.
- `OrderlyDestroy` excepts a wait that ran out, and threads that had not counted themselves.
- `StopEnds` excepts a signal between the test of `keep_running` and `accept()`: `main` is
  then in `accept()` with the flag cleared, until the next connection or signal.
- `JoinReturns` excepts a full event queue: the network thread then waits for the interface,
  and the interface for the thread.
- `PushReturns` excepts the same, a key pressed after the thread has ended, whose commands
  nobody takes, and a network thread that is blocked in `send()` or `recv()`.
- `IntactUnlessMixed` excepts overlapping calls of `send_message` for one socket, which the
  server's threads can make.

With 64 elements, and an interface that empties the event queue about every 150 ms, a queue
is full only after a burst of messages, or behind a network thread that is blocked.

The scope of four properties is part of what they say.

- `OwnerConnected` is checked, and proved, with pending joins but without accepted ones:
  beyond that it fails for the reason `server_dead` shows (a departed joiner is accepted,
  and its descriptor belongs to someone else by then).
- `SeatedArePlaying` is proved under the same condition, in which seats are those of
  creators (`OwnersArePlaying`).
- `RolesAgree`, `ShownMarksAreReal` and, with matches, `SeatedArePlaying` are checked of two
  users who play one game, stay connected and have one request waiting at a time. They are
  not laws of the program: section 4 gives a behaviour with three users that violates
  `RolesAgree`, and one with two users and type-ahead that violates `SeatedArePlaying`. So
  `server_draw` says that the handlers agree with each other under these conditions, which
  is what its mutants break, and no theorem extends it.

Leaving, deciding and moving all together exceed what TLC enumerates here (section 6).
Runs of `Server` end where the bounds on connections
and games end, so deadlock is not checked there; nor in the runs of `GameManager`,
where a finished game may offer no further call once ids are used up. `Client` and
`Shutdown` end (or, in `Client`, reach one of the two deadlocks just named), `Wire`
stops when all calls are made or the connection is broken. `GameList` checks deadlock.

**Fairness.** `list_progress` assumes weak fairness of each thread's next step inside
an API function: the scheduler runs threads that can run, and a free mutex is
eventually acquired when it stays free. Nothing is assumed about threads entering
functions. Weak fairness suffices for `ManagerReleased` because a thread holding
`gm->lock` waits at most for a game's lock, whose holder needs no other lock.
`client` assumes weak fairness of the interface thread and of the network thread, each
as a whole: both are scheduled, `getch` and `poll` return because they have timeouts, and
`connect` because the kernel gives up. Nothing of the kind is assumed of `send` and `recv`:
the model lets either block, and then only the end of the connection lets it return, which
`network_stop` brings about by `shutdown()`. `shutdown` assumes it only of the steps `main`
takes without waiting for a connection; nothing is assumed of threads and clients.
`wire` assumes that a `send()` on an unbroken connection returns and that the receiver
goes on reading; nothing is assumed of the calls of `send_message`.

Each property has a mutant in `PROJECT.json`: an operator next to the definition it
replaces, marked *Mutant*, with a plausible slip that the property catches.

## 4. Where the code and its texts disagree

| Run | Violated | What happens |
|---|---|---|
| `rematch_draw` | `DrawNeedsBoth` | `handle_win_post_game` leaves the received flags set; after a later draw one answer decides; README.md:14: both decide |
| `server_dead` | `PlayersConnected` | a queued joiner's seat survives its disconnection and can be accepted |
| `client_quit` | `NoCommandLeft` | a command is queued while the connection is being made (`network_is_connected` looks at the socket, which is stored before `connect()`), the connection fails, `thread_exit_error` leaves the command in the queue, the user quits, and `queue_destroy` stops the program by its assertion, although all threads have ended, as its text demands |

If the user does not quit but connects again, that command is the first thing sent on
the new connection. Further situations can be read off the models and have no run of
their own:

- `game_manager_cleanup_creator_games` reads `player_x_socket` without the game's lock
  (game.c:164) while a post-game decision writes it. `OnlyScanRaces` shows that nothing
  else races.
- States are sent after the lock is released (client_handler.c:420): an older one can
  arrive last, after the state of a later move or of a later match, and both players then
  wait for each other. With the three moves of a match of `server_draw` this happens (TLC
  reaches a screen at rest that lacks the last move); `ShownMarksAreReal`, that a screen
  never shows at rest a mark which the running match does not have, holds all the same.
- "Press ESC to cancel" (ui.c:228) does nothing for games other than game 0, because
  the id is not transmitted (protocol.c:456).
- Two server threads that send to one client at the same time can mix their messages on
  the wire (protocol.c:485); the receiver then gives up or waits for bytes that do not
  come: there is no timeout, so its network thread takes no more commands, and a key that
  finds the queue full waits with it until the connection ends. `IntactUnlessMixed` says that
  nothing else damages a message.
- A lobby update is sent to descriptors collected before the lock was released
  (client_handler.c:80). A client may leave in between and its descriptor be given to a new
  connection, which then gets an update it did not need. `DescriptorsNotShared` bounds this.
- A stop signal that arrives after the test of main.c:49 and before `accept()` is called does
  not interrupt it; the server stops when the next client connects or the signal is repeated.
- An owner who leaves while a join is pending, and whose rejection is handled after
  that, leaves a game in the lobby that nobody owns (game.c:326); so does declining a
  rematch after the owner has asked for one and left (game.c:91). `OrphanIsOpen` shows
  that such a game can at least be joined, and is freed when the joiner leaves.
- A joiner whose `MSG_LEAVE_GAME` is handled while the owner's thread is still sending
  the start of the match is marked as playing afterwards (client_handler.c:318-327) and
  refused every later game.
- The announcements after a match are made by whichever thread came second, which reads
  the players anew (client_handler.c:464) and then marks and tells them. Three users, one
  game: A and B draw, A answers yes and B no; the thread of B, which is to announce the
  reopened game, is delayed. C joins A's game and is accepted, and now the thread of B reads
  A and C as the players. They draw, A declines, C becomes the owner, A joins again and is
  accepted. Then the thread of B sends its `MSG_GAME_START`: A takes itself for X and C for
  O, while the server has it the other way round, and neither can move. `RolesAgree` is
  violated, with nobody disconnecting.
- An error returns a waiting client to the lobby whatever the error is about (ui.c:800). A
  client that pressed a move twice, then joined a game, is sent back by the failure of the
  second move and can create a game while it is queued in the other; accepted there, it
  holds seats in two games and its row names one. `SeatedArePlaying` is violated.
- `game_manager_create_game` reads the id of the new game after unlocking (game.c:240). The
  game is in the list by then. Another client can join it, accept itself, because
  `game_manager_join_decision` does not look at who decides, answer a post-game question,
  because no state is checked either, become the owner and leave: the game is freed and the
  creator reads freed memory. Without the exception that `NoUseAfterFree` makes for this
  read, TLC finds such a behaviour on the instance of `list_safety`.
- The comment "notify all active clients by closing their sockets" (main.c:89) is true
  only of clients whose thread is not blocked in `recv()`: the connection of a blocked
  one stays up, and the wait of main.c:103 runs out.

## 5. Proofs

`GameManagerProofs` proves for every board, sequence of lines, set of descriptors
and bound on the games, from the assumptions named in `Game` and `GameManager`
(cells finite and not empty, lines non-empty sets of cells, `NoSocket` not a
descriptor, `MaxGames` a natural number):

- `Invariance`: `Spec => []IInv`, with
  `IInv == TypeOK /\ PendingJoinIsOpen /\ TurnMatchesBoard /\ OutcomeMatchesBoard`;
- `TypeCorrect`, `JoinSafety`, `TurnSafety`, `OutcomeSafety`: its four parts;
- `OrphanSafety`: a game whose seats are all empty can be joined;
- `BoardStepProved`, `SeatStepProved`, `WinnerContinuesProved`,
  `IdsNeverReusedProved`: the action properties.

Why the conjunction: accepting a join does not look at the state, so that it starts
a match on an empty, undecided board needs `PendingJoinIsOpen` (the game is waiting)
and the part of `OutcomeMatchesBoard` that says a waiting game has an empty board;
neither is inductive alone. A winning move is classified by its line: the proof
shows that the first complete line in scan order has the mover's mark, because
placing a mark cannot complete a line of the opponent and no line was complete
before. The turn is a count: placing adds one element to one of two finite sets.

The argument is organised by what happens to one game: a lemma per operator of
`Game` states its type and what it preserves (`MovedSound`, `PostGameCases`, ...),
`StepCases` reduces `Next` to "one game is created, removed or replaced by one of
these operators", and the rest follows game by game. The action properties use
`IInv` and the same case analysis (`TableStep`).

`ShutdownProofs` proves for every number of connections, rows and naps and every finite
set of descriptors: `ShutdownTypeCorrect` (the thread counter is exact),
`DescriptorSafety` and `OrderlyShutdown`. The invariant adds to the types that the
counters are the cardinalities of what they count (`Counts`), that a live thread's
descriptor refers to its own connection, or to none once `main` has closed the clients
(`Owned`), and that after the wait only threads that were not counted are left, unless
it ran out (`Waited`). `Owned` is what makes double closing harmless: until `main` has
stopped accepting only the thread itself gives its descriptor back. For the broadcasts it
adds that no two threads have the same descriptor (`Distinct`), that every row in use is
that of a thread being served, and no two of the same one (`Rows`), so that what a broadcast
collects stands for live connections (`Targets`), and that a collected descriptor still
refers to the connection it stood for unless that one has been closed by its own thread or
by `main` (`Sent`).

`QueueProofs` proves, for every capacity, that pushing appends to the contents of the
ring and popping takes their head; the core is that indices modulo the capacity do not
collide (`PlacesDiffer`). `ClientProofs` carries this to the running client, for every
capacity and whatever the server sends: `ClientTypeCorrect`, `ThreadLifetime`,
`EventsFreed`, `NoLostWakeupProved`, and the refinements `CommandsImplementFifo` and
`EventsImplementFifo`.
The invariant `CInv` says where the interface thread has a `network_ctx` and where it
has none, that a thread implies a context, and that a key on its way to a push has a
command; the queues can be destroyed only at points without a context, hence without a
thread. `NoLostWakeupProved`, on top of it, says that the producer of a queue sleeps only
while the queue is full: the wake-up is not lost between the test and the wait, nor across
a stop and a restart. Every step does at most one operation on each queue (`ToNetStep`,
`FromNetStep`), and `QueueStepIsFifo` maps it to a step of `Fifo` or to a stutter.

`GameListProofs` proves, for every number of threads, ids and list entries and every finite
set of nodes (`NodesAssumption`): `ListTypeCorrect`, `NoUseAfterFreeProved`,
`OnlyScanRacesProved`, `ListWellFormedProved`, `SnapshotIsExactProved`, `NoDeadlockProved`
and `ListImplementsTable`. The invariant `IInv` speaks of a witness: there are a sequence
`L` and a length `m` such that the head is `L[1]`, each of the `m` distinct nodes points to
the next one (`Linked`), and these are exactly the live nodes that no thread has yet to link
or has just taken out (`Members`). Every thread's pointers are then places in `L`
(`Placed`), the tail is `L[m]` except in the two steps before it is corrected (`TailFits`),
and locks are held where the program says (`LocksHeld`); a freed node is never a place,
hence `NoUseAfterFree`. Of a creator that has unlocked and is about to read the new id
nothing is claimed: others may have freed the game (section 4). Each action is shown to give
a new witness: the same `L`, `L` with a node appended, or `L` without one. That `Chain`, the
operator that follows the pointers and that the properties use, spells out the witness is
shown by taking the least place where it would not (well-foundedness of the naturals
replaces induction). `Listings` adds what a listing under way has copied: the open games
among the places it has passed, none of which any thread has locked. For `NoDeadlockProved`
a lock that is held has a holder that will give it back (`LocksReleased`): the thread that
holds `gm->lock` waits at most for a game's lock, and whoever holds that waits for nothing.
For the refinement a node of `L` is a row of `GameTable` unless its last seat has been
vacated (`Kept`); every action changes that table by one operation or not at all
(`StepRefines`).

`WireProofs` proves, for any number of senders and calls and any message types:
`WireTypeCorrect`, `WireIntact` and `WaitsOnlyForSendersProved`. The invariant lays the
fields of all messages sent on one tape, at offsets `off` it says exist: as long as calls
have not overlapped, what the receiver has read, what is in the stream and what the one
sender at work still has to send are consecutive stretches of the tape, in this order. A
partial send or read only moves a boundary, and a new call adds a stretch at the end. Once
two calls overlap (`mixed`) nothing more is claimed. A receiver that waits on an empty
stream, with no sender at work, has read the tape to its end; the offsets being those of
whole messages, it is then between two of them (`ReadToEnd`), which is the safety half of
`EveryMessageArrives`.

`ServerProofs` proves, for any number of users, descriptors, rows and games, all
requests and every interleaving of the handlers:

- `SlotIntegrityProved`, `ServerTypeCorrect` and `ServedHaveRowProved`;
- `ServerImplementsManager`: `ServerSpec => Spec`. Every step of the server is one
  operation of `GameManager` or leaves the games alone;
- `ServerGamesSound`, `ServerGameSteps`: the invariants and action properties of the
  manager therefore hold in the server.

The invariant `SInv` adds to these the types of what requests, messages and steps carry
(`CmdOK`, `MsgOK`, `StepOK`), because a cell or an answer travels from a key through
`inbox` and `todo` to the manager, and a game id from the manager through `todo` to a row
or to a client. It also says that a thread that has still to add itself or that has `close`
left to do has no row: this is what keeps `SlotIntegrity` when a descriptor is given out
again. The converse, `RowlessLeave`, is proved on top of it: a thread without a row has
only steps of its arrival or its farewell left, and the last of them is to come (`Leaves`);
so the receive loop runs only in threads with a row. A step that goes on with steps of this
kind (`Proceeds`) keeps all programs good; what remains are the seven steps that change
rows, connections or inboxes. From `ServerAssumption` the proofs use that descriptors are
numbers, of which `accept` returns the least, that the table has a natural number of rows,
and that there is a name.

`LobbyProofs` proves what `server_leave` checks, and more, for any number of users, descriptors,
rows, games, connections and departures: `OwnersStayConnected` and `OwnersArePlaying`, under
`Requests \subseteq LobbyRequests` (create, list, join and leave; clients also quit and die
at any time). Rows, seats and descriptors are changed by different steps, so neither
property is inductive. `LInv` adds an account per thread (`Fits`): which of the row, a
pending `client_set_playing`, a pending leave or the program as a whole explains the game
the thread owns. A thread between requests has a row that names its game and is marked as
playing (`Covered`); one that has passed the check of `handle_create_game` owns nothing,
because a covered owner is marked; one that has created a game has two marks ahead of it; one
that has freed its row (`Parting`) leaves the one game it can own before anything else, with
the id read in the critical section that freed the row, which is why the scan that follows
finds nothing and why it does no harm that the scan spares game 0. Another
thread's step disturbs none of this (`Elsewhere`): leaving frees a game only when it has no
owner, joining changes no owner, and marks are made by the thread whose row it is.

Only model-checked: liveness (`ManagerReleased`, `JoinReturns`, `PushReturns`,
`StopEnds`, `EveryMessageArrives`), because fairness is beyond the proof system used; and
`RolesAgree`, `ShownMarksAreReal` and, when matches are played, `SeatedArePlaying`, because
they do not hold for every value of the constants: the attempt to prove them led to the two
behaviours of section 4.

## 6. Not modelled, and the plan

1. `Server`: user names (`MSG_SET_USERNAME`, the owner's name of a reopened game), and
   the addressee of a rejection, which takes a third client in matches. Leaving,
   deciding and moving together exceed what TLC enumerates.
2. Liveness of matches: a draw one player answers and the other leaves, an opponent
   who is not told that the other left. The code and its docs promise nothing there.
3. A condition on users and schedules under which `RolesAgree` and `SeatedArePlaying` hold
   for every board and number of games. It would have to exclude both behaviours of
   section 4, and so speak of how late a thread may be.

Not planned: drawing, settings, logging, socket set-up, the bytes inside a field of a
message (straight-line code without state), scripts and containers. `queue_pop`,
`queue_try_push`, `queue_size` and `queue_is_empty` are called nowhere.
