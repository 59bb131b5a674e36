---------------------------- MODULE ServerProofs ----------------------------
(***************************************************************************)
(* Proofs about Server for every number of users, descriptors, rows and    *)
(* games, and every mix of requests.                                       *)
(***************************************************************************)
EXTENDS Server, GameManagerProofs

-----------------------------------------------------------------------------
(* Programs: what ToSet of a sequence of steps is. *)

(* A sequence over some set is a sequence over the set of its elements. *)
LEMMA OverItsElements ==
  ASSUME NEW S, NEW p \in Seq(S)
  PROVE  p \in Seq(ToSet(p)) /\ ToSet(p) \subseteq S
<1>1. p \in [1..Len(p) -> S] /\ DOMAIN p = 1..Len(p) /\ Len(p) \in Nat
  OBVIOUS
<1>2. \A k \in 1..Len(p) : p[k] \in ToSet(p)
  BY <1>1 DEF ToSet
<1>3. p \in [1..Len(p) -> ToSet(p)]
  BY <1>1, <1>2
<1>4. p \in Seq(ToSet(p))
  BY <1>1, <1>3
<1>5. ToSet(p) \subseteq S
  BY <1>1 DEF ToSet
<1> QED BY <1>4, <1>5

(* The steps left after the first are steps of the program. *)
LEMMA TailSteps ==
  ASSUME NEW p, p \in Seq(ToSet(p)), p # <<>>
  PROVE  /\ Tail(p) \in Seq(ToSet(Tail(p)))
         /\ ToSet(Tail(p)) \subseteq ToSet(p)
         /\ p[1] \in ToSet(p)
<1> DEFINE S == ToSet(p)
<1>1. Tail(p) \in Seq(S) /\ p[1] \in S
  <2>1. p \in Seq(S)
    OBVIOUS
  <2> HIDE DEF S
  <2> QED BY <2>1
<1> QED BY <1>1, OverItsElements

(* The steps of two programs in sequence are those of the two. *)
LEMMA CatSteps ==
  ASSUME NEW p, NEW q, p \in Seq(ToSet(p)), q \in Seq(ToSet(q))
  PROVE  (p \o q) \in Seq(ToSet(p \o q)) /\ ToSet(p \o q) \subseteq ToSet(p) \cup ToSet(q)
<1> DEFINE S == ToSet(p) \cup ToSet(q)
<1>1. p \in Seq(S) /\ q \in Seq(S)
  <2> DEFINE P == ToSet(p)  Q == ToSet(q)
  <2>1. p \in Seq(P) /\ q \in Seq(Q)
    OBVIOUS
  <2> HIDE DEF P, Q
  <2>2. p \in Seq(P \cup Q) /\ q \in Seq(P \cup Q)
    BY <2>1
  <2> QED BY <2>2 DEF P, Q
<1>2. (p \o q) \in Seq(S)
  <2> HIDE DEF S
  <2> QED BY <1>1
<1> QED BY <1>2, OverItsElements

(* The steps of a program are its first and those left after it. *)
LEMMA HeadAndTail ==
  ASSUME NEW p, p \in Seq(ToSet(p)), p # <<>>
  PROVE  ToSet(p) = {p[1]} \cup ToSet(Tail(p))
<1> DEFINE S == ToSet(p)
           n == Len(p)
<1>1. p \in Seq(S)
  OBVIOUS
<1> HIDE DEF S
<1>2. /\ n \in Nat \ {0} /\ DOMAIN p = 1..n
      /\ DOMAIN Tail(p) = 1..(n - 1)
      /\ \A k \in 1..(n - 1) : Tail(p)[k] = p[k + 1]
  BY <1>1
<1> HIDE DEF n
<1>3. ToSet(p) \subseteq {p[1]} \cup ToSet(Tail(p))
  <2> SUFFICES ASSUME NEW k \in 1..n, k # 1 PROVE p[k] \in ToSet(Tail(p))
    BY <1>2 DEF ToSet
  <2>1. k - 1 \in 1..(n - 1) /\ (k - 1) + 1 = k
    BY <1>2
  <2> QED BY <1>2, <2>1 DEF ToSet
<1>4. {p[1]} \cup ToSet(Tail(p)) \subseteq ToSet(p)
  BY TailSteps, Zenon
<1> QED BY <1>3, <1>4

(* The steps of two programs in sequence are exactly those of the two. *)
LEMMA CatStepsExactly ==
  ASSUME NEW p, NEW q, p \in Seq(ToSet(p)), q \in Seq(ToSet(q))
  PROVE  ToSet(p \o q) = ToSet(p) \cup ToSet(q)
<1> DEFINE S == ToSet(p)
           T == ToSet(q)
           m == Len(p)
           n == Len(q)
<1>1. p \in Seq(S) /\ q \in Seq(T)
  OBVIOUS
<1> HIDE DEF S, T
<1>2. p \in Seq(S \cup T) /\ q \in Seq(S \cup T)
  BY <1>1
<1>3. /\ m \in Nat /\ n \in Nat /\ DOMAIN p = 1..m /\ DOMAIN q = 1..n
      /\ DOMAIN (p \o q) = 1..(m + n)
      /\ \A k \in 1..(m + n) : (p \o q)[k] = IF k <= m THEN p[k] ELSE q[k - m]
  BY <1>2
<1> DEFINE r == p \o q
<1> HIDE DEF m, n, r
<1>4. ASSUME NEW k \in 1..m PROVE p[k] \in ToSet(r)
  <2>1. k \in 1..(m + n) /\ r[k] = p[k]
    BY <1>3 DEF r
  <2> QED BY <1>3, <2>1 DEF ToSet, r
<1>5. ASSUME NEW k \in 1..n PROVE q[k] \in ToSet(r)
  <2>1. k + m \in 1..(m + n) /\ (k + m) - m = k /\ ~(k + m <= m)
    BY <1>3
  <2>2. r[k + m] = q[k]
    BY <1>3, <2>1 DEF r
  <2> QED BY <1>3, <2>1, <2>2 DEF ToSet, r
<1>6. ToSet(p) \cup ToSet(q) \subseteq ToSet(r)
  BY <1>3, <1>4, <1>5 DEF ToSet
<1>7. ToSet(r) \subseteq ToSet(p) \cup ToSet(q)
  BY CatSteps, Zenon DEF r
<1> QED BY <1>6, <1>7 DEF r

(* Programs written out. *)
LEMMA ShortPrograms ==
  /\ <<>> \in Seq(ToSet(<<>>)) /\ ToSet(<<>>) = {}
  /\ \A a : <<a>> \in Seq(ToSet(<<a>>)) /\ ToSet(<<a>>) = {a}
  /\ \A a, b : <<a, b>> \in Seq(ToSet(<<a, b>>)) /\ ToSet(<<a, b>>) = {a, b}
  /\ \A a, b, c : <<a, b, c>> \in Seq(ToSet(<<a, b, c>>)) /\ ToSet(<<a, b, c>>) = {a, b, c}
  /\ \A a, b, c, d : <<a, b, c, d>> \in Seq(ToSet(<<a, b, c, d>>))
                     /\ ToSet(<<a, b, c, d>>) = {a, b, c, d}
BY DEF ToSet

(* A program with a step per element of a finite set. *)
LEMMA EachLeave ==
  ASSUME NEW S, IsFiniteSet(S)
  PROVE  LET p == Each(LeaveGame, S)
         IN  p \in Seq(ToSet(p)) /\ \A e \in ToSet(p) : e.op = "leave_game"
<1> DEFINE n == Cardinality(S)
           p == Each(LeaveGame, S)
           T == {LeaveGame(InOrder(S)[k]) : k \in 1..n}
<1>1. n \in Nat
  BY FS_CardinalityType
<1>2. p = [k \in 1..n |-> LeaveGame(InOrder(S)[k])]
  BY DEF Each
<1>3. p \in Seq(T)
  <2> HIDE DEF n, p
  <2> QED BY <1>1, <1>2
<1>4. \A e \in T : e.op = "leave_game"
  BY DEF LeaveGame
<1> QED BY <1>3, <1>4, OverItsElements

-----------------------------------------------------------------------------
(* The inductive invariant. *)

\* A message handle_event can digest: the fields it stores have their types.
MsgOK(m) ==
  \/ m.type \in {"MSG_GAME_OVER", "MSG_POST_GAME_OPTIONS", "MSG_ERROR"}
  \/ m.type \in {"MSG_JOIN_REQUEST", "MSG_GAME_STATUS_CHANGE"} /\ m.game_id \in GameIds
  \/ m.type = "MSG_LOBBY_UPDATE" /\ m.games \subseteq GameIds
  \/ m.type = "MSG_GAME_START" /\ m.game_id \in GameIds /\ m.player_role \in Players
  \/ /\ m.type = "MSG_GAME_STATE" /\ m.game_id \in GameIds
     /\ m.board \in [Cells -> Marks] /\ m.current_turn \in Players

\* A request whose fields have the types the handlers rely on.
CmdOK(m) ==
  \/ m.type \in {"MSG_CREATE_GAME", "MSG_LIST_GAMES", "MSG_JOIN_GAME", "MSG_LEAVE_GAME", "EOF"}
  \/ m.type = "MSG_JOIN_DECISION" /\ m.accepted \in BOOLEAN
  \/ m.type = "MSG_MOVE" /\ m.cell \in Cells
  \/ m.type = "MSG_POST_GAME_OPTIONS" /\ m.winner_wants_to_continue \in BOOLEAN

\* The local variables a step carries.  A game id may be of any game, listed or not,
\* unless it goes to a row of the table or to a client.
StepOK(e) ==
  /\ e.op = "send" => MsgOK(e.msg)
  /\ e.op = "collect" => e.games \subseteq GameIds
  /\ e.op = "set_playing" => e.playing \in BOOLEAN /\ (e.playing => e.game_id \in GameIds)
  /\ e.op \in {"start_state", "set_players"} => e.game_id \in GameIds
  /\ e.op \in {"get_waiting", "join_decision"} => e.accepted \in BOOLEAN
  /\ e.op = "move" => e.cell \in Cells
  /\ e.op = "post_game" => e.wants \in BOOLEAN

\* A step that only a thread without a row takes: the first one, and the last one.
Outside(e) == e.op \in {"add_client", "close"}

ProgramOK(s) ==
  /\ todo[s] \in Seq(ToSet(todo[s]))
  /\ \A e \in ToSet(todo[s]) : StepOK(e) /\ (Outside(e) => RowsOf(s) = {})

InboxOK(s) == inbox[s] \in Seq(ToSet(inbox[s])) /\ \A m \in ToSet(inbox[s]) : CmdOK(m)

Programs == DOMAIN todo = Sockets /\ \A s \in Sockets : ProgramOK(s)
Inboxes  == DOMAIN inbox = Sockets /\ \A s \in Sockets : InboxOK(s)

SInv == IInv /\ ServerTypeOK /\ SlotIntegrity /\ Programs /\ Inboxes

-----------------------------------------------------------------------------
(* The games change only through the game manager. *)

(* The step a thread is about to take carries well-typed values. *)
LEMMA CurrentOK ==
  ASSUME SInv, NEW s \in Sockets, NEW op, Runs(s, op)
  PROVE  /\ StepOK(Current(s)) /\ Current(s).op = op
         /\ Outside(Current(s)) => RowsOf(s) = {}
<1>1. /\ todo[s] \in Seq(ToSet(todo[s])) /\ todo[s] # <<>>
      /\ \A e \in ToSet(todo[s]) : StepOK(e) /\ (Outside(e) => RowsOf(s) = {})
  BY DEF SInv, Programs, ProgramOK, Runs
<1>2. todo[s][1] \in ToSet(todo[s])
  BY <1>1, TailSteps
<1> QED BY <1>1, <1>2, Zenon DEF Current, Runs

(* Every listed id is one of GameIds. *)
LEMMA ListedIds == SInv => DOMAIN games \subseteq GameIds
BY MaxGamesAssumption DEF SInv, IInv, TypeOK, GameIds

(* The steps that call the game manager call one of its operations, with a  *)
(* caller, a cell and answers of the right types; they change nothing if    *)
(* the manager's own checks fail.                                           *)
LEMMA CallsManager ==
  ASSUME SInv, NEW s \in Sockets,
         \/ create_game(s) \/ join_game(s) \/ join_decision(s) \/ move(s)
         \/ post_game(s) \/ leave_game(s)
  PROVE  [Next]_vars
<1>1. DOMAIN games \subseteq GameIds
  BY ListedIds
<1>2. CASE create_game(s)
  <2>1. Name \in Names
    BY ServerAssumption, Zenon DEF Name
  <2> QED BY <1>2, <2>1 DEF create_game, Next
<1>3. CASE join_game(s)
  BY <1>1, <1>3 DEF join_game, Next
<1>4. CASE join_decision(s)
  <2>1. Current(s).accepted \in BOOLEAN
    BY <1>4, CurrentOK DEF join_decision, StepOK
  <2> QED BY <1>1, <1>4, <2>1 DEF join_decision, Next
<1>5. CASE move(s)
  <2>1. Current(s).cell \in Cells
    BY <1>5, CurrentOK DEF move, StepOK
  <2> QED BY <1>1, <1>5, <2>1 DEF move, Next
<1>6. CASE post_game(s)
  <2>1. Current(s).wants \in BOOLEAN
    BY <1>6, CurrentOK DEF post_game, StepOK
  <2> QED BY <1>1, <1>6, <2>1 DEF post_game, Next
<1>7. CASE leave_game(s)
  BY <1>1, <1>7 DEF leave_game, Next
<1> QED BY <1>2, <1>3, <1>4, <1>5, <1>6, <1>7

(* Every step of the server is at most one call of the game manager. *)
LEMMA ServerStepIsManagerStep == SInv /\ [ServerNext]_svars => [Next]_vars
<1> SUFFICES ASSUME SInv, [ServerNext]_svars PROVE [Next]_vars
  OBVIOUS
<1>1. CASE UNCHANGED svars
  BY <1>1 DEF svars, vars
<1>2. ASSUME NEW u \in Users, Connect(u) \/ Disconnect(u) \/ PressKey(u)
      PROVE  UNCHANGED vars
  BY <1>2 DEF Connect, Disconnect, PressKey
<1>3. ASSUME NEW s \in Sockets, Thread(s)
      PROVE  [Next]_vars
  <2>1. CASE \/ Receive(s) \/ add_client(s) \/ remove_client(s) \/ close(s)
             \/ client_set_playing(s) \/ client_is_playing(s) \/ send_message(s)
             \/ handle_list_game(s) \/ broadcast_list(s) \/ broadcast_collect(s)
    BY <2>1 DEF Receive, add_client, remove_client, close, client_set_playing,
                client_is_playing, send_message, handle_list_game, broadcast_list,
                broadcast_collect
  <2>2. CASE \/ check_owner(s) \/ notify_owner(s) \/ get_waiting(s) \/ start_players(s)
             \/ start_state(s) \/ set_players(s) \/ move_players(s) \/ move_state(s)
             \/ post_state(s) \/ post_players(s) \/ restart_state(s) \/ read_target(s) \/ scan(s)
    BY <2>2 DEF check_owner, notify_owner, get_waiting, start_players, start_state,
                set_players, move_players, move_state, post_state, post_players,
                restart_state, read_target, scan
  <2>3. CASE \/ create_game(s) \/ join_game(s) \/ join_decision(s) \/ move(s)
             \/ post_game(s) \/ leave_game(s)
    BY <2>3, CallsManager
  <2> QED BY <1>3, <2>1, <2>2, <2>3, Zenon DEF Thread
<1> QED BY <1>1, <1>2, <1>3 DEF ServerNext

-----------------------------------------------------------------------------
(* What a handler puts on a program. *)

OkStep(e) == StepOK(e) /\ ~Outside(e)
Good(p) == p \in Seq(ToSet(p)) /\ \A e \in ToSet(p) : OkStep(e)

(* Programs of good steps are good, and so are two of them in sequence. *)
LEMMA GoodPrograms ==
  /\ Good(<<>>)
  /\ \A a : OkStep(a) => Good(<<a>>)
  /\ \A a, b : OkStep(a) /\ OkStep(b) => Good(<<a, b>>)
  /\ \A a, b, c : OkStep(a) /\ OkStep(b) /\ OkStep(c) => Good(<<a, b, c>>)
  /\ \A a, b, c, d : OkStep(a) /\ OkStep(b) /\ OkStep(c) /\ OkStep(d) => Good(<<a, b, c, d>>)
  /\ \A q, r : Good(q) /\ Good(r) => Good(q \o r)
<1>1. /\ Good(<<>>)
      /\ \A a : OkStep(a) => Good(<<a>>)
      /\ \A a, b : OkStep(a) /\ OkStep(b) => Good(<<a, b>>)
  BY ShortPrograms DEF Good
<1>2. \A a, b, c : OkStep(a) /\ OkStep(b) /\ OkStep(c) => Good(<<a, b, c>>)
  <2> SUFFICES ASSUME NEW a, NEW b, NEW c, OkStep(a), OkStep(b), OkStep(c)
               PROVE  Good(<<a, b, c>>)
    BY Zenon
  <2>1. /\ <<a, b, c>> \in Seq(ToSet(<<a, b, c>>)) /\ ToSet(<<a, b, c>>) = {a, b, c}
    BY ShortPrograms
  <2> QED BY <2>1, Zenon DEF Good
<1>3. \A a, b, c, d : OkStep(a) /\ OkStep(b) /\ OkStep(c) /\ OkStep(d) => Good(<<a, b, c, d>>)
  <2> SUFFICES ASSUME NEW a, NEW b, NEW c, NEW d, OkStep(a), OkStep(b), OkStep(c), OkStep(d)
               PROVE  Good(<<a, b, c, d>>)
    BY Zenon
  <2>1. /\ <<a, b, c, d>> \in Seq(ToSet(<<a, b, c, d>>)) /\ ToSet(<<a, b, c, d>>) = {a, b, c, d}
    BY ShortPrograms
  <2> QED BY <2>1, Zenon DEF Good
<1>4. \A q, r : Good(q) /\ Good(r) => Good(q \o r)
  <2> SUFFICES ASSUME NEW q, NEW r, Good(q), Good(r)
               PROVE  Good(q \o r)
    BY Zenon
  <2>1. q \in Seq(ToSet(q)) /\ r \in Seq(ToSet(r))
    BY Zenon DEF Good
  <2>2. (q \o r) \in Seq(ToSet(q \o r)) /\ ToSet(q \o r) \subseteq ToSet(q) \cup ToSet(r)
    BY <2>1, CatSteps, Zenon
  <2> QED BY <2>2, Zenon DEF Good
<1> QED BY <1>1, <1>2, <1>3, <1>4, Zenon

\* Steps without local variables that matter.
PlainOps == {"check_playing", "create_game", "list_games", "read_target", "remove_client",
             "broadcast"}
IdOps == {"check_owner", "join_game", "notify_owner", "start_players"}

(* The steps the handlers build are good, given good arguments. *)
LEMMA OkSteps ==
  /\ \A op \in PlainOps : OkStep(Do(op))
  /\ OkStep(Broadcast)
  /\ \A op \in IdOps : \A id : OkStep(On(op, id))
  /\ \A id : OkStep(LeaveGame(id)) /\ OkStep(Scan(id))
  /\ \A to, m : MsgOK(m) => OkStep(Send(to, m))
  /\ \A to, id : OkStep(SetPlaying(to, FALSE, id))
  /\ \A to : \A id \in GameIds : OkStep(SetPlaying(to, TRUE, id))
BY DEF OkStep, StepOK, Outside, Do, Broadcast, On, LeaveGame, Scan, Send, SetPlaying, PlainOps, IdOps

(* The messages the handlers build are good, given good arguments. *)
LEMMA OkMessages ==
  /\ MsgOK(ErrorMsg)
  /\ \A ids \in SUBSET GameIds : MsgOK(LobbyMsg(ids))
  /\ \A id \in GameIds : MsgOK(WaitingMsg(id)) /\ MsgOK(JoinRequestMsg(id))
  /\ \A id : MsgOK(PostGameMsg(id))
  /\ \A id, winner : MsgOK(GameOverMsg(id, winner))
  /\ \A id \in GameIds, role \in Players : MsgOK(GameStartMsg(id, role))
  /\ \A id \in GameIds, board \in [Cells -> Marks], turn \in Players :
       MsgOK(GameStateMsg(id, board, turn))
BY DEF MsgOK, ErrorMsg, LobbyMsg, WaitingMsg, JoinRequestMsg, PostGameMsg, GameOverMsg,
       GameStartMsg, GameStateMsg

(* A refusal is one error message to the caller. *)
LEMMA GoodFail == \A s : Good(<<Send(s, ErrorMsg)>>)
BY GoodPrograms, OkSteps, OkMessages, Zenon

(* Announcing the start of a match, and the state of it. *)
LEMMA GoodAnnouncements ==
  ASSUME SInv, NEW id \in DOMAIN games
  PROVE  /\ \A x, o : Good(Start(x, o, id)) /\ Good(State(x, o, id))
         /\ id \in GameIds
<1>1. id \in GameIds /\ games[id] \in Game
  BY ListedIds DEF SInv, IInv, TypeOK
<1>2. games[id].board \in [Cells -> Marks] /\ games[id].current_turn \in Players
  BY <1>1 DEF Game
<1>3. MsgOK(GameStateMsg(id, games[id].board, games[id].current_turn))
  BY <1>1, <1>2, OkMessages, Zenon
<1>4. "PLAYER_X" \in Players /\ "PLAYER_O" \in Players
  BY DEF Players
<1>5. MsgOK(GameStartMsg(id, "PLAYER_X")) /\ MsgOK(GameStartMsg(id, "PLAYER_O"))
  BY <1>1, <1>4, OkMessages, Zenon
<1>6. \A x, o : Good(Start(x, o, id))
  <2> SUFFICES ASSUME NEW x, NEW o PROVE Good(Start(x, o, id))
    BY Zenon
  <2>1. OkStep(Send(x, GameStartMsg(id, "PLAYER_X"))) /\ OkStep(Send(o, GameStartMsg(id, "PLAYER_O")))
    BY <1>5, OkSteps, Zenon
  <2> QED BY <2>1, GoodPrograms, Zenon DEF Start
<1>7. \A x, o : Good(State(x, o, id))
  <2> SUFFICES ASSUME NEW x, NEW o PROVE Good(State(x, o, id))
    BY Zenon
  <2> DEFINE m == GameStateMsg(id, games[id].board, games[id].current_turn)
  <2>1. OkStep(Send(x, m)) /\ OkStep(Send(o, m))
    BY <1>3, OkSteps, Zenon
  <2> QED BY <2>1, GoodPrograms, Zenon DEF State
<1> QED BY <1>1, <1>6, <1>7

(* The lobby lists ids of games. *)
LEMMA OpenGamesAreIds == SInv => OpenGames \in SUBSET GameIds
BY ListedIds DEF OpenGames

(* A request becomes a program of good steps. *)
LEMMA GoodRequest ==
  ASSUME NEW m, CmdOK(m)
  PROVE  Good(handle_message(m))
<1>1. CASE m.type = "MSG_CREATE_GAME"
  <2>1. handle_message(m) = <<Do("check_playing"), Do("create_game")>>
    BY <1>1 DEF handle_message
  <2>2. OkStep(Do("check_playing")) /\ OkStep(Do("create_game"))
    BY OkSteps DEF PlainOps
  <2> QED BY <2>1, <2>2, GoodPrograms, Zenon
<1>2. CASE m.type = "MSG_LIST_GAMES"
  <2>1. handle_message(m) = <<Do("list_games")>>
    BY <1>2 DEF handle_message
  <2>2. OkStep(Do("list_games"))
    BY OkSteps DEF PlainOps
  <2> QED BY <2>1, <2>2, GoodPrograms, Zenon
<1>3. CASE m.type = "MSG_JOIN_GAME"
  <2>1. handle_message(m) =
          <<Do("check_playing"), On("check_owner", m.game_id), On("join_game", m.game_id)>>
    BY <1>3 DEF handle_message
  <2>2. OkStep(Do("check_playing"))
    BY OkSteps DEF PlainOps
  <2>3. OkStep(On("check_owner", m.game_id)) /\ OkStep(On("join_game", m.game_id))
    BY OkSteps DEF IdOps
  <2> QED BY <2>1, <2>2, <2>3, GoodPrograms, Zenon
<1>4. CASE m.type = "MSG_JOIN_DECISION"
  <2> DEFINE e == [op |-> "get_waiting", game_id |-> m.game_id, accepted |-> m.accepted]
  <2>1. handle_message(m) = <<e>>
    BY <1>4 DEF handle_message
  <2>2. OkStep(e)
    BY <1>4 DEF OkStep, StepOK, Outside, CmdOK
  <2> HIDE DEF e
  <2> QED BY <2>1, <2>2, GoodPrograms, Zenon
<1>5. CASE m.type = "MSG_MOVE"
  <2> DEFINE e == [op |-> "move", game_id |-> m.game_id, cell |-> m.cell]
  <2>1. handle_message(m) = <<e>>
    BY <1>5 DEF handle_message
  <2>2. OkStep(e)
    BY <1>5 DEF OkStep, StepOK, Outside, CmdOK
  <2> HIDE DEF e
  <2> QED BY <2>1, <2>2, GoodPrograms, Zenon
<1>6. CASE m.type = "MSG_POST_GAME_OPTIONS"
  <2> DEFINE e == [op |-> "post_game", game_id |-> m.game_id,
                   wants |-> m.winner_wants_to_continue]
  <2>1. handle_message(m) = <<e>>
    BY <1>6 DEF handle_message
  <2>2. OkStep(e)
    BY <1>6 DEF OkStep, StepOK, Outside, CmdOK
  <2> HIDE DEF e
  <2> QED BY <2>1, <2>2, GoodPrograms, Zenon
<1>7. CASE m.type = "MSG_LEAVE_GAME"
  <2>1. handle_message(m) = <<Do("read_target")>>
    BY <1>7 DEF handle_message
  <2>2. OkStep(Do("read_target"))
    BY OkSteps DEF PlainOps
  <2> QED BY <2>1, <2>2, GoodPrograms, Zenon
<1>8. CASE m.type = "EOF"
  <2>1. handle_message(m) = <<Do("remove_client")>>
    BY <1>8 DEF handle_message, Farewell
  <2>2. OkStep(Do("remove_client"))
    BY OkSteps DEF PlainOps
  <2> QED BY <2>1, <2>2, GoodPrograms, Zenon
<1> QED BY <1>1, <1>2, <1>3, <1>4, <1>5, <1>6, <1>7, <1>8 DEF CmdOK

-----------------------------------------------------------------------------
(* How programs evolve. *)

\* The thread goes on with good steps before what it had left, or instead of it.
Proceeds(s) == \E p : Good(p) /\ (Then(s, p) \/ Return(s, p))

(* Failing, doing nothing more and returning are ways to go on. *)
LEMMA ProceedsSimply ==
  ASSUME NEW s
  PROVE  /\ Fail(s) => Proceeds(s)
         /\ Then(s, <<>>) \/ Return(s, <<>>) => Proceeds(s)
         /\ \A p : Good(p) /\ Then(s, p) => Proceeds(s)
<1>1. Fail(s) => Proceeds(s)
  BY GoodFail, Zenon DEF Fail, Proceeds
<1>2. Good(<<>>)
  BY GoodPrograms, Zenon
<1> QED BY <1>1, <1>2, Zenon DEF Proceeds

(* The table and lobby steps. *)
LEMMA LobbyStepsProceed ==
  ASSUME SInv, NEW s \in Sockets,
         \/ client_set_playing(s) \/ client_is_playing(s) \/ send_message(s)
         \/ handle_list_game(s) \/ broadcast_list(s) \/ broadcast_collect(s)
         \/ set_players(s) \/ leave_game(s) \/ scan(s) \/ read_target(s)
  PROVE  Proceeds(s)
<1>1. CASE client_set_playing(s) \/ send_message(s) \/ set_players(s) \/ leave_game(s)
  BY <1>1, ProceedsSimply, Zenon DEF client_set_playing, send_message, set_players, leave_game
<1>2. CASE client_is_playing(s)
  BY <1>2, ProceedsSimply, Zenon DEF client_is_playing
<1>3. CASE handle_list_game(s)
  <2>1. OkStep(Send(s, LobbyMsg(OpenGames)))
    BY OpenGamesAreIds, OkMessages, OkSteps, Zenon
  <2> QED BY <1>3, <2>1, GoodPrograms, ProceedsSimply, Zenon DEF handle_list_game
<1>4. CASE broadcast_list(s)
  <2> DEFINE e == [op |-> "collect", games |-> OpenGames]
  <2>1. OkStep(e)
    BY OpenGamesAreIds DEF OkStep, StepOK, Outside
  <2>2. Then(s, <<e>>)
    BY <1>4 DEF broadcast_list
  <2> HIDE DEF e
  <2> QED BY <2>1, <2>2, GoodPrograms, ProceedsSimply, Zenon
<1>5. CASE broadcast_collect(s)
  <2> DEFINE idle == {i \in Slots : clients[i].is_active /\ ~clients[i].is_playing}
             n == Cardinality(idle)
             ids == Current(s).games
             e(k) == Send(clients[InOrder(idle)[k]].socket, LobbyMsg(ids))
             p == [k \in 1..n |-> e(k)]
             T == {e(k) : k \in 1..n}
  <2>1. Then(s, p)
    BY <1>5 DEF broadcast_collect, Each
  <2>2. n \in Nat
    <3>1. IsFiniteSet(Slots)
      BY ServerAssumption, FS_Interval DEF Slots
    <3> QED BY <3>1, FS_Subset, FS_CardinalityType
  <2>3. ids \in SUBSET GameIds
    <3>1. Runs(s, "collect")
      BY <1>5 DEF broadcast_collect
    <3> QED BY <3>1, CurrentOK DEF StepOK
  <2>4. \A k : OkStep(e(k))
    BY <2>3, OkMessages, OkSteps, Zenon
  <2>5. p \in Seq(T)
    <3> HIDE DEF n, e
    <3> QED BY <2>2
  <2>6. Good(p)
    <3>1. p \in Seq(ToSet(p)) /\ ToSet(p) \subseteq T
      <4> HIDE DEF p, T
      <4> QED BY <2>5, OverItsElements
    <3>2. \A x \in T : OkStep(x)
      BY <2>4
    <3> HIDE DEF p, T
    <3> QED BY <3>1, <3>2, Zenon DEF Good
  <2> HIDE DEF p
  <2> QED BY <2>1, <2>6, ProceedsSimply, Zenon
<1>6. CASE scan(s)
  <2> DEFINE mine == {id \in DOMAIN games : games[id].player_x_socket = s /\ id # Current(s).spared}
             p == Each(LeaveGame, mine)
  <2>1. Then(s, p)
    BY <1>6 DEF scan
  <2>2. IsFiniteSet(mine)
    <3>1. IsFiniteSet(GameIds)
      BY MaxGamesAssumption, FS_Interval DEF GameIds
    <3>2. mine \subseteq GameIds
      BY ListedIds
    <3> QED BY <3>1, <3>2, FS_Subset
  <2>3. p \in Seq(ToSet(p)) /\ \A e \in ToSet(p) : e.op = "leave_game"
    <3> HIDE DEF mine
    <3> QED BY <2>2, EachLeave
  <2>4. \A e : e.op = "leave_game" => OkStep(e)
    BY DEF OkStep, StepOK, Outside
  <2>5. Good(p)
    <3> HIDE DEF p
    <3> QED BY <2>3, <2>4, Zenon DEF Good
  <2> HIDE DEF p
  <2> QED BY <2>1, <2>5, ProceedsSimply, Zenon
<1>7. CASE read_target(s)
  <2> DEFINE id == IF GameIdOf(s) # NoGame THEN GameIdOf(s) ELSE 0
  <2>1. OkStep(LeaveGame(id)) /\ OkStep(Scan(0)) /\ OkStep(SetPlaying(s, FALSE, 0)) /\ OkStep(Broadcast)
    BY OkSteps, Zenon
  <2>2. Then(s, <<LeaveGame(id), Scan(0), SetPlaying(s, FALSE, 0), Broadcast>>)
    BY <1>7, Zenon DEF read_target
  <2> HIDE DEF id
  <2> QED BY <2>1, <2>2, GoodPrograms, ProceedsSimply, Zenon
<1> QED BY <1>1, <1>2, <1>3, <1>4, <1>5, <1>6, <1>7

(* Creating and joining a game. *)
LEMMA JoinStepsProceed ==
  ASSUME SInv, NEW s \in Sockets,
         \/ create_game(s) \/ check_owner(s) \/ join_game(s) \/ notify_owner(s)
         \/ get_waiting(s) \/ join_decision(s) \/ start_players(s) \/ start_state(s)
  PROVE  Proceeds(s)
<1>1. CASE create_game(s)
  <2>1. CASE next_game_id < MaxGames
    <3>1. next_game_id \in GameIds
      BY <2>1, MaxGamesAssumption DEF SInv, IInv, TypeOK, GameIds
    <3>2. OkStep(SetPlaying(s, TRUE, next_game_id)) /\ OkStep(Send(s, WaitingMsg(next_game_id)))
          /\ OkStep(Broadcast)
      BY <3>1, OkSteps, OkMessages, Zenon
    <3>3. Then(s, <<SetPlaying(s, TRUE, next_game_id), SetPlaying(s, TRUE, next_game_id),
                    Send(s, WaitingMsg(next_game_id)), Broadcast>>)
      BY <1>1, <2>1, Zenon DEF create_game
    <3> QED BY <3>2, <3>3, GoodPrograms, ProceedsSimply, Zenon
  <2>2. CASE ~(next_game_id < MaxGames)
    BY <1>1, <2>2, ProceedsSimply, Zenon DEF create_game
  <2> QED BY <2>1, <2>2
<1>2. CASE check_owner(s)
  BY <1>2, ProceedsSimply, Zenon DEF check_owner
<1>3. CASE join_game(s)
  <2>1. OkStep(On("notify_owner", Current(s).game_id))
    BY OkSteps DEF IdOps
  <2>2. Fail(s) \/ Then(s, <<On("notify_owner", Current(s).game_id)>>)
    BY <1>3, Zenon DEF join_game
  <2> QED BY <2>1, <2>2, GoodPrograms, ProceedsSimply, Zenon
<1>4. CASE notify_owner(s)
  <2> DEFINE id == Current(s).game_id
  <2>1. CASE OwnerOf(id) # NoSocket
    <3>1. id \in GameIds
      BY <2>1, ListedIds DEF OwnerOf
    <3>2. OkStep(Send(OwnerOf(id), JoinRequestMsg(id)))
      BY <3>1, OkSteps, OkMessages, Zenon
    <3>3. Then(s, <<Send(OwnerOf(id), JoinRequestMsg(id))>>)
      BY <1>4, <2>1, Zenon DEF notify_owner
    <3> QED BY <3>2, <3>3, GoodPrograms, ProceedsSimply, Zenon
  <2>2. CASE OwnerOf(id) = NoSocket
    BY <1>4, <2>2, ProceedsSimply, Zenon DEF notify_owner
  <2> QED BY <2>1, <2>2
<1>5. CASE get_waiting(s)
  <2> DEFINE h == Current(s)
             e == [op |-> "join_decision", game_id |-> h.game_id, accepted |-> h.accepted,
                   waiting |-> IF h.game_id \in DOMAIN games
                               THEN games[h.game_id].waiting_player_socket ELSE NoSocket]
  <2>1. h.accepted \in BOOLEAN
    BY <1>5, CurrentOK DEF get_waiting, StepOK
  <2>2. OkStep(e)
    <3> HIDE DEF h
    <3> QED BY <2>1 DEF OkStep, StepOK, Outside
  <2>3. Then(s, <<e>>)
    BY <1>5, Zenon DEF get_waiting
  <2> HIDE DEF e
  <2> QED BY <2>2, <2>3, GoodPrograms, ProceedsSimply, Zenon
<1>6. CASE join_decision(s)
  <2> DEFINE h == Current(s)
             a == <<Scan(h.game_id), On("start_players", h.game_id)>>
             b == IF h.waiting # NoSocket THEN <<Send(h.waiting, ErrorMsg)>> ELSE <<>>
  <2>1. Fail(s) \/ Then(s, IF h.accepted THEN a ELSE b \o <<Broadcast>>)
    BY <1>6, Zenon DEF join_decision
  <2>2. Good(a)
    <3>1. OkStep(Scan(h.game_id)) /\ OkStep(On("start_players", h.game_id))
      BY OkSteps DEF IdOps
    <3> QED BY <3>1, GoodPrograms, Zenon
  <2>3. Good(b) /\ Good(<<Broadcast>>)
    BY GoodFail, GoodPrograms, OkSteps, Zenon
  <2>4. Good(b \o <<Broadcast>>)
    <3> HIDE DEF b
    <3> QED BY <2>3, GoodPrograms, Zenon
  <2> HIDE DEF a, b
  <2>5. Good(IF h.accepted THEN a ELSE b \o <<Broadcast>>)
    BY <2>2, <2>4, Zenon
  <2> QED BY <2>1, <2>5, ProceedsSimply, Zenon
<1>7. CASE start_players(s)
  <2> DEFINE id == Current(s).game_id
             x == games[id].player_x_socket
             o == games[id].player_o_socket
             e == [op |-> "start_state", game_id |-> id, x |-> x, o |-> o]
  <2>1. CASE id \in DOMAIN games
    <3>1. Good(Start(x, o, id)) /\ id \in GameIds
      BY <2>1, GoodAnnouncements, Zenon
    <3>2. OkStep(e)
      <4> HIDE DEF id, x, o
      <4> QED BY <3>1 DEF OkStep, StepOK, Outside
    <3>3. Then(s, Start(x, o, id) \o <<e>>)
      BY <1>7, <2>1, Zenon DEF start_players
    <3> HIDE DEF id, x, o, e
    <3>4. Good(Start(x, o, id) \o <<e>>)
      BY <3>1, <3>2, GoodPrograms, Zenon
    <3> QED BY <3>3, <3>4, ProceedsSimply, Zenon
  <2>2. CASE id \notin DOMAIN games
    BY <1>7, <2>2, ProceedsSimply, Zenon DEF start_players
  <2> QED BY <2>1, <2>2
<1>8. CASE start_state(s)
  <2> DEFINE h == Current(s)
             id == h.game_id
             a == <<SetPlaying(h.x, TRUE, id), SetPlaying(h.o, TRUE, id)>>
             told == IF id \in DOMAIN games THEN a \o State(h.x, h.o, id) ELSE <<>>
             e == [op |-> "set_players", game_id |-> id, socks |-> {h.x, h.o}]
  <2>1. id \in GameIds
    BY <1>8, CurrentOK DEF start_state, StepOK
  <2>2. Good(a)
    BY <2>1, OkSteps, GoodPrograms, Zenon
  <2>3. OkStep(e) /\ OkStep(Broadcast)
    <3>1. OkStep(e)
      <4> HIDE DEF h, id
      <4> QED BY <2>1 DEF OkStep, StepOK, Outside
    <3> QED BY <3>1, OkSteps, Zenon
  <2>4. Then(s, told \o <<e, Broadcast>>)
    BY <1>8, Zenon DEF start_state
  <2>5. Good(told)
    <3> HIDE DEF a, id, h
    <3> QED BY <2>2, GoodAnnouncements, GoodPrograms, Zenon
  <2> HIDE DEF told, e
  <2>6. Good(told \o <<e, Broadcast>>)
    BY <2>3, <2>5, GoodPrograms, Zenon
  <2> QED BY <2>4, <2>6, ProceedsSimply, Zenon
<1> QED BY <1>1, <1>2, <1>3, <1>4, <1>5, <1>6, <1>7, <1>8

(* Playing, and the end of a match. *)
LEMMA MatchStepsProceed ==
  ASSUME SInv, NEW s \in Sockets,
         \/ move(s) \/ move_players(s) \/ move_state(s)
         \/ post_game(s) \/ post_state(s) \/ post_players(s) \/ restart_state(s)
  PROVE  Proceeds(s)
<1>1. CASE move(s)
  <2> DEFINE e == [op |-> "move_players", game_id |-> Current(s).game_id,
                   winner |-> game_check_winner(Placed(games[Current(s).game_id], s,
                                                       Current(s).cell).board)]
  <2>1. OkStep(e)
    BY DEF OkStep, StepOK, Outside
  <2>2. Fail(s) \/ Then(s, <<e>>)
    BY <1>1, Zenon DEF move
  <2> HIDE DEF e
  <2> QED BY <2>1, <2>2, GoodPrograms, ProceedsSimply, Zenon
<1>2. CASE move_players(s)
  <2> DEFINE h == Current(s)
             e == [op |-> "move_state", game_id |-> h.game_id, winner |-> h.winner,
                   x |-> games[h.game_id].player_x_socket,
                   o |-> games[h.game_id].player_o_socket]
  <2>1. OkStep(e)
    BY DEF OkStep, StepOK, Outside
  <2>2. Return(s, <<>>) \/ Then(s, <<e>>)
    BY <1>2, Zenon DEF move_players
  <2> HIDE DEF e
  <2> QED BY <2>1, <2>2, GoodPrograms, ProceedsSimply, Zenon
<1>3. CASE move_state(s)
  <2> DEFINE h == Current(s)
             id == h.game_id
             over == GameOverMsg(id, h.winner)
             a == <<Send(h.x, over), Send(h.o, over)>>
             asked == CASE h.winner = "PLAYER_X" -> <<Send(h.x, PostGameMsg(id))>>
                        [] h.winner = "PLAYER_O" -> <<Send(h.o, PostGameMsg(id))>>
                        [] OTHER -> <<Send(h.x, PostGameMsg(id)), Send(h.o, PostGameMsg(id))>>
  <2>1. CASE id \notin DOMAIN games
    BY <1>3, <2>1, ProceedsSimply DEF move_state
  <2>2. CASE id \in DOMAIN games /\ h.winner # "RESULT_NONE"
    <3>1. Then(s, a \o asked)
      <4> HIDE DEF asked, a
      <4>1. (CASE id \notin DOMAIN games -> Return(s, <<>>)
              [] id \in DOMAIN games /\ h.winner # "RESULT_NONE" -> Then(s, a \o asked)
              [] OTHER -> Then(s, State(h.x, h.o, id)))
        BY <1>3, Zenon DEF move_state, asked, a
      <4> HIDE DEF h, id
      <4> QED BY <2>2, <4>1
    <3>2. Good(a)
      BY OkMessages, OkSteps, GoodPrograms, Zenon
    <3>3. Good(asked)
      <4>1. OkStep(Send(h.x, PostGameMsg(id))) /\ OkStep(Send(h.o, PostGameMsg(id)))
        BY OkMessages, OkSteps, Zenon
      <4>2. /\ Good(<<Send(h.x, PostGameMsg(id))>>) /\ Good(<<Send(h.o, PostGameMsg(id))>>)
            /\ Good(<<Send(h.x, PostGameMsg(id)), Send(h.o, PostGameMsg(id))>>)
        BY <4>1, GoodPrograms, Zenon
      <4> HIDE DEF h, id
      <4> QED BY <4>2
    <3> HIDE DEF a, asked
    <3>4. Good(a \o asked)
      BY <3>2, <3>3, GoodPrograms, Zenon
    <3> QED BY <3>1, <3>4, ProceedsSimply, Zenon
  <2>3. CASE id \in DOMAIN games /\ h.winner = "RESULT_NONE"
    <3>1. Then(s, State(h.x, h.o, id))
      BY <1>3, <2>3 DEF move_state
    <3>2. Good(State(h.x, h.o, id))
      BY <2>3, GoodAnnouncements, Zenon
    <3> QED BY <3>1, <3>2, ProceedsSimply, Zenon
  <2> QED BY <2>1, <2>2, <2>3
<1>4. CASE post_game(s)
  <2> DEFINE h == Current(s)
             id == h.game_id
             a == IF h.wants THEN <<>> ELSE <<SetPlaying(s, FALSE, 0), LeaveGame(id)>>
             e == [op |-> "post_state", game_id |-> id, wants |-> h.wants]
             b == IF PostGame(games[id], s, h.wants).both_decided THEN <<e>> ELSE <<>>
  <2>1. Fail(s) \/ Then(s, a \o b)
    BY <1>4, Zenon DEF post_game
  <2>2. OkStep(e) /\ OkStep(SetPlaying(s, FALSE, 0)) /\ OkStep(LeaveGame(id))
    <3>1. OkStep(e)
      BY DEF OkStep, StepOK, Outside
    <3> QED BY <3>1, OkSteps, Zenon
  <2> HIDE DEF e, id, h
  <2>3. Good(a) /\ Good(b)
    BY <2>2, GoodPrograms, Zenon
  <2> HIDE DEF a, b
  <2>4. Good(a \o b)
    BY <2>3, GoodPrograms, Zenon
  <2> QED BY <2>1, <2>4, ProceedsSimply, Zenon
<1>5. CASE post_state(s)
  <2> DEFINE h == Current(s)
             e == [op |-> "post_players", game_id |-> h.game_id, wants |-> h.wants]
  <2>1. OkStep(e) /\ OkStep(Broadcast)
    <3>1. OkStep(e)
      BY DEF OkStep, StepOK, Outside
    <3> QED BY <3>1, OkSteps, Zenon
  <2>2. Then(s, <<e, Broadcast>>) \/ Then(s, <<Broadcast>>)
    BY <1>5, Zenon DEF post_state
  <2> HIDE DEF e
  <2> QED BY <2>1, <2>2, GoodPrograms, ProceedsSimply, Zenon
<1>6. CASE post_players(s)
  <2> DEFINE h == Current(s)
             id == h.game_id
             keep(sock) == IF ~h.wants /\ sock = s THEN NoSocket ELSE sock
             x == keep(games[id].player_x_socket)
             o == keep(games[id].player_o_socket)
             e == [op |-> "restart_state", game_id |-> id, x |-> x, o |-> o]
             a == <<SetPlaying(x, TRUE, id), Send(x, WaitingMsg(id))>>
             b == <<SetPlaying(x, TRUE, id), SetPlaying(o, TRUE, id)>>
  <2>1. Then(s, CASE id \notin DOMAIN games -> <<>>
                  [] id \in DOMAIN games /\ o = NoSocket /\ x = NoSocket -> <<>>
                  [] id \in DOMAIN games /\ o = NoSocket /\ x # NoSocket -> a
                  [] OTHER -> b \o Start(x, o, id) \o <<e>>)
    BY <1>6, Zenon DEF post_players
  <2>2. OkStep(e)
    BY DEF OkStep, StepOK, Outside
  <2>3. CASE id \notin DOMAIN games
    BY <2>1, <2>3, ProceedsSimply
  <2>4. CASE id \in DOMAIN games
    <3>1. id \in GameIds /\ Good(Start(x, o, id))
      BY <2>4, GoodAnnouncements, Zenon
    <3>2. OkStep(SetPlaying(x, TRUE, id)) /\ OkStep(SetPlaying(o, TRUE, id))
          /\ OkStep(Send(x, WaitingMsg(id)))
      BY <3>1, OkMessages, OkSteps, Zenon
    <3>3. Good(a) /\ Good(b)
      BY <3>2, GoodPrograms, Zenon
    <3> HIDE DEF a, b, e, x, o, id
    <3>4. Good(b \o Start(x, o, id))
      BY <3>1, <3>3, GoodPrograms, Zenon
    <3>5. Good(b \o Start(x, o, id) \o <<e>>)
      BY <2>2, <3>4, GoodPrograms, Zenon
    <3>6. Then(s, <<>>) \/ Then(s, a) \/ Then(s, b \o Start(x, o, id) \o <<e>>)
      BY <2>1, <2>4
    <3> QED BY <3>3, <3>5, <3>6, ProceedsSimply, Zenon
  <2> QED BY <2>3, <2>4
<1>7. CASE restart_state(s)
  <2> DEFINE h == Current(s)
  <2>1. Then(s, IF h.game_id \in DOMAIN games THEN State(h.x, h.o, h.game_id) ELSE <<>>)
    BY <1>7, Zenon DEF restart_state
  <2>2. h.game_id \in DOMAIN games => Good(State(h.x, h.o, h.game_id))
    BY GoodAnnouncements, Zenon
  <2> QED BY <2>1, <2>2, ProceedsSimply, Zenon
<1> QED BY <1>1, <1>2, <1>3, <1>4, <1>5, <1>6, <1>7

-----------------------------------------------------------------------------
(* The interfaces. *)

(* A message the server sends leaves the interface in a well-typed state. *)
LEMMA HandleEventType ==
  ASSUME NEW v \in UIState, NEW m, MsgOK(m)
  PROVE  handle_event(v, m) \in UIState
<1>1. CASE m.type = "MSG_GAME_STATE"
  <2>1. /\ m.board \in [Cells -> {" ", "X", "O", "NUL"}]
        /\ m.current_turn \in {"PLAYER_X", "PLAYER_O"} /\ m.game_id \in GameIds
    BY <1>1 DEF MsgOK, Marks, Players
  <2>2. handle_event(v, m) =
          [v EXCEPT !.board = m.board, !.current_turn = m.current_turn,
                    !.current_game_id = m.game_id, !.screen = "SCREEN_IN_GAME"]
    BY <1>1 DEF handle_event
  <2> QED BY <2>1, <2>2 DEF UIState, Screens
<1>2. CASE m.type = "MSG_GAME_START"
  BY <1>2 DEF MsgOK, handle_event, UIState, Screens, Players
<1>3. CASE m.type = "MSG_LOBBY_UPDATE"
  BY <1>3 DEF MsgOK, handle_event, UIState
<1>4. CASE m.type \in {"MSG_JOIN_REQUEST", "MSG_GAME_STATUS_CHANGE"}
  BY <1>4 DEF MsgOK, handle_event, UIState, Screens
<1>5. CASE m.type \in {"MSG_GAME_OVER", "MSG_POST_GAME_OPTIONS", "MSG_ERROR"}
  BY <1>5 DEF handle_event, UIState, Screens
<1> QED BY <1>1, <1>2, <1>3, <1>4, <1>5 DEF MsgOK

\* The outcome of a key: a well-typed state, and requests the handlers can take.
GoodCmds(q) == q \in Seq(ToSet(q)) /\ \A m \in ToSet(q) : CmdOK(m)
KeyOK(k) == k.ui \in UIState /\ GoodCmds(k.cmds)

(* Up to two good requests at once are good. *)
LEMMA GoodCommands ==
  /\ GoodCmds(<<>>)
  /\ \A a : CmdOK(a) => GoodCmds(<<a>>)
  /\ \A a, b : CmdOK(a) /\ CmdOK(b) => GoodCmds(<<a, b>>)
BY ShortPrograms DEF GoodCmds

(* The requests the interface builds. *)
LEMMA OkCommands ==
  /\ CmdOK(CreateCmd) /\ CmdOK(ListCmd) /\ CmdOK(LeaveCmd)
  /\ \A id : CmdOK(JoinCmd(id))
  /\ \A id : \A yes \in BOOLEAN : CmdOK(DecisionCmd(id, yes)) /\ CmdOK(PostGameCmd(id, yes))
  /\ \A id : \A c \in Cells : CmdOK(MoveCmd(id, c))
BY DEF CmdOK, CreateCmd, ListCmd, LeaveCmd, JoinCmd, DecisionCmd, PostGameCmd, MoveCmd

(* The states the interface goes to on a key. *)
LEMMA OkScreens ==
  ASSUME NEW v \in UIState
  PROVE  /\ \A screen \in Screens : OnScreen(v, screen) \in UIState
         /\ GivenUp(v) \in UIState
         /\ [v EXCEPT !.error_message = FALSE] \in UIState
         /\ \A id \in GameIds :
              [v EXCEPT !.current_game_id = id, !.screen = "SCREEN_GAME_WAITING"] \in UIState
BY DEF UIState, Screens, OnScreen, GivenUp

(* A key and what it stands for. *)
LEMMA KeyFields ==
  ASSUME NEW v, NEW q, v \in UIState, GoodCmds(q)
  PROVE  KeyOK(Key(v, q))
BY DEF KeyOK, Key

(* Whatever the user presses, on whatever screen. *)
LEMMA KeysType ==
  ASSUME NEW v \in UIState, NEW k \in Keys(v)
  PROVE  KeyOK(k)
<1>1. /\ \A screen \in Screens : OnScreen(v, screen) \in UIState
      /\ GivenUp(v) \in UIState
  BY OkScreens, Zenon
<1>2. /\ GoodCmds(<<>>) /\ GoodCmds(<<CreateCmd>>) /\ GoodCmds(<<ListCmd>>)
      /\ GoodCmds(<<LeaveCmd>>)
  BY GoodCommands, OkCommands, Zenon
<1>3. CASE v.error_message
  <2>1. k = Key([v EXCEPT !.error_message = FALSE], <<>>)
    BY <1>3 DEF Keys
  <2> QED BY <1>2, <2>1, OkScreens, KeyFields, Zenon
<1>4. CASE ~v.error_message /\ v.screen = "SCREEN_MAIN_MENU"
  <2>1. k \in MenuKeys(v)
    BY <1>4 DEF Keys
  <2>2. OnScreen(v, "SCREEN_LOBBY") \in UIState
    BY <1>1 DEF Screens
  <2> QED BY <1>2, <2>1, <2>2, KeyFields, Zenon DEF MenuKeys
<1>5. CASE ~v.error_message /\ v.screen = "SCREEN_LOBBY"
  <2>1. k \in LobbyKeys(v)
    BY <1>5 DEF Keys
  <2>2. OnScreen(v, "SCREEN_MAIN_MENU") \in UIState
    BY <1>1 DEF Screens
  <2>3. v.lobby_games \subseteq GameIds
    BY DEF UIState
  <2>4. ASSUME NEW id \in v.lobby_games
        PROVE  KeyOK(Key([v EXCEPT !.current_game_id = id, !.screen = "SCREEN_GAME_WAITING"],
                         <<JoinCmd(id)>>))
    BY <2>3, OkScreens, OkCommands, GoodCommands, KeyFields, Zenon
  <2> QED BY <1>2, <2>1, <2>2, <2>4, KeyFields, Zenon DEF LobbyKeys
<1>6. CASE ~v.error_message /\ v.screen = "SCREEN_GAME_WAITING"
  <2>1. k \in WaitingKeys(v)
    BY <1>6 DEF Keys
  <2> QED BY <1>1, <1>2, <2>1, KeyFields, Zenon DEF WaitingKeys
<1>7. CASE ~v.error_message /\ v.screen = "SCREEN_IN_GAME"
  <2>1. k \in InGameKeys(v)
    BY <1>7 DEF Keys
  <2>2. ASSUME NEW c \in Cells
        PROVE  KeyOK(Key(v, <<MoveCmd(v.current_game_id, c)>>))
    BY OkCommands, GoodCommands, KeyFields, Zenon
  <2> QED BY <1>1, <1>2, <2>1, <2>2, KeyFields, Zenon DEF InGameKeys
<1>8. CASE ~v.error_message /\ v.screen = "SCREEN_JOIN_REQUEST"
  <2>1. k \in JoinRequestKeys(v)
    BY <1>8 DEF Keys
  <2>2. OnScreen(v, "SCREEN_GAME_WAITING") \in UIState
    BY <1>1 DEF Screens
  <2>3. \A yes \in BOOLEAN :
          KeyOK(Key(OnScreen(v, "SCREEN_GAME_WAITING"), <<DecisionCmd(v.join_game_id, yes)>>))
    BY <2>2, OkCommands, GoodCommands, KeyFields, Zenon
  <2>4. FALSE \in BOOLEAN
    OBVIOUS
  <2>5. KeyOK(Key(GivenUp(v), <<DecisionCmd(v.join_game_id, FALSE), LeaveCmd>>))
    BY <1>1, <2>4, OkCommands, GoodCommands, KeyFields, Zenon
  <2> QED BY <2>1, <2>3, <2>5, Zenon DEF JoinRequestKeys
<1>9. CASE ~v.error_message /\ v.screen = "SCREEN_POST_GAME"
  <2>1. k \in PostGameKeys(v)
    BY <1>9 DEF Keys
  <2>2. OnScreen(v, "SCREEN_GAME_WAITING") \in UIState /\ OnScreen(v, "SCREEN_MAIN_MENU") \in UIState
    BY <1>1 DEF Screens
  <2>3. TRUE \in BOOLEAN /\ FALSE \in BOOLEAN
    OBVIOUS
  <2>4. GoodCmds(<<PostGameCmd(v.current_game_id, TRUE)>>)
        /\ GoodCmds(<<PostGameCmd(v.current_game_id, FALSE)>>)
    BY <2>3, OkCommands, GoodCommands, Zenon
  <2> QED BY <2>1, <2>2, <2>4, KeyFields, Zenon DEF PostGameKeys
<1>10. CASE ~v.error_message /\ v.screen = "SCREEN_GAME_OVER"
  <2>1. k \in GameOverKeys(v)
    BY <1>10 DEF Keys
  <2> QED BY <1>1, <1>2, <2>1, KeyFields, Zenon DEF GameOverKeys
<1>11. v.screen \in Screens
  BY DEF UIState
<1> QED BY <1>3, <1>4, <1>5, <1>6, <1>7, <1>8, <1>9, <1>10, <1>11 DEF Screens

(* The interface starts well typed. *)
LEMMA InitialUIType == InitialUI \in UIState
BY DEF InitialUI, UIState, Screens

-----------------------------------------------------------------------------
(* The steps, and what they keep. *)

\* The steps of thread s between its first and its last.
Serving(s) ==
  \/ client_set_playing(s) \/ client_is_playing(s) \/ send_message(s)
  \/ handle_list_game(s) \/ broadcast_list(s) \/ broadcast_collect(s)
  \/ create_game(s) \/ check_owner(s) \/ join_game(s) \/ notify_owner(s)
  \/ get_waiting(s) \/ join_decision(s) \/ start_players(s) \/ start_state(s) \/ set_players(s)
  \/ move(s) \/ move_players(s) \/ move_state(s)
  \/ post_game(s) \/ post_state(s) \/ post_players(s) \/ restart_state(s)
  \/ read_target(s) \/ leave_game(s) \/ scan(s)

(* They all go on with good steps. *)
LEMMA ServingProceeds ==
  ASSUME SInv, NEW s \in Sockets, Serving(s)
  PROVE  Proceeds(s)
BY LobbyStepsProceed, JoinStepsProceed, MatchStepsProceed, Zenon DEF Serving

(* They leave the connections alone, and the table but for what two of them *)
(* say about who is playing.                                                *)
LEMMA ServingFrame ==
  ASSUME NEW s \in Sockets, Serving(s)
  PROVE  /\ s \in open /\ todo[s] # <<>>
         /\ UNCHANGED <<open, inbox, conn, active_clients_count>>
         /\ client_set_playing(s) \/ set_players(s) \/ UNCHANGED clients
         /\ send_message(s) \/ UNCHANGED ui
<1>1. CASE \/ client_set_playing(s) \/ client_is_playing(s) \/ send_message(s)
           \/ handle_list_game(s) \/ broadcast_list(s) \/ broadcast_collect(s)
           \/ create_game(s) \/ check_owner(s) \/ join_game(s) \/ notify_owner(s)
           \/ get_waiting(s) \/ join_decision(s)
  BY <1>1, Zenon
     DEF client_set_playing, client_is_playing, send_message, handle_list_game,
         broadcast_list, broadcast_collect, create_game, check_owner, join_game,
         notify_owner, get_waiting, join_decision, wire, rows, Runs
<1>2. CASE \/ start_players(s) \/ start_state(s) \/ set_players(s)
           \/ move(s) \/ move_players(s) \/ move_state(s)
           \/ post_game(s) \/ post_state(s) \/ post_players(s) \/ restart_state(s)
           \/ read_target(s) \/ leave_game(s) \/ scan(s)
  BY <1>2, Zenon
     DEF start_players, start_state, set_players, move, move_players, move_state,
         post_game, post_state, post_players, restart_state, read_target, leave_game, scan,
         wire, rows, Runs
<1> QED BY <1>1, <1>2, Zenon DEF Serving

\* The rows are well typed, and as far as their sockets go, as before.
SameRows == /\ clients' \in [Slots -> Client]
            /\ \A i \in Slots : /\ clients'[i].is_active = clients[i].is_active
                                /\ clients'[i].socket = clients[i].socket

(* Marking a player changes neither who has a row nor which. *)
LEMMA ServingKeepsRows ==
  ASSUME SInv, NEW s \in Sockets, Serving(s)
  PROVE  SameRows
<1>1. clients \in [Slots -> Client]
  BY DEF SInv, ServerTypeOK
<1>2. CASE UNCHANGED clients
  BY <1>1, <1>2 DEF SameRows
<1>3. CASE client_set_playing(s)
  <2> DEFINE h == Current(s)
             new == IF h.playing THEN h.game_id ELSE NoGame
  <2>1. h.playing \in BOOLEAN /\ new \in GameIds \cup {NoGame}
    BY <1>3, CurrentOK DEF client_set_playing, StepOK
  <2>2. clients' = [i \in Slots |-> IF RowsOf(h.sock) # {} /\ i = Min(RowsOf(h.sock))
                       THEN [clients[i] EXCEPT !.is_playing = h.playing, !.current_game_id = new]
                       ELSE clients[i]]
    BY <1>3, Zenon DEF client_set_playing, WithPlaying
  <2> HIDE DEF h, new
  <2>3. \A i \in Slots :
          LET r == [clients[i] EXCEPT !.is_playing = h.playing, !.current_game_id = new]
          IN  r \in Client /\ r.is_active = clients[i].is_active /\ r.socket = clients[i].socket
    BY <1>1, <2>1 DEF Client
  <2> QED BY <1>1, <2>2, <2>3 DEF SameRows
<1>4. CASE set_players(s)
  <2> DEFINE h == Current(s)
  <2>1. h.game_id \in GameIds
    BY <1>4, CurrentOK DEF set_players, StepOK
  <2>2. clients' = [i \in Slots |->
                      IF clients[i].is_active /\ clients[i].socket \in h.socks
                      THEN [clients[i] EXCEPT !.is_playing = TRUE, !.current_game_id = h.game_id]
                      ELSE clients[i]]
    BY <1>4, Zenon DEF set_players
  <2> HIDE DEF h
  <2>3. \A i \in Slots :
          LET r == [clients[i] EXCEPT !.is_playing = TRUE, !.current_game_id = h.game_id]
          IN  r \in Client /\ r.is_active = clients[i].is_active /\ r.socket = clients[i].socket
    BY <1>1, <2>1 DEF Client
  <2> QED BY <1>1, <2>2, <2>3 DEF SameRows
<1> QED BY <1>2, <1>3, <1>4, ServingFrame, Zenon

(* Same rows, same owners of rows. *)
LEMMA SameRowsOf == SameRows => \A s : RowsOf(s)' = RowsOf(s)
BY DEF SameRows, RowsOf

(* A thread that goes on with good steps keeps every program good. *)
LEMMA ProceedsKeepsPrograms ==
  ASSUME SInv, NEW s \in Sockets,
         \/ Proceeds(s) /\ todo[s] # <<>>
         \/ \E p : Good(p) /\ Return(s, p),
         \A t : RowsOf(t)' = RowsOf(t)
  PROVE  Programs'
<1>1. /\ DOMAIN todo = Sockets
      /\ \A t \in Sockets : /\ todo[t] \in Seq(ToSet(todo[t]))
                            /\ \A e \in ToSet(todo[t]) : StepOK(e) /\ (Outside(e) => RowsOf(t) = {})
  BY Zenon DEF SInv, Programs, ProgramOK
<1>2. PICK q : /\ todo' = [todo EXCEPT ![s] = q]
               /\ q \in Seq(ToSet(q))
               /\ \A e \in ToSet(q) : StepOK(e) /\ (Outside(e) => RowsOf(s) = {})
  <2>1. CASE \E p : Good(p) /\ Return(s, p)
    BY <2>1, Zenon DEF Good, OkStep, Return
  <2>2. ASSUME todo[s] # <<>>, NEW p, Good(p), Then(s, p)
        PROVE  \E q : /\ todo' = [todo EXCEPT ![s] = q]
                      /\ q \in Seq(ToSet(q))
                      /\ \A e \in ToSet(q) : StepOK(e) /\ (Outside(e) => RowsOf(s) = {})
    <3> DEFINE r == Tail(todo[s])
               q == p \o r
    <3>1. r \in Seq(ToSet(r)) /\ ToSet(r) \subseteq ToSet(todo[s])
      BY <1>1, <2>2, TailSteps, Zenon
    <3>2. p \in Seq(ToSet(p)) /\ \A e \in ToSet(p) : StepOK(e) /\ ~Outside(e)
      BY <2>2, Zenon DEF Good, OkStep
    <3>3. q \in Seq(ToSet(q)) /\ ToSet(q) \subseteq ToSet(p) \cup ToSet(r)
      <4> HIDE DEF r
      <4> QED BY <3>1, <3>2, CatSteps
    <3>4. \A e \in ToSet(q) : StepOK(e) /\ (Outside(e) => RowsOf(s) = {})
      <4> HIDE DEF r, q
      <4> QED BY <1>1, <3>1, <3>2, <3>3, Zenon
    <3>5. todo' = [todo EXCEPT ![s] = q]
      BY <2>2 DEF Then
    <3> QED BY <3>3, <3>4, <3>5, Zenon
  <2> QED BY <2>1, <2>2, Zenon DEF Proceeds
<1>3. DOMAIN todo' = Sockets /\ \A t \in Sockets : todo'[t] = IF t = s THEN q ELSE todo[t]
  BY <1>1, <1>2
<1>4. ASSUME NEW t \in Sockets
      PROVE  ProgramOK(t)'
  BY <1>1, <1>2, <1>3, Zenon DEF ProgramOK
<1> QED BY <1>3, <1>4, Zenon DEF Programs

-----------------------------------------------------------------------------
(* The invariant is inductive. *)

\* The invariant again, by the parts that change together.
Table == /\ clients \in [Slots -> Client] /\ active_clients_count \in 0..MAX_CLIENTS
         /\ open \subseteq Sockets /\ SlotIntegrity
Clientside == conn \in [Users -> Seats] /\ ui \in [Users -> UIState] /\ Inboxes

(* The parts are the whole. *)
LEMMA SInvParts == SInv <=> IInv /\ Table /\ Clientside /\ Programs
BY Zenon DEF SInv, ServerTypeOK, Table, Clientside, IInv

(* The same rows under at least the same connections. *)
LEMMA SameRowsTable ==
  ASSUME SInv, SameRows, UNCHANGED active_clients_count,
         open' \subseteq Sockets, open \subseteq open'
  PROVE  Table'
<1>1. {i \in Slots : clients'[i].is_active} = {i \in Slots : clients[i].is_active}
  BY DEF SameRows
<1>2. /\ active_clients_count = Cardinality({i \in Slots : clients[i].is_active})
      /\ \A i \in Slots : clients[i].is_active => clients[i].socket \in open
      /\ \A i, j \in Slots : i # j /\ clients[i].is_active /\ clients[j].is_active =>
                               clients[i].socket # clients[j].socket
      /\ active_clients_count \in 0..MAX_CLIENTS
  BY DEF SInv, SlotIntegrity, ServerTypeOK
<1>3. active_clients_count' = Cardinality({i \in Slots : clients'[i].is_active})
  BY <1>1, <1>2
<1>4. /\ \A i \in Slots : clients'[i].is_active => clients'[i].socket \in open'
      /\ \A i, j \in Slots : i # j /\ clients'[i].is_active /\ clients'[j].is_active =>
                               clients'[i].socket # clients'[j].socket
  BY <1>2 DEF SameRows
<1>5. SlotIntegrity'
  BY <1>3, <1>4 DEF SlotIntegrity, Slots
<1> QED BY <1>2, <1>5 DEF Table, SameRows, Slots, Client, Seats, GameIds, NoGame

(* A table nobody touches. *)
LEMMA UntouchedRows == SInv /\ UNCHANGED clients => SameRows
BY DEF SInv, ServerTypeOK, SameRows

(* A thread serving a request keeps the invariant. *)
LEMMA ServingKeeps ==
  ASSUME SInv, NEW s \in Sockets, Serving(s)
  PROVE  Table' /\ Clientside' /\ Programs'
<1>1. SameRows /\ UNCHANGED <<open, inbox, conn, active_clients_count>> /\ todo[s] # <<>>
  BY ServingKeepsRows, ServingFrame, Zenon
<1>2. Table'
  BY <1>1, SameRowsTable DEF SInv, ServerTypeOK
<1>3. Programs'
  BY <1>1, SameRowsOf, ServingProceeds, ProceedsKeepsPrograms, Zenon
<1>4. ui' \in [Users -> UIState]
  <2>1. ui \in [Users -> UIState]
    BY DEF SInv, ServerTypeOK
  <2>2. CASE send_message(s)
    <3>1. MsgOK(Current(s).msg)
      BY <2>2, CurrentOK DEF send_message, StepOK
    <3>2. \A u \in Users : handle_event(ui[u], Current(s).msg) \in UIState
      BY <2>1, <3>1, HandleEventType
    <3> QED BY <2>1, <2>2, <3>2 DEF send_message
  <2> QED BY <2>1, <2>2, ServingFrame, Zenon
<1>5. Clientside'
  BY <1>1, <1>4 DEF SInv, ServerTypeOK, Clientside, Inboxes, InboxOK, Seats
<1> QED BY <1>2, <1>3, <1>5

(* Receiving a request keeps it. *)
LEMMA ReceiveKeeps ==
  ASSUME SInv, NEW s \in Sockets, Receive(s)
  PROVE  Table' /\ Clientside' /\ Programs'
<1>1. /\ inbox[s] # <<>> /\ DOMAIN inbox = Sockets
      /\ \A t \in Sockets : /\ inbox[t] \in Seq(ToSet(inbox[t]))
                            /\ \A m \in ToSet(inbox[t]) : CmdOK(m)
  BY Zenon DEF Receive, SInv, Inboxes, InboxOK
<1>2. /\ Tail(inbox[s]) \in Seq(ToSet(Tail(inbox[s])))
      /\ ToSet(Tail(inbox[s])) \subseteq ToSet(inbox[s])
      /\ inbox[s][1] \in ToSet(inbox[s])
  BY <1>1, TailSteps, Zenon
<1>3. Good(handle_message(Head(inbox[s])))
  <2>1. Head(inbox[s]) = inbox[s][1]
    BY <1>1
  <2> QED BY <1>1, <1>2, <2>1, GoodRequest, Zenon
<1>4. SameRows /\ UNCHANGED <<open, conn, ui, active_clients_count>>
  BY UntouchedRows DEF Receive, rows
<1>5. Table'
  BY <1>4, SameRowsTable DEF SInv, ServerTypeOK
<1>6. Programs'
  <2>1. \E p : Good(p) /\ Return(s, p)
    BY <1>3, Zenon DEF Receive
  <2> QED BY <1>4, <2>1, SameRowsOf, ProceedsKeepsPrograms, Zenon
<1>7. Inboxes'
  <2>1. inbox' = [inbox EXCEPT ![s] = Tail(inbox[s])]
    BY DEF Receive
  <2>2. DOMAIN inbox' = Sockets
        /\ \A t \in Sockets : inbox'[t] = IF t = s THEN Tail(inbox[s]) ELSE inbox[t]
    BY <1>1, <2>1
  <2> QED BY <1>1, <1>2, <2>2, Zenon DEF Inboxes, InboxOK
<1>8. Clientside'
  BY <1>4, <1>7 DEF SInv, ServerTypeOK, Clientside
<1> QED BY <1>5, <1>6, <1>8

(* Adding requests to an inbox keeps the inboxes good. *)
LEMMA PostedKeepsInboxes ==
  ASSUME SInv, NEW s \in Sockets, NEW q, GoodCmds(q),
         inbox' = [inbox EXCEPT ![s] = inbox[s] \o q]
  PROVE  Inboxes'
<1>1. /\ DOMAIN inbox = Sockets
      /\ \A t \in Sockets : /\ inbox[t] \in Seq(ToSet(inbox[t]))
                            /\ \A m \in ToSet(inbox[t]) : CmdOK(m)
  BY Zenon DEF SInv, Inboxes, InboxOK
<1> DEFINE r == inbox[s] \o q
<1>2. r \in Seq(ToSet(r)) /\ ToSet(r) \subseteq ToSet(inbox[s]) \cup ToSet(q)
  BY <1>1, CatSteps, Zenon DEF GoodCmds
<1>3. DOMAIN inbox' = Sockets /\ \A t \in Sockets : inbox'[t] = IF t = s THEN r ELSE inbox[t]
  BY <1>1
<1> HIDE DEF r
<1> QED BY <1>1, <1>2, <1>3, Zenon DEF Inboxes, InboxOK, GoodCmds

(* A key of a user keeps the invariant. *)
LEMMA PressKeyKeeps ==
  ASSUME SInv, NEW u \in Users, PressKey(u)
  PROVE  Table' /\ Clientside' /\ Programs'
<1>1. UNCHANGED <<clients, active_clients_count, open, todo, conn>> /\ SameRows
  BY UntouchedRows DEF PressKey, rows
<1>2. ui \in [Users -> UIState] /\ conn \in [Users -> Seats]
  BY DEF SInv, ServerTypeOK
<1>3. PICK k \in Keys(ui[u]) :
        /\ ui' = [ui EXCEPT ![u] = k.ui]
        /\ IF k.cmds = <<>> THEN UNCHANGED inbox
           ELSE conn[u] # NoSocket /\ inbox' = [inbox EXCEPT ![conn[u]] = inbox[conn[u]] \o k.cmds]
  BY DEF PressKey
<1>4. k.ui \in UIState /\ GoodCmds(k.cmds)
  <2>1. ui[u] \in UIState
    BY <1>2
  <2>2. KeyOK(k)
    BY <1>3, <2>1, KeysType, Zenon
  <2> QED BY <2>2, Zenon DEF KeyOK
<1>5. ui' \in [Users -> UIState]
  BY <1>2, <1>3, <1>4
<1>6. Inboxes'
  <2>1. CASE k.cmds = <<>>
    BY <1>3, <2>1 DEF SInv, Inboxes, InboxOK
  <2>2. CASE k.cmds # <<>>
    <3>1. conn[u] \in Sockets /\ inbox' = [inbox EXCEPT ![conn[u]] = inbox[conn[u]] \o k.cmds]
      BY <1>2, <1>3, <2>2 DEF Seats
    <3> QED BY <1>4, <3>1, PostedKeepsInboxes, Zenon
  <2> QED BY <2>1, <2>2
<1>7. Clientside'
  BY <1>1, <1>2, <1>5, <1>6 DEF Clientside
<1>8. Table'
  BY <1>1, SameRowsTable DEF SInv, ServerTypeOK
<1>9. Programs'
  BY <1>1, SameRowsOf DEF SInv, Programs, ProgramOK
<1> QED BY <1>7, <1>8, <1>9

(* A client that goes away keeps it. *)
LEMMA DisconnectKeeps ==
  ASSUME SInv, NEW u \in Users, Disconnect(u)
  PROVE  Table' /\ Clientside' /\ Programs'
<1>1. UNCHANGED <<clients, active_clients_count, open, todo>> /\ SameRows
  BY UntouchedRows DEF Disconnect, rows
<1>2. ui \in [Users -> UIState] /\ conn \in [Users -> Seats]
  BY DEF SInv, ServerTypeOK
<1>3. ui' \in [Users -> UIState] /\ conn' \in [Users -> Seats]
  BY <1>2, InitialUIType DEF Disconnect, Seats
<1>4. Inboxes'
  <2>1. conn[u] \in Sockets
    BY <1>2 DEF Disconnect, Seats
  <2> DEFINE m == [type |-> "EOF"]
  <2>2. inbox' = [inbox EXCEPT ![conn[u]] = Append(inbox[conn[u]], m)]
    BY DEF Disconnect
  <2>3. CmdOK(m)
    BY DEF CmdOK
  <2> HIDE DEF m
  <2>4. Append(inbox[conn[u]], m) = inbox[conn[u]] \o <<m>>
    <3> DEFINE q == inbox[conn[u]]
               S == ToSet(q) \cup {m}
    <3>1. q \in Seq(ToSet(q))
      BY <2>1, Zenon DEF SInv, Inboxes, InboxOK
    <3> HIDE DEF q
    <3>2. q \in Seq(S)
      <4> DEFINE T == ToSet(q)
      <4>1. q \in Seq(T)
        BY <3>1
      <4> HIDE DEF T
      <4>2. q \in Seq(T \cup {m})
        BY <4>1
      <4> QED BY <4>2 DEF T
    <3>3. m \in S
      OBVIOUS
    <3> HIDE DEF S
    <3>4. Append(q, m) = q \o <<m>>
      BY <3>2, <3>3
    <3> QED BY <3>4 DEF q
  <2>5. GoodCmds(<<m>>)
    BY <2>3, GoodCommands, Zenon
  <2> QED BY <2>1, <2>2, <2>4, <2>5, PostedKeepsInboxes, Zenon
<1>5. Clientside'
  BY <1>3, <1>4 DEF Clientside
<1>6. Table'
  BY <1>1, SameRowsTable DEF SInv, ServerTypeOK
<1>7. Programs'
  BY <1>1, SameRowsOf DEF SInv, Programs, ProgramOK
<1> QED BY <1>5, <1>6, <1>7

(* The least of a set of numbers is one of them. *)
LEMMA MinIsMember ==
  ASSUME NEW S, S \subseteq Nat, S # {}
  PROVE  Min(S) \in S
<1>1. PICK i \in S : \A j \in S : ~(<<j, i>> \in OpToRel(<, Nat))
  BY NatLessThanWellFounded, WFMin, Zenon
<1>2. ASSUME NEW j \in S
      PROVE  i <= j
  <2>1. i \in Nat /\ j \in Nat
    OBVIOUS
  <2>2. ~(j < i)
    <3>1. <<j, i>> \in Nat \X Nat
      BY <2>1
    <3>2. <<j, i>>[1] = j /\ <<j, i>>[2] = i
      OBVIOUS
    <3> QED BY <1>1, <3>1, <3>2, Zenon DEF OpToRel
  <2> QED BY <2>1, <2>2
<1> QED BY <1>2, Zenon DEF Min

(* A new connection gets a descriptor nobody has, and no row has either. *)
LEMMA ConnectKeeps ==
  ASSUME SInv, NEW u \in Users, Connect(u)
  PROVE  Table' /\ Clientside' /\ Programs'
<1> DEFINE s == Min(Sockets \ open)
<1>1. s \in Sockets /\ s \notin open
  <2>1. Sockets \ open # {} /\ Sockets \ open \subseteq Nat
    BY ServerAssumption DEF SInv, ServerTypeOK, Connect
  <2> QED BY <2>1, MinIsMember
<1>2. /\ open' = open \cup {s}
      /\ conn' = [conn EXCEPT ![u] = s]
      /\ todo' = [todo EXCEPT ![s] = <<Do("add_client")>>]
      /\ inbox' = [inbox EXCEPT ![s] = <<>>]
      /\ UNCHANGED <<clients, active_clients_count, ui>>
  BY Zenon DEF Connect, Return, rows
<1> HIDE DEF s
<1>3. SameRows
  BY <1>2, UntouchedRows
<1>4. Table'
  BY <1>1, <1>2, <1>3, SameRowsTable DEF SInv, ServerTypeOK
<1>5. conn' \in [Users -> Seats] /\ ui' \in [Users -> UIState]
  BY <1>1, <1>2 DEF SInv, ServerTypeOK, Seats
<1>6. Inboxes'
  <2>1. DOMAIN inbox = Sockets /\ \A t \in Sockets : InboxOK(t)
    BY DEF SInv, Inboxes
  <2>2. DOMAIN inbox' = Sockets /\ \A t \in Sockets : inbox'[t] = IF t = s THEN <<>> ELSE inbox[t]
    BY <1>1, <1>2, <2>1
  <2>3. GoodCmds(<<>>)
    BY GoodCommands
  <2> QED BY <2>1, <2>2, <2>3, Zenon DEF Inboxes, InboxOK, GoodCmds
<1>7. Programs'
  <2>1. DOMAIN todo = Sockets /\ \A t \in Sockets : ProgramOK(t)
    BY DEF SInv, Programs
  <2>2. /\ DOMAIN todo' = Sockets
        /\ \A t \in Sockets : todo'[t] = IF t = s THEN <<Do("add_client")>> ELSE todo[t]
    BY <1>1, <1>2, <2>1
  <2>3. RowsOf(s) = {}
    BY <1>1 DEF SInv, SlotIntegrity, RowsOf
  <2>4. \A t : RowsOf(t)' = RowsOf(t)
    BY <1>3, SameRowsOf
  <2>5. StepOK(Do("add_client"))
    BY DEF StepOK, Do
  <2>6. /\ <<Do("add_client")>> \in Seq(ToSet(<<Do("add_client")>>))
        /\ ToSet(<<Do("add_client")>>) = {Do("add_client")}
    BY ShortPrograms
  <2>7. ASSUME NEW t \in Sockets PROVE ProgramOK(t)'
    BY <2>1, <2>2, <2>3, <2>4, <2>5, <2>6, Zenon DEF ProgramOK
  <2> QED BY <2>2, <2>7, Zenon DEF Programs
<1> QED BY <1>4, <1>5, <1>6, <1>7 DEF Clientside

(* Replacing the program of one thread, given what becomes of the rows. *)
LEMMA NewProgram ==
  ASSUME SInv, NEW s \in Sockets, NEW p, Return(s, p),
         p \in Seq(ToSet(p)),
         \A e \in ToSet(p) : StepOK(e) /\ (Outside(e) => RowsOf(s)' = {}),
         \A t \in Sockets \ {s} : RowsOf(t)' = RowsOf(t)
  PROVE  Programs'
<1>1. DOMAIN todo = Sockets /\ \A t \in Sockets : ProgramOK(t)
  BY DEF SInv, Programs
<1>2. DOMAIN todo' = Sockets /\ \A t \in Sockets : todo'[t] = IF t = s THEN p ELSE todo[t]
  BY <1>1 DEF Return
<1>3. ASSUME NEW t \in Sockets PROVE ProgramOK(t)'
  <2>1. CASE t = s
    BY <1>2, <2>1, Zenon DEF ProgramOK
  <2>2. CASE t # s
    <3>1. todo'[t] = todo[t] /\ RowsOf(t)' = RowsOf(t)
      BY <1>2, <2>2
    <3> QED BY <1>1, <3>1, Zenon DEF ProgramOK
  <2> QED BY <2>1, <2>2
<1> QED BY <1>2, <1>3, Zenon DEF Programs

(* close frees a descriptor that no row carries any more. *)
LEMMA CloseKeeps ==
  ASSUME SInv, NEW s \in Sockets, close(s)
  PROVE  Table' /\ Clientside' /\ Programs'
<1>1. /\ open' = open \ {s}
      /\ inbox' = [inbox EXCEPT ![s] = <<>>]
      /\ conn' = [u \in Users |-> IF conn[u] = s THEN NoSocket ELSE conn[u]]
      /\ ui' = [u \in Users |-> IF conn[u] = s THEN handle_event(ui[u], ErrorMsg) ELSE ui[u]]
      /\ Return(s, <<>>)
      /\ UNCHANGED <<clients, active_clients_count>>
  BY Zenon DEF close, rows
<1>2. RowsOf(s) = {}
  BY CurrentOK DEF close, Outside
<1>3. Table'
  <2>1. /\ \A i \in Slots : clients[i].is_active => clients[i].socket \in open /\ clients[i].socket # s
        /\ \A i, j \in Slots : i # j /\ clients[i].is_active /\ clients[j].is_active =>
                                 clients[i].socket # clients[j].socket
        /\ active_clients_count = Cardinality({i \in Slots : clients[i].is_active})
    BY <1>2 DEF SInv, SlotIntegrity, RowsOf
  <2>2. SlotIntegrity'
    BY <1>1, <2>1 DEF SlotIntegrity, Slots
  <2> QED BY <1>1, <2>2
      DEF Table, SInv, ServerTypeOK, Slots, Client, Seats, GameIds, NoGame
<1>4. conn' \in [Users -> Seats] /\ ui' \in [Users -> UIState]
  <2>1. ui \in [Users -> UIState] /\ conn \in [Users -> Seats]
    BY DEF SInv, ServerTypeOK
  <2>2. \A u \in Users : handle_event(ui[u], ErrorMsg) \in UIState
    BY <2>1, OkMessages, HandleEventType
  <2> QED BY <1>1, <2>1, <2>2 DEF Seats
<1>5. Inboxes'
  <2>1. DOMAIN inbox = Sockets /\ \A t \in Sockets : InboxOK(t)
    BY DEF SInv, Inboxes
  <2>2. DOMAIN inbox' = Sockets /\ \A t \in Sockets : inbox'[t] = IF t = s THEN <<>> ELSE inbox[t]
    BY <1>1, <2>1
  <2>3. GoodCmds(<<>>)
    BY GoodCommands
  <2> QED BY <2>1, <2>2, <2>3, Zenon DEF Inboxes, InboxOK, GoodCmds
<1>6. Programs'
  <2>1. \A t : RowsOf(t)' = RowsOf(t)
    BY <1>1, UntouchedRows, SameRowsOf
  <2>2. Good(<<>>)
    BY GoodPrograms
  <2> QED BY <1>1, <2>1, <2>2, ProceedsKeepsPrograms, Zenon
<1> QED BY <1>3, <1>4, <1>5, <1>6 DEF Clientside

(* The rows in use are finitely many, at most MAX_CLIENTS. *)
LEMMA InUseBounded ==
  ASSUME NEW A, A \subseteq Slots
  PROVE  IsFiniteSet(A) /\ Cardinality(A) \in 0..MAX_CLIENTS
<1>1. IsFiniteSet(Slots) /\ Cardinality(Slots) = MAX_CLIENTS
  <2>1. 1..MAX_CLIENTS = Slots /\ MAX_CLIENTS \in Nat
    BY ServerAssumption DEF Slots
  <2>2. /\ IsFiniteSet(1..MAX_CLIENTS)
        /\ Cardinality(1..MAX_CLIENTS) = IF 1 > MAX_CLIENTS THEN 0 ELSE MAX_CLIENTS - 1 + 1
    BY <2>1, FS_Interval
  <2> QED BY <2>1, <2>2
<1>2. IsFiniteSet(A) /\ Cardinality(A) <= Cardinality(Slots)
  BY <1>1, FS_Subset
<1>3. Cardinality(A) \in Nat
  BY <1>2, FS_CardinalityType
<1> QED BY <1>1, <1>2, <1>3, ServerAssumption

(* A new row is for the caller, who had none; a refused caller gets none. *)
LEMMA AddClientKeeps ==
  ASSUME SInv, NEW s \in Sockets, add_client(s)
  PROVE  Table' /\ Clientside' /\ Programs'
<1> DEFINE free == {i \in Slots : ~clients[i].is_active}
           used == {i \in Slots : clients[i].is_active}
           r == [EmptyRow EXCEPT !.socket = s, !.is_active = TRUE]
<1>1. /\ s \in open /\ RowsOf(s) = {}
      /\ UNCHANGED <<open, inbox, conn, ui>>
  <2>1. Runs(s, "add_client") /\ UNCHANGED <<open, inbox, conn, ui>>
    BY Zenon DEF add_client, wire
  <2>2. RowsOf(s) = {}
    BY <2>1, CurrentOK DEF Outside
  <2> QED BY <2>1, <2>2 DEF Runs
<1>2. Clientside'
  BY <1>1 DEF SInv, ServerTypeOK, Clientside, Inboxes, InboxOK, Seats
<1>3. /\ clients \in [Slots -> Client] /\ open \subseteq Sockets
      /\ active_clients_count = Cardinality(used)
      /\ \A i \in Slots : clients[i].is_active => clients[i].socket \in open
      /\ \A i, j \in Slots : i # j /\ clients[i].is_active /\ clients[j].is_active =>
                               clients[i].socket # clients[j].socket
  BY DEF SInv, ServerTypeOK, SlotIntegrity
<1>4. CASE UNCHANGED rows /\ Return(s, <<Send(s, ErrorMsg), Do("close")>>)
  <2>1. SameRows /\ UNCHANGED active_clients_count
    BY <1>4, UntouchedRows DEF rows
  <2>2. Table'
    BY <1>1, <1>3, <2>1, SameRowsTable
  <2>3. \A t : RowsOf(t)' = RowsOf(t)
    BY <2>1, SameRowsOf
  <2>4. Programs'
    <3> DEFINE a == Send(s, ErrorMsg)
               b == Do("close")
    <3>1. <<a, b>> \in Seq(ToSet(<<a, b>>)) /\ ToSet(<<a, b>>) = {a, b}
      BY ShortPrograms
    <3>2. StepOK(a)
      BY OkSteps, OkMessages, Zenon DEF OkStep
    <3>3. StepOK(b)
      BY DEF StepOK, Do
    <3>4. Return(s, <<a, b>>)
      BY <1>4
    <3> HIDE DEF a, b
    <3>5. \A e \in ToSet(<<a, b>>) : StepOK(e) /\ (Outside(e) => RowsOf(s)' = {})
      BY <1>1, <2>3, <3>1, <3>2, <3>3, Zenon
    <3> QED BY <2>3, <3>1, <3>4, <3>5, NewProgram, Zenon
  <2> QED BY <1>2, <2>2, <2>4
<1>5. CASE /\ free # {} /\ Return(s, <<>>)
           /\ clients' = [clients EXCEPT ![Min(free)] = r]
           /\ active_clients_count' = active_clients_count + 1
  <2> DEFINE k == Min(free)
  <2>1. k \in free
    <3>1. free \subseteq Nat
      BY ServerAssumption DEF Slots
    <3> QED BY <1>5, <3>1, MinIsMember
  <2>2. k \in Slots /\ ~clients[k].is_active
    BY <2>1
  <2>3. r \in Client /\ r.is_active /\ r.socket = s
    BY DEF EmptyRow, Client, Seats, NoGame
  <2> HIDE DEF r
  <2>4. clients' = [clients EXCEPT ![k] = r]
    BY <1>5
  <2> HIDE DEF k
  <2>5. /\ clients' \in [Slots -> Client]
        /\ clients'[k] = r
        /\ \A i \in Slots \ {k} : clients'[i] = clients[i]
    BY <1>3, <2>2, <2>3, <2>4
  <2>6. {i \in Slots : clients'[i].is_active} = used \cup {k}
    BY <2>2, <2>3, <2>5
  <2>7. /\ IsFiniteSet(used) /\ k \notin used
        /\ Cardinality(used \cup {k}) \in 0..MAX_CLIENTS
    BY <2>2, InUseBounded
  <2>8. Cardinality(used \cup {k}) = Cardinality(used) + 1
    BY <2>7, FS_AddElement
  <2>9. /\ active_clients_count' = Cardinality({i \in Slots : clients'[i].is_active})
        /\ active_clients_count' \in 0..MAX_CLIENTS
    BY <1>3, <1>5, <2>6, <2>7, <2>8
  <2>10. \A i \in Slots : clients[i].is_active => clients[i].socket # s
    BY <1>1 DEF RowsOf
  <2>11. /\ \A i \in Slots : clients'[i].is_active => clients'[i].socket \in open'
         /\ \A i, j \in Slots : i # j /\ clients'[i].is_active /\ clients'[j].is_active =>
                                  clients'[i].socket # clients'[j].socket
    BY <1>1, <1>3, <2>3, <2>5, <2>10
  <2>12. SlotIntegrity'
    BY <2>9, <2>11 DEF SlotIntegrity, Slots
  <2>13. Table'
    BY <1>1, <1>3, <2>5, <2>9, <2>12 DEF Table, Slots, Client, Seats, GameIds, NoGame
  <2>14. \A t \in Sockets \ {s} : RowsOf(t)' = RowsOf(t)
    BY <2>2, <2>3, <2>5 DEF RowsOf
  <2>15. Programs'
    <3>1. <<>> \in Seq(ToSet(<<>>)) /\ ToSet(<<>>) = {}
      BY ShortPrograms
    <3>2. Return(s, <<>>)
      BY <1>5
    <3>3. \A e \in ToSet(<<>>) : StepOK(e) /\ (Outside(e) => RowsOf(s)' = {})
      BY <3>1, Zenon
    <3> QED BY <2>14, <3>1, <3>2, <3>3, NewProgram, Zenon
  <2> QED BY <1>2, <2>13, <2>15
<1> QED BY <1>4, <1>5, Zenon DEF add_client

(* The row that is freed was the caller's only one. *)
LEMMA RemoveClientRows ==
  ASSUME SInv, NEW s \in Sockets, remove_client(s)
  PROVE  Table' /\ RowsOf(s)' = {} /\ \A t \in Sockets \ {s} : RowsOf(t)' = RowsOf(t)
<1> DEFINE used == {i \in Slots : clients[i].is_active}
<1>1. UNCHANGED open
  BY Zenon DEF remove_client, wire
<1>2. /\ clients \in [Slots -> Client] /\ open \subseteq Sockets
      /\ active_clients_count = Cardinality(used)
      /\ \A i \in Slots : clients[i].is_active => clients[i].socket \in open
      /\ \A i, j \in Slots : i # j /\ clients[i].is_active /\ clients[j].is_active =>
                               clients[i].socket # clients[j].socket
  BY DEF SInv, ServerTypeOK, SlotIntegrity
<1>3. CASE RowsOf(s) = {}
  <2>1. UNCHANGED <<clients, active_clients_count>>
    BY <1>3, Zenon DEF remove_client, rows
  <2>2. SameRows
    BY <2>1, UntouchedRows
  <2> QED BY <1>1, <1>2, <1>3, <2>1, <2>2, SameRowsTable, SameRowsOf
<1>4. CASE RowsOf(s) # {}
  <2> DEFINE k == Min(RowsOf(s))
             r == [clients[k] EXCEPT !.is_active = FALSE, !.is_playing = FALSE,
                                     !.current_game_id = NoGame]
  <2>1. k \in RowsOf(s)
    <3>1. RowsOf(s) \subseteq Nat
      BY ServerAssumption DEF RowsOf, Slots
    <3> QED BY <1>4, <3>1, MinIsMember
  <2>2. /\ clients' = [clients EXCEPT ![k] = r]
        /\ active_clients_count' = active_clients_count - 1
    BY <1>4 DEF remove_client
  <2> HIDE DEF k
  <2>3. k \in Slots /\ clients[k].is_active /\ clients[k].socket = s
    BY <2>1 DEF RowsOf
  <2>4. r \in Client /\ ~r.is_active
    <3>1. clients[k] \in Client
      BY <1>2, <2>3
    <3> QED BY <3>1 DEF Client, NoGame
  <2> HIDE DEF r
  <2>5. /\ clients' \in [Slots -> Client]
        /\ clients'[k] = r
        /\ \A i \in Slots \ {k} : clients'[i] = clients[i]
    BY <1>2, <2>2, <2>3, <2>4
  <2>6. {i \in Slots : clients'[i].is_active} = used \ {k}
    BY <2>3, <2>4, <2>5
  <2>7. /\ IsFiniteSet(used) /\ k \in used
        /\ Cardinality(used \ {k}) \in 0..MAX_CLIENTS
    BY <2>3, InUseBounded
  <2>8. Cardinality(used \ {k}) = Cardinality(used) - 1
    BY <2>7, FS_RemoveElement
  <2>9. /\ active_clients_count' = Cardinality({i \in Slots : clients'[i].is_active})
        /\ active_clients_count' \in 0..MAX_CLIENTS
    BY <1>2, <2>2, <2>6, <2>7, <2>8
  <2>10. /\ \A i \in Slots : clients'[i].is_active => clients'[i].socket \in open'
         /\ \A i, j \in Slots : i # j /\ clients'[i].is_active /\ clients'[j].is_active =>
                                  clients'[i].socket # clients'[j].socket
    BY <1>1, <1>2, <2>4, <2>5
  <2>11. SlotIntegrity'
    BY <2>9, <2>10 DEF SlotIntegrity, Slots
  <2>12. Table'
    BY <1>1, <1>2, <2>5, <2>9, <2>11 DEF Table, Slots, Client, Seats, GameIds, NoGame
  <2>13. RowsOf(s)' = {}
    BY <1>2, <2>3, <2>4, <2>5 DEF RowsOf
  <2>14. \A t \in Sockets \ {s} : RowsOf(t)' = RowsOf(t)
    BY <2>3, <2>4, <2>5 DEF RowsOf
  <2> QED BY <2>12, <2>13, <2>14
<1> QED BY <1>3, <1>4

(* Freeing the row keeps the invariant. *)
LEMMA RemoveClientKeeps ==
  ASSUME SInv, NEW s \in Sockets, remove_client(s)
  PROVE  Table' /\ Clientside' /\ Programs'
<1> DEFINE lead == IF GameIdOf(s) # NoGame THEN <<LeaveGame(GameIdOf(s))>> ELSE <<>>
           rest == <<Scan(0), Broadcast, Do("close")>>
<1>1. /\ Return(s, lead \o rest)
      /\ UNCHANGED <<open, inbox, conn, ui>>
  BY Zenon DEF remove_client, wire
<1>2. Clientside'
  BY <1>1 DEF SInv, ServerTypeOK, Clientside, Inboxes, InboxOK, Seats
<1>3. Table' /\ RowsOf(s)' = {} /\ \A t \in Sockets \ {s} : RowsOf(t)' = RowsOf(t)
  BY RemoveClientRows, Zenon
<1>4. Programs'
  <2>1. Good(lead)
    BY OkSteps, GoodPrograms, Zenon
  <2>2. rest \in Seq(ToSet(rest)) /\ \A e \in ToSet(rest) : StepOK(e)
    <3>1. OkStep(Scan(0)) /\ OkStep(Broadcast)
      BY OkSteps, Zenon
    <3>2. StepOK(Do("close"))
      BY DEF StepOK, Do
    <3>3. rest \in Seq(ToSet(rest)) /\ ToSet(rest) = {Scan(0), Broadcast, Do("close")}
      BY ShortPrograms
    <3> HIDE DEF rest
    <3> QED BY <3>1, <3>2, <3>3, Zenon DEF OkStep
  <2> HIDE DEF lead, rest
  <2>3. (lead \o rest) \in Seq(ToSet(lead \o rest))
        /\ ToSet(lead \o rest) \subseteq ToSet(lead) \cup ToSet(rest)
    BY <2>1, <2>2, CatSteps DEF Good
  <2>4. \A e \in ToSet(lead \o rest) : StepOK(e) /\ (Outside(e) => RowsOf(s)' = {})
    BY <1>3, <2>1, <2>2, <2>3, Zenon DEF Good, OkStep
  <2> QED BY <1>1, <1>3, <2>3, <2>4, NewProgram, Zenon
<1> QED BY <1>2, <1>3, <1>4

(* Every step of the server keeps the invariant. *)
LEMMA SInvInductive == SInv /\ [ServerNext]_svars => SInv'
<1> SUFFICES ASSUME SInv, [ServerNext]_svars PROVE SInv'
  OBVIOUS
<1>1. IInv'
  BY ServerStepIsManagerStep, IInvInductive DEF SInv
<1>2. CASE UNCHANGED svars
  <2>1. UNCHANGED <<clients, active_clients_count, open, todo, inbox, conn, ui>> /\ SameRows
    BY <1>2, UntouchedRows DEF svars
  <2>2. Table'
    BY <2>1, SameRowsTable DEF SInv, ServerTypeOK
  <2>3. Clientside'
    BY <2>1 DEF SInv, ServerTypeOK, Clientside, Inboxes, InboxOK, Seats
  <2>4. Programs'
    BY <2>1, SameRowsOf DEF SInv, Programs, ProgramOK
  <2> QED BY <1>1, <2>2, <2>3, <2>4 DEF SInv, ServerTypeOK, Table, Clientside, IInv
<1>3. CASE ServerNext
  <2>1. \/ \E u \in Users : Connect(u) \/ Disconnect(u) \/ PressKey(u)
        \/ \E s \in Sockets : Receive(s) \/ add_client(s) \/ remove_client(s) \/ close(s)
                              \/ Serving(s)
    BY <1>3, Zenon DEF ServerNext, Thread, Serving
  <2>2. Table' /\ Clientside' /\ Programs'
    BY <2>1, ConnectKeeps, DisconnectKeeps, PressKeyKeeps, ReceiveKeeps, AddClientKeeps,
       RemoveClientKeeps, CloseKeeps, ServingKeeps, Zenon
  <2> QED BY <1>1, <2>2 DEF SInv, ServerTypeOK, Table, Clientside, IInv
<1> QED BY <1>2, <1>3

(* The invariant holds at the start: no connection, an empty table. *)
LEMMA SInvInitial == ServerInit => SInv
<1> SUFFICES ASSUME ServerInit PROVE SInv
  OBVIOUS
<1>1. IInv
  BY MaxGamesAssumption DEF ServerInit, Init, IInv, TypeOK, PendingJoinIsOpen,
                            TurnMatchesBoard, OutcomeMatchesBoard
<1>2. clients \in [Slots -> Client] /\ \A i \in Slots : ~clients[i].is_active
  BY DEF ServerInit, EmptyRow, Client, Seats, NoGame
<1>3. {i \in Slots : clients[i].is_active} = {}
  BY <1>2
<1>4. SlotIntegrity /\ active_clients_count \in 0..MAX_CLIENTS
  <2>1. active_clients_count = 0 /\ Cardinality({}) = 0
    BY FS_EmptySet DEF ServerInit
  <2>2. active_clients_count = Cardinality({i \in Slots : clients[i].is_active})
    BY <1>3, <2>1
  <2>3. active_clients_count \in 0..MAX_CLIENTS
    BY <2>1, ServerAssumption
  <2> QED BY <1>2, <2>2, <2>3 DEF SlotIntegrity
<1>5. open \subseteq Sockets /\ conn \in [Users -> Seats] /\ ui \in [Users -> UIState]
  BY InitialUIType DEF ServerInit, Seats
<1>6. /\ DOMAIN todo = Sockets /\ DOMAIN inbox = Sockets
      /\ \A s \in Sockets : todo[s] = <<>> /\ inbox[s] = <<>>
  BY DEF ServerInit
<1>7. <<>> \in Seq(ToSet(<<>>)) /\ ToSet(<<>>) = {}
  BY ShortPrograms
<1>8. Programs /\ Inboxes
  BY <1>6, <1>7, Zenon DEF Programs, ProgramOK, Inboxes, InboxOK
<1> QED BY <1>1, <1>2, <1>4, <1>5, <1>8 DEF SInv, ServerTypeOK, IInv

-----------------------------------------------------------------------------
(* Only threads on their way in or out have no row. *)

\* A step a thread without a row may have left to do.
Outdoor(e) == e.op \in {"add_client", "close", "send", "leave_game", "scan", "broadcast", "collect"}
OutdoorProgram(p) == p \in Seq(ToSet(p)) /\ \A e \in ToSet(p) : Outdoor(e)

\* The program of such a thread: it has still to add itself, or to close.
Leaves(p) == (\A e \in ToSet(p) : Outdoor(e)) /\ \E e \in ToSet(p) : Outside(e)

RowlessLeave == \A s \in open : RowsOf(s) = {} => Leaves(todo[s])

(* Such programs of no step and of one. *)
LEMMA ShortOutdoor ==
  OutdoorProgram(<<>>) /\ \A a : Outdoor(a) => OutdoorProgram(<<a>>)
<1>1. OutdoorProgram(<<>>)
  BY ShortPrograms DEF OutdoorProgram
<1>2. ASSUME NEW a, Outdoor(a) PROVE OutdoorProgram(<<a>>)
  <2>1. <<a>> \in Seq(ToSet(<<a>>)) /\ ToSet(<<a>>) = {a}
    BY ShortPrograms
  <2> QED BY <1>2, <2>1, Zenon DEF OutdoorProgram
<1> QED BY <1>1, <1>2, Zenon

(* Steps that may be taken without a row are followed by such steps. *)
LEMMA OutdoorStep ==
  ASSUME SInv, NEW s \in Sockets, Serving(s), Outdoor(Current(s))
  PROVE  ~Outside(Current(s)) /\ \E p : OutdoorProgram(p) /\ Then(s, p)
<1>1. \/ send_message(s) \/ broadcast_list(s) \/ broadcast_collect(s) \/ leave_game(s) \/ scan(s)
  <2>1. \/ Runs(s, "set_playing") \/ Runs(s, "check_playing") \/ Runs(s, "list_games")
        \/ Runs(s, "create_game") \/ Runs(s, "check_owner") \/ Runs(s, "join_game")
        \/ Runs(s, "notify_owner") \/ Runs(s, "get_waiting") \/ Runs(s, "join_decision")
        \/ Runs(s, "start_players") \/ Runs(s, "start_state") \/ Runs(s, "set_players")
        \/ Runs(s, "move") \/ Runs(s, "move_players") \/ Runs(s, "move_state")
        \/ Runs(s, "post_game") \/ Runs(s, "post_state") \/ Runs(s, "post_players")
        \/ Runs(s, "restart_state") \/ Runs(s, "read_target")
        => ~Outdoor(Current(s))
    BY DEF Runs, Outdoor
  <2>2. \/ client_set_playing(s) \/ client_is_playing(s) \/ handle_list_game(s)
        \/ create_game(s) \/ check_owner(s) \/ join_game(s) \/ notify_owner(s)
        \/ get_waiting(s) \/ join_decision(s) \/ start_players(s) \/ start_state(s)
        \/ set_players(s) \/ move(s) \/ move_players(s) \/ move_state(s)
        \/ post_game(s) \/ post_state(s) \/ post_players(s) \/ restart_state(s)
        \/ read_target(s)
        => ~Outdoor(Current(s))
    BY <2>1, Zenon
       DEF client_set_playing, client_is_playing, handle_list_game, create_game, check_owner,
           join_game, notify_owner, get_waiting, join_decision, start_players, start_state,
           set_players, move, move_players, move_state, post_game, post_state, post_players,
           restart_state, read_target
  <2> QED BY <2>2, Zenon DEF Serving
<1>2. ~Outside(Current(s))
  <2>1. \/ Runs(s, "send") \/ Runs(s, "broadcast") \/ Runs(s, "collect") \/ Runs(s, "leave_game")
        \/ Runs(s, "scan")
    BY <1>1, Zenon DEF send_message, broadcast_list, broadcast_collect, leave_game, scan
  <2> QED BY <2>1 DEF Runs, Outside
<1>3. OutdoorProgram(<<>>) /\ \A a : Outdoor(a) => OutdoorProgram(<<a>>)
  BY ShortOutdoor, Zenon
<1>4. CASE send_message(s) \/ leave_game(s)
  BY <1>2, <1>3, <1>4, Zenon DEF send_message, leave_game
<1>5. CASE broadcast_list(s)
  <2> DEFINE e == [op |-> "collect", games |-> OpenGames]
  <2>1. Outdoor(e)
    BY DEF Outdoor
  <2>2. Then(s, <<e>>)
    BY <1>5 DEF broadcast_list
  <2> HIDE DEF e
  <2> QED BY <1>2, <1>3, <2>1, <2>2, Zenon
<1>6. CASE broadcast_collect(s)
  <2> DEFINE idle == {i \in Slots : clients[i].is_active /\ ~clients[i].is_playing}
             n == Cardinality(idle)
             e(k) == Send(clients[InOrder(idle)[k]].socket, LobbyMsg(Current(s).games))
             p == [k \in 1..n |-> e(k)]
             T == {e(k) : k \in 1..n}
  <2>1. Then(s, p)
    BY <1>6 DEF broadcast_collect, Each
  <2>2. n \in Nat
    <3>1. IsFiniteSet(Slots)
      BY ServerAssumption, FS_Interval DEF Slots
    <3> QED BY <3>1, FS_Subset, FS_CardinalityType
  <2>3. \A x \in T : Outdoor(x)
    <3>1. \A to, m : Outdoor(Send(to, m))
      BY DEF Outdoor, Send
    <3> QED BY <3>1, Zenon
  <2>4. p \in Seq(T)
    <3> HIDE DEF n, e
    <3> QED BY <2>2
  <2> HIDE DEF p, T
  <2>5. p \in Seq(ToSet(p)) /\ ToSet(p) \subseteq T
    BY <2>4, OverItsElements
  <2> QED BY <1>2, <2>1, <2>3, <2>5, Zenon DEF OutdoorProgram
<1>7. CASE scan(s)
  <2> DEFINE mine == {id \in DOMAIN games : games[id].player_x_socket = s /\ id # Current(s).spared}
             p == Each(LeaveGame, mine)
  <2>1. Then(s, p)
    BY <1>7 DEF scan
  <2>2. IsFiniteSet(mine)
    <3>1. IsFiniteSet(GameIds)
      BY MaxGamesAssumption, FS_Interval DEF GameIds
    <3>2. mine \subseteq GameIds
      BY ListedIds
    <3> QED BY <3>1, <3>2, FS_Subset
  <2>3. p \in Seq(ToSet(p)) /\ \A e \in ToSet(p) : e.op = "leave_game"
    <3> HIDE DEF mine
    <3> QED BY <2>2, EachLeave
  <2>4. \A e : e.op = "leave_game" => Outdoor(e)
    BY DEF Outdoor
  <2> HIDE DEF p
  <2> QED BY <1>2, <2>1, <2>3, <2>4, Zenon DEF OutdoorProgram
<1> QED BY <1>1, <1>4, <1>5, <1>6, <1>7

(* A thread on its way out stays on it. *)
LEMMA ServingLeaves ==
  ASSUME SInv, NEW s \in Sockets, Serving(s), Leaves(todo[s])
  PROVE  Leaves(todo'[s])
<1>1. todo[s] \in Seq(ToSet(todo[s])) /\ todo[s] # <<>> /\ DOMAIN todo = Sockets
  BY ServingFrame, Zenon DEF SInv, Programs, ProgramOK
<1> DEFINE r == Tail(todo[s])
<1>2. /\ ToSet(todo[s]) = {Current(s)} \cup ToSet(r)
      /\ r \in Seq(ToSet(r))
  BY <1>1, HeadAndTail, TailSteps, Zenon DEF Current
<1>3. PICK p : ~Outside(Current(s)) /\ OutdoorProgram(p) /\ Then(s, p)
  <2>1. Outdoor(Current(s))
    BY <1>2 DEF Leaves
  <2> QED BY <2>1, OutdoorStep, Zenon
<1>4. todo'[s] = p \o r
  BY <1>1, <1>3 DEF Then
<1> HIDE DEF r
<1>5. ToSet(p \o r) = ToSet(p) \cup ToSet(r)
  BY <1>2, <1>3, CatStepsExactly, Zenon DEF OutdoorProgram
<1>6. Leaves(p \o r)
  BY <1>2, <1>3, <1>5 DEF Leaves, OutdoorProgram
<1> QED BY <1>4, <1>6

(* What concerns one thread only: the others keep their rows and programs. *)
LEMMA OneThreadLeaves ==
  ASSUME SInv, RowlessLeave, NEW s \in Sockets, NEW p, Return(s, p),
         open' \subseteq open \cup {s},
         \A t \in Sockets \ {s} : RowsOf(t)' = RowsOf(t),
         RowsOf(s)' = {} /\ s \in open' => Leaves(p)
  PROVE  RowlessLeave'
<1>1. DOMAIN todo = Sockets /\ open \subseteq Sockets
  BY Zenon DEF SInv, Programs, ServerTypeOK
<1>2. DOMAIN todo' = Sockets /\ \A t \in Sockets : todo'[t] = IF t = s THEN p ELSE todo[t]
  BY <1>1 DEF Return
<1>3. ASSUME NEW t \in open', RowsOf(t)' = {} PROVE Leaves(todo'[t])
  <2>1. CASE t = s
    BY <1>2, <1>3, <2>1, Zenon
  <2>2. CASE t # s
    <3>1. t \in Sockets /\ t \in open /\ RowsOf(t)' = RowsOf(t) /\ todo'[t] = todo[t]
      BY <1>1, <1>2, <2>2
    <3> QED BY <1>3, <3>1, Zenon DEF RowlessLeave
  <2> QED BY <2>1, <2>2
<1> QED BY <1>3, Zenon DEF RowlessLeave

(* A connection begins with a thread that has still to add itself. *)
LEMMA ConnectLeaves ==
  ASSUME SInv, RowlessLeave, NEW u \in Users, Connect(u)
  PROVE  RowlessLeave'
<1>1. PICK s : s = Min(Sockets \ open)
  OBVIOUS
<1>2. s \in Sockets
  <2>1. Sockets \ open # {} /\ Sockets \ open \subseteq Nat
    BY ServerAssumption DEF SInv, ServerTypeOK, Connect
  <2> QED BY <1>1, <2>1, MinIsMember
<1>3. open' = open \cup {s} /\ Return(s, <<Do("add_client")>>) /\ UNCHANGED clients
  BY <1>1, Zenon DEF Connect, rows
<1>4. \A t : RowsOf(t)' = RowsOf(t)
  BY <1>3, UntouchedRows, SameRowsOf
<1>5. Leaves(<<Do("add_client")>>)
  <2>1. Outdoor(Do("add_client")) /\ Outside(Do("add_client"))
    BY DEF Outdoor, Outside, Do
  <2>2. ToSet(<<Do("add_client")>>) = {Do("add_client")}
    BY ShortPrograms
  <2> QED BY <2>1, <2>2, Zenon DEF Leaves
<1> QED BY <1>2, <1>3, <1>4, <1>5, OneThreadLeaves, Zenon

(* add_client gives the caller a row, or sends it away. *)
LEMMA AddClientLeaves ==
  ASSUME SInv, RowlessLeave, NEW s \in Sockets, add_client(s)
  PROVE  RowlessLeave'
<1> DEFINE free == {i \in Slots : ~clients[i].is_active}
           r == [EmptyRow EXCEPT !.socket = s, !.is_active = TRUE]
<1>1. UNCHANGED open /\ clients \in [Slots -> Client]
  BY Zenon DEF add_client, wire, SInv, ServerTypeOK
<1>2. CASE UNCHANGED rows /\ Return(s, <<Send(s, ErrorMsg), Do("close")>>)
  <2>1. \A t : RowsOf(t)' = RowsOf(t)
    BY <1>2, UntouchedRows, SameRowsOf DEF rows
  <2>2. Leaves(<<Send(s, ErrorMsg), Do("close")>>)
    <3> DEFINE a == Send(s, ErrorMsg)
               b == Do("close")
    <3>1. Outdoor(a) /\ Outdoor(b) /\ Outside(b)
      BY DEF Outdoor, Outside, Send, Do
    <3>2. ToSet(<<a, b>>) = {a, b}
      BY ShortPrograms
    <3> HIDE DEF a, b
    <3>3. Leaves(<<a, b>>)
      BY <3>1, <3>2, Zenon DEF Leaves
    <3> QED BY <3>3 DEF a, b
  <2> QED BY <1>1, <1>2, <2>1, <2>2, OneThreadLeaves, Zenon
<1>3. CASE /\ free # {} /\ Return(s, <<>>)
           /\ clients' = [clients EXCEPT ![Min(free)] = r]
  <2>1. PICK k : k = Min(free)
    OBVIOUS
  <2>2. k \in Slots /\ ~clients[k].is_active
    <3>1. free \subseteq Nat
      BY ServerAssumption DEF Slots
    <3>2. k \in free
      BY <1>3, <2>1, <3>1, MinIsMember
    <3> QED BY <3>2
  <2>3. r.is_active /\ r.socket = s
    BY DEF EmptyRow
  <2> HIDE DEF r
  <2>4. clients'[k] = r /\ \A i \in Slots \ {k} : clients'[i] = clients[i]
    BY <1>1, <1>3, <2>1, <2>2
  <2>5. \A t \in Sockets \ {s} : RowsOf(t)' = RowsOf(t)
    BY <2>2, <2>3, <2>4 DEF RowsOf
  <2>6. RowsOf(s)' # {}
    BY <2>2, <2>3, <2>4 DEF RowsOf, Slots
  <2> QED BY <1>1, <1>3, <2>5, <2>6, OneThreadLeaves, Zenon
<1> QED BY <1>2, <1>3, Zenon DEF add_client

(* remove_client frees the row and leaves close to be done. *)
LEMMA RemoveClientLeaves ==
  ASSUME SInv, RowlessLeave, NEW s \in Sockets, remove_client(s)
  PROVE  RowlessLeave'
<1> DEFINE lead == IF GameIdOf(s) # NoGame THEN <<LeaveGame(GameIdOf(s))>> ELSE <<>>
           rest == <<Scan(0), Broadcast, Do("close")>>
<1>1. Return(s, lead \o rest) /\ UNCHANGED open
  BY Zenon DEF remove_client, wire
<1>2. \A t \in Sockets \ {s} : RowsOf(t)' = RowsOf(t)
  BY RemoveClientRows, Zenon
<1>3. Leaves(lead \o rest)
  <2>1. OutdoorProgram(lead)
    <3>1. Outdoor(LeaveGame(GameIdOf(s)))
      BY DEF Outdoor, LeaveGame
    <3> QED BY <3>1, ShortOutdoor, Zenon
  <2>2. Outdoor(Scan(0)) /\ Outdoor(Broadcast) /\ Outdoor(Do("close")) /\ Outside(Do("close"))
    BY DEF Outdoor, Outside, Scan, Broadcast, Do
  <2>3. rest \in Seq(ToSet(rest)) /\ ToSet(rest) = {Scan(0), Broadcast, Do("close")}
    BY ShortPrograms
  <2> HIDE DEF lead, rest
  <2>4. ToSet(lead \o rest) = ToSet(lead) \cup ToSet(rest)
    BY <2>1, <2>3, CatStepsExactly, Zenon DEF OutdoorProgram
  <2> QED BY <2>1, <2>2, <2>3, <2>4, Zenon DEF Leaves, OutdoorProgram
<1> QED BY <1>1, <1>2, <1>3, OneThreadLeaves, Zenon

(* Only a thread with a row receives, and serving keeps a thread where it is. *)
LEMMA RowlessLeaveStep == SInv /\ RowlessLeave /\ [ServerNext]_svars => RowlessLeave'
<1> SUFFICES ASSUME SInv, RowlessLeave, [ServerNext]_svars PROVE RowlessLeave'
  OBVIOUS
<1>1. CASE UNCHANGED <<clients, open, todo>>
  <2>1. \A t : RowsOf(t)' = RowsOf(t)
    BY <1>1, UntouchedRows, SameRowsOf
  <2> QED BY <1>1, <2>1, Zenon DEF RowlessLeave
<1>2. ASSUME NEW u \in Users, Disconnect(u) \/ PressKey(u) PROVE RowlessLeave'
  <2>1. UNCHANGED <<clients, open, todo>>
    BY <1>2 DEF Disconnect, PressKey, rows
  <2> QED BY <1>1, <2>1
<1>3. ASSUME NEW s \in Sockets, Receive(s) PROVE RowlessLeave'
  <2>1. /\ s \in open /\ todo[s] = <<>> /\ UNCHANGED <<clients, open>>
        /\ Return(s, handle_message(Head(inbox[s])))
    BY <1>3, Zenon DEF Receive, rows
  <2>2. \A t : RowsOf(t)' = RowsOf(t)
    BY <2>1, UntouchedRows, SameRowsOf
  <2>3. RowsOf(s) # {}
    <3>1. ~Leaves(<<>>)
      BY ShortPrograms, Zenon DEF Leaves
    <3> QED BY <2>1, <3>1, Zenon DEF RowlessLeave
  <2> QED BY <2>1, <2>2, <2>3, OneThreadLeaves, Zenon
<1>4. ASSUME NEW s \in Sockets, close(s) PROVE RowlessLeave'
  <2>1. open' = open \ {s} /\ Return(s, <<>>) /\ UNCHANGED clients
    BY <1>4, Zenon DEF close, rows
  <2>2. \A t : RowsOf(t)' = RowsOf(t)
    BY <2>1, UntouchedRows, SameRowsOf
  <2>3. s \notin open' /\ open' \subseteq open \cup {s}
    BY <2>1
  <2> QED BY <2>1, <2>2, <2>3, OneThreadLeaves, Zenon
<1>5. ASSUME NEW s \in Sockets, Serving(s) PROVE RowlessLeave'
  <2>1. UNCHANGED open /\ s \in open
    BY <1>5, ServingFrame, Zenon
  <2>2. \A t : RowsOf(t)' = RowsOf(t)
    BY <1>5, ServingKeepsRows, SameRowsOf, Zenon
  <2>3. DOMAIN todo = Sockets /\ \E q : Return(s, q)
    <3>1. DOMAIN todo = Sockets
      BY DEF SInv, Programs
    <3> QED BY <1>5, <3>1, ServingProceeds, Zenon DEF Proceeds, Then, Return
  <2>4. PICK q : Return(s, q)
    BY <2>3
  <2>5. todo'[s] = q
    BY <2>3, <2>4 DEF Return
  <2>6. RowsOf(s)' = {} => Leaves(q)
    BY <1>5, <2>1, <2>2, <2>5, ServingLeaves, Zenon DEF RowlessLeave
  <2> QED BY <2>1, <2>2, <2>4, <2>6, OneThreadLeaves, Zenon
<1>6. CASE UNCHANGED svars
  <2>1. UNCHANGED <<clients, open, todo>>
    BY <1>6 DEF svars
  <2> QED BY <1>1, <2>1
<1>7. CASE ServerNext
  <2>1. \/ \E u \in Users : Connect(u) \/ Disconnect(u) \/ PressKey(u)
        \/ \E s \in Sockets : Receive(s) \/ add_client(s) \/ remove_client(s) \/ close(s)
                              \/ Serving(s)
    BY <1>7, Zenon DEF ServerNext, Thread, Serving
  <2> QED BY <2>1, <1>2, <1>3, <1>4, <1>5, ConnectLeaves, AddClientLeaves, RemoveClientLeaves,
             Zenon
<1> QED BY <1>6, <1>7

-----------------------------------------------------------------------------
(* What holds of the server. *)

(* The invariant holds in every reachable state of the server, whatever the *)
(* users do and in whatever order the threads run.                          *)
THEOREM ServerInvariance == ServerSpec => []SInv
  BY SInvInitial, SInvInductive, PTL DEF ServerSpec

(* The rows, the counter of rows in use, the connections and what every     *)
(* client shows are well typed: no handler stores a game id, a role or a    *)
(* board that is none, whatever was overtaken between two of its steps.     *)
THEOREM ServerTypeCorrect == ServerSpec => []ServerTypeOK
<1>1. SInv => ServerTypeOK
  BY DEF SInv
<1> QED BY <1>1, ServerInvariance, PTL

(* The counter of add_client and remove_client (server.c:25-58) is the      *)
(* number of rows in use, every such row belongs to an open connection and  *)
(* no two to the same, although descriptors are reused: a thread that has   *)
(* still to add itself, or has only close left to do, has no row.           *)
THEOREM SlotIntegrityProved == ServerSpec => []SlotIntegrity
<1>1. SInv => SlotIntegrity
  BY DEF SInv
<1> QED BY <1>1, ServerInvariance, PTL

(* handle_client (server.c:134-190): a connection has a row exactly from    *)
(* add_client to remove_client.  The full table's refusal ends in close and *)
(* no request of the refused is served; nobody closes with a row left.      *)
THEOREM ServedHaveRowProved == ServerSpec => []ServedHaveRow
<1>1. ServerInit => RowlessLeave
  BY DEF ServerInit, RowlessLeave
<1>2. SInv /\ RowlessLeave => ServedHaveRow
  <2> SUFFICES ASSUME SInv, RowlessLeave, NEW s \in open
               PROVE  (RowsOf(s) = {}) <=> \E e \in ToSet(todo[s]) : Outside(e)
    BY Zenon DEF ServedHaveRow, Outside
  <2>1. \A e \in ToSet(todo[s]) : Outside(e) => RowsOf(s) = {}
    BY DEF SInv, ServerTypeOK, Programs, ProgramOK
  <2> QED BY <2>1, Zenon DEF RowlessLeave, Leaves
<1> QED BY <1>1, <1>2, RowlessLeaveStep, ServerInvariance, PTL DEF ServerSpec

(* The server implements the game manager's specification: however the      *)
(* steps of the handlers interleave, the games change by one operation of   *)
(* the manager at a time, called with values of the right types.            *)
THEOREM ServerImplementsManager == ServerSpec => Spec
<1>1. ServerInit => Init
  BY DEF ServerInit
<1> QED BY <1>1, ServerStepIsManagerStep, ServerInvariance, PTL DEF ServerSpec, Spec

(* Hence what is proved of the manager alone holds in the server: a pending *)
(* joiner finds the O seat free, turn and results are those of the board,   *)
(* and an orphaned game stays open.                                         *)
THEOREM ServerGamesSound ==
  ServerSpec => [](PendingJoinIsOpen /\ TurnMatchesBoard /\ OutcomeMatchesBoard /\ OrphanIsOpen)
  BY ServerImplementsManager, JoinSafety, TurnSafety, OutcomeSafety, OrphanSafety, PTL

(* And so do its action properties: boards change by legal moves, seats are *)
(* filled in order, winners continue as owners and ids are not reused.      *)
THEOREM ServerGameSteps ==
  ServerSpec => BoardStep /\ SeatStep /\ WinnerContinues /\ IdsNeverReused
  BY ServerImplementsManager, BoardStepProved, SeatStepProved, WinnerContinuesProved,
     IdsNeverReusedProved, PTL
=============================================================================
