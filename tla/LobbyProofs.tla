---------------------------- MODULE LobbyProofs ----------------------------
(***************************************************************************)
(* Proofs about Server when users create, list, join and leave games and   *)
(* quit, but no join is decided on: what the run server_leave checks, for  *)
(* every number of users, descriptors, rows, games and departures.         *)
(***************************************************************************)
EXTENDS ServerProofs

LobbyRequests == {"MSG_CREATE_GAME", "MSG_LIST_GAMES", "MSG_JOIN_GAME", "MSG_LEAVE_GAME"}

-----------------------------------------------------------------------------
(* The inductive invariant: where the program of a thread is says what of   *)
(* its game is still to be recorded in its row, or to be left.              *)

\* The games whose owner is on descriptor s.
Own(s) == {id \in DOMAIN games : games[id].player_x_socket = s}

\* The row of s says that it plays the game it owns.
Covered(s) == \A id \in Own(s) : GameIdOf(s) = id /\ Playing(s)

AllIn(p, ops) == \A e \in ToSet(p) : e.op \in ops

\* A program without a step that creates or leaves a game or marks a row, or one of
\* three that begin by looking the row up.
CalmOps == {"list_games", "check_playing", "check_owner", "join_game", "notify_owner", "send",
            "broadcast", "collect"}
Calm(p) == \/ AllIn(p, CalmOps)
           \/ p = <<Do("check_playing"), Do("create_game")>>
           \/ p = <<Do("read_target")>>
           \/ p = <<Do("remove_client")>>

\* The program of a thread without a row, new or with its games behind it.
AwayOps == {"add_client", "scan", "broadcast", "collect", "send", "close"}
Away(p) == AllIn(p, AwayOps) /\ \E e \in ToSet(p) : Outside(e)

\* What is left to do after a row is freed, a game created, and a request to leave read.
Parting(id) == <<LeaveGame(id), Scan(0), Broadcast, Do("close")>>
MarkTwice(s, id) == <<SetPlaying(s, TRUE, id), SetPlaying(s, TRUE, id), Send(s, WaitingMsg(id)),
                      Broadcast>>
MarkOnce(s, id) == <<SetPlaying(s, TRUE, id), Send(s, WaitingMsg(id)), Broadcast>>
LeaveFirst(s, id) == <<LeaveGame(id), Scan(0), SetPlaying(s, FALSE, 0), Broadcast>>
ScanFirst(s) == <<Scan(0), SetPlaying(s, FALSE, 0), Broadcast>>
Unmark(s) == <<SetPlaying(s, FALSE, 0), Broadcast>>

\* Program p accounts for the games own of thread s, given whether s has a row that covers them.
Fits(s, p, row, own, covered) ==
  \/ ~row /\ Away(p) /\ own = {}
  \/ ~row /\ \E id \in GameIds : p = Parting(id) /\ own \subseteq {id}
  \/ row /\ Calm(p) /\ covered
  \/ row /\ p = <<Do("create_game")>> /\ own = {}
  \/ row /\ \E id \in GameIds : p = MarkTwice(s, id) /\ own = {id}
  \/ row /\ \E id \in GameIds : p = MarkOnce(s, id) /\ own = {id} /\ covered
  \/ row /\ \E id \in GameIds \cup {0} : p = LeaveFirst(s, id) /\ own \subseteq {id}
  \/ row /\ p = ScanFirst(s) /\ own = {}
  \/ row /\ p = Unmark(s) /\ own = {}

Account(s) == IF s \in open THEN Fits(s, todo[s], RowsOf(s) # {}, Own(s), Covered(s))
                            ELSE Own(s) = {}

NoOpponent == \A id \in DOMAIN games : games[id].player_o_socket = NoSocket
LobbyInboxes == \A s \in Sockets : \A m \in ToSet(inbox[s]) : m.type \in LobbyRequests \cup {"EOF"}

LInv == /\ SInv /\ Requests \subseteq LobbyRequests
        /\ NoOpponent /\ LobbyInboxes
        /\ \A s \in Sockets : Account(s)

-----------------------------------------------------------------------------
(* Programs. *)

(* Nothing before or after a program. *)
LEMMA CatNothing ==
  ASSUME NEW p, p \in Seq(ToSet(p))
  PROVE  <<>> \o p = p /\ p \o <<>> = p
<1> DEFINE S == ToSet(p)
<1>1. p \in Seq(S)
  OBVIOUS
<1> HIDE DEF S
<1> QED BY <1>1

(* How the programs that are written out begin. *)
LEMMA FirstSteps ==
  /\ \A a : <<a>>[1] = a
  /\ \A a, b : <<a, b>>[1] = a
  /\ \A a, b, c : <<a, b, c>>[1] = a
  /\ \A a, b, c, d : <<a, b, c, d>>[1] = a
  /\ \A a : <<a>> # <<>>
  /\ \A a, b : <<a, b>> # <<>>
  /\ \A a, b, c : <<a, b, c>> # <<>>
  /\ \A a, b, c, d : <<a, b, c, d>> # <<>>
OBVIOUS

(* How they go on. *)
LEMMA LaterSteps ==
  /\ \A a : Tail(<<a>>) = <<>>
  /\ \A a, b : Tail(<<a, b>>) = <<b>>
  /\ \A a, b, c : Tail(<<a, b, c>>) = <<b, c>>
  /\ \A a, b, c, d : Tail(<<a, b, c, d>>) = <<b, c, d>>
OBVIOUS

(* One step before three. *)
LEMMA OneMore ==
  ASSUME NEW a, NEW b, NEW c, NEW d
  PROVE  <<a>> \o <<b, c, d>> = <<a, b, c, d>>
<1> DEFINE S == {a, b, c, d}
           r == <<a>> \o <<b, c, d>>
<1>1. <<a>> \in Seq(S) /\ <<b, c, d>> \in Seq(S) /\ <<a, b, c, d>> \in Seq(S)
  OBVIOUS
<1>2. /\ Len(<<a>>) = 1 /\ Len(<<b, c, d>>) = 3 /\ Len(<<a, b, c, d>>) = 4
  OBVIOUS
<1>3. r \in Seq(S) /\ Len(r) = 4
  <2> HIDE DEF S
  <2> QED BY <1>1, <1>2
<1>4. r[1] = a /\ r[2] = b /\ r[3] = c /\ r[4] = d
  <2> HIDE DEF S
  <2> QED BY <1>1, <1>2
<1> HIDE DEF r, S
<1>5. \A k \in 1..4 : r[k] = <<a, b, c, d>>[k]
  BY <1>4
<1>6. r = <<a, b, c, d>>
  BY <1>1, <1>2, <1>3, <1>5
<1> QED BY <1>6 DEF r

\* Where a thread is in its program, by its next step.
At(s, p, row, own, covered) ==
  \/ p[1].op \in AwayOps /\ ~row /\ Away(p) /\ own = {}
  \/ /\ p[1].op = "leave_game" /\ ~row
     /\ \E id \in GameIds : p = Parting(id) /\ own \subseteq {id}
  \/ p[1].op \in CalmOps /\ row /\ AllIn(p, CalmOps) /\ covered
  \/ /\ p[1].op = "check_playing" /\ row /\ covered
     /\ p = <<Do("check_playing"), Do("create_game")>>
  \/ p[1].op = "read_target" /\ row /\ covered /\ p = <<Do("read_target")>>
  \/ p[1].op = "remove_client" /\ row /\ covered /\ p = <<Do("remove_client")>>
  \/ p[1].op = "create_game" /\ row /\ p = <<Do("create_game")>> /\ own = {}
  \/ /\ p[1].op = "set_playing" /\ row
     /\ \E id \in GameIds : p = MarkTwice(s, id) /\ own = {id}
  \/ /\ p[1].op = "set_playing" /\ row /\ covered
     /\ \E id \in GameIds : p = MarkOnce(s, id) /\ own = {id}
  \/ /\ p[1].op = "leave_game" /\ row
     /\ \E id \in GameIds \cup {0} : p = LeaveFirst(s, id) /\ own \subseteq {id}
  \/ p[1].op = "scan" /\ row /\ p = ScanFirst(s) /\ own = {}
  \/ p[1].op = "set_playing" /\ row /\ p = Unmark(s) /\ own = {}

(* A program that fits is at one of these places. *)
LEMMA Position ==
  ASSUME NEW s, NEW p, NEW row, NEW own, NEW covered,
         p \in Seq(ToSet(p)), p # <<>>, Fits(s, p, row, own, covered)
  PROVE  At(s, p, row, own, covered)
<1>1. p[1] \in ToSet(p)
  BY TailSteps, Zenon
<1>2. /\ <<Do("check_playing"), Do("create_game")>>[1].op = "check_playing"
      /\ <<Do("read_target")>>[1].op = "read_target"
      /\ <<Do("remove_client")>>[1].op = "remove_client"
      /\ <<Do("create_game")>>[1].op = "create_game"
  BY DEF Do
<1>3. /\ \A id : Parting(id)[1].op = "leave_game" /\ LeaveFirst(s, id)[1].op = "leave_game"
      /\ \A id : MarkTwice(s, id)[1].op = "set_playing" /\ MarkOnce(s, id)[1].op = "set_playing"
      /\ ScanFirst(s)[1].op = "scan" /\ Unmark(s)[1].op = "set_playing"
  BY DEF Parting, LeaveFirst, MarkTwice, MarkOnce, ScanFirst, Unmark, LeaveGame, SetPlaying, Scan
<1> QED BY <1>1, <1>2, <1>3, ZenonT(60) DEF Fits, Calm, Away, AllIn, At

\* Steps that neither mark a row nor create or leave a game, whatever comes before them.
PlainSteps == {"send", "list_games", "broadcast", "collect", "check_owner", "join_game",
               "notify_owner"}

(* After such a step a thread goes on with other such steps, or fails.      *)
LEMMA PlainGoesOn ==
  ASSUME NEW s, NEW p, NEW row, NEW own, NEW covered,
         p \in Seq(ToSet(p)), p # <<>>, Fits(s, p, row, own, covered),
         p[1].op \in PlainSteps,
         NEW q, q \in Seq(ToSet(q)), AllIn(q, CalmOps),
         p[1].op \in AwayOps => AllIn(q, AwayOps)
  PROVE  /\ Fits(s, q \o Tail(p), row, own, covered)
         /\ p[1].op \notin AwayOps => Fits(s, q, row, own, covered)
<1> DEFINE r == q \o Tail(p)
<1>1. \/ p[1].op \in AwayOps /\ ~row /\ Away(p) /\ own = {}
      \/ row /\ AllIn(p, CalmOps) /\ covered
  BY Position, Zenon DEF PlainSteps, At
<1>2. ToSet(r) = ToSet(q) \cup ToSet(Tail(p))
  <2>1. Tail(p) \in Seq(ToSet(Tail(p)))
    BY TailSteps, Zenon
  <2> QED BY <2>1, CatStepsExactly, Zenon
<1>3. ToSet(p) = {p[1]} \cup ToSet(Tail(p))
  BY HeadAndTail, Zenon
<1> HIDE DEF r
<1>4. CASE p[1].op \in AwayOps /\ ~row /\ Away(p) /\ own = {}
  <2>1. AllIn(r, AwayOps)
    BY <1>2, <1>3, <1>4 DEF AllIn, Away
  <2>2. ~Outside(p[1])
    BY DEF Outside, PlainSteps
  <2>3. \E e \in ToSet(r) : Outside(e)
    BY <1>2, <1>3, <1>4, <2>2, Zenon DEF Away
  <2> QED BY <1>4, <2>1, <2>3, Zenon DEF Fits, Away, r
<1>5. CASE row /\ AllIn(p, CalmOps) /\ covered
  <2>1. AllIn(r, CalmOps)
    BY <1>2, <1>3, <1>5 DEF AllIn
  <2> QED BY <1>5, <2>1, Zenon DEF Fits, Calm, r
<1> QED BY <1>1, <1>4, <1>5, Zenon

-----------------------------------------------------------------------------
(* What a step of one thread leaves to the others. *)

\* Neither the games of t nor what its row says of them changes.
Undisturbed(t) == /\ Own(t)' = Own(t) /\ RowsOf(t)' = RowsOf(t)
                  /\ \A i \in RowsOf(t) : clients'[i] = clients[i]

(* What covers the games of t is its games and its row. *)
LEMMA UndisturbedCovered ==
  ASSUME SInv, NEW t, Undisturbed(t)
  PROVE  Covered(t)' = Covered(t)
<1>1. GameIdOf(t)' = GameIdOf(t)
  <2>1. CASE RowsOf(t) = {}
    BY <2>1 DEF GameIdOf, Undisturbed
  <2>2. CASE RowsOf(t) # {}
    <3>1. Min(RowsOf(t)) \in RowsOf(t)
      <4>1. RowsOf(t) \subseteq Nat
        BY ServerAssumption DEF RowsOf, Slots
      <4> QED BY <2>2, <4>1, MinIsMember
    <3> QED BY <2>2, <3>1, Zenon DEF GameIdOf, Undisturbed
  <2> QED BY <2>1, <2>2
<1>2. Playing(t)' = Playing(t)
  BY DEF Playing, Undisturbed
<1> QED BY <1>1, <1>2 DEF Covered, Undisturbed

(* A thread that is not disturbed and does nothing stays accounted for. *)
LEMMA Elsewhere ==
  ASSUME SInv, NEW t, Account(t), Undisturbed(t),
         (t \in open') = (t \in open), todo'[t] = todo[t]
  PROVE  Account(t)'
<1>1. Covered(t)' = Covered(t)
  BY UndisturbedCovered
<1>2. Own(t)' = Own(t) /\ RowsOf(t)' = RowsOf(t)
  BY Zenon DEF Undisturbed
<1> QED BY <1>1, <1>2 DEF Account

(* Without a change of the games or the table nobody is disturbed. *)
LEMMA NothingDisturbed ==
  ASSUME UNCHANGED clients, UNCHANGED games
  PROVE  \A t : Undisturbed(t)
BY DEF Undisturbed, Own, RowsOf

Accounts == \A t \in Sockets : Account(t)

(* What is known of a thread about to take a step. *)
LEMMA AboutTo ==
  ASSUME LInv, NEW s \in Sockets, NEW op, Runs(s, op)
  PROVE  /\ s \in open /\ todo[s] # <<>> /\ todo[s][1].op = op
         /\ todo[s] \in Seq(ToSet(todo[s]))
         /\ Fits(s, todo[s], RowsOf(s) # {}, Own(s), Covered(s))
BY Zenon DEF LInv, SInv, Programs, ProgramOK, Runs, Current, Account

(* A step of thread s that leaves the others alone and leads to a program   *)
(* that fits keeps the accounts.                                            *)
LEMMA StepKeeps ==
  ASSUME LInv, NEW s \in Sockets, NEW q,
         todo' = [todo EXCEPT ![s] = q], s \in open, open' = open,
         \A t \in Sockets \ {s} : Undisturbed(t),
         NEW row, NEW own, NEW covered, Fits(s, q, row, own, covered),
         row = (RowsOf(s)' # {}), own = Own(s)', covered = Covered(s)'
  PROVE  Accounts'
<1>1. DOMAIN todo = Sockets
  BY DEF LInv, SInv, Programs
<1>2. todo'[s] = q /\ \A t \in Sockets \ {s} : todo'[t] = todo[t]
  BY <1>1
<1>3. Account(s)'
  BY <1>2 DEF Account
<1>4. ASSUME NEW t \in Sockets \ {s} PROVE Account(t)'
  BY <1>2, Elsewhere, Zenon DEF LInv
<1> QED BY <1>3, <1>4, Zenon DEF Accounts

(* The same when s is not disturbed either. *)
LEMMA QuietStepKeeps ==
  ASSUME LInv, NEW s \in Sockets, NEW q,
         todo' = [todo EXCEPT ![s] = q], s \in open, open' = open,
         \A t \in Sockets : Undisturbed(t),
         Fits(s, q, RowsOf(s) # {}, Own(s), Covered(s))
  PROVE  Accounts'
<1>1. Covered(s)' = Covered(s)
  BY UndisturbedCovered DEF LInv
<1>2. Own(s)' = Own(s) /\ RowsOf(s)' = RowsOf(s)
  BY Zenon DEF Undisturbed
<1>3. (RowsOf(s) # {}) = (RowsOf(s)' # {})
  BY <1>2
<1> QED BY <1>1, <1>2, <1>3, StepKeeps

\* What a plain step is followed by: steps q before what is left, or instead of it.
PlainStep(s, op) ==
  /\ Runs(s, op) /\ op \in PlainSteps /\ UNCHANGED open
  /\ \E q : /\ q \in Seq(ToSet(q)) /\ AllIn(q, CalmOps) /\ (op \in AwayOps => AllIn(q, AwayOps))
            /\ Then(s, q) \/ (Return(s, q) /\ op \notin AwayOps)
  /\ \A t \in Sockets : Undisturbed(t)

(* Such a step keeps the accounts. *)
LEMMA PlainStepKeeps ==
  ASSUME LInv, NEW s \in Sockets, NEW op, PlainStep(s, op)
  PROVE  Accounts'
<1>1. /\ s \in open /\ todo[s] # <<>> /\ todo[s][1].op = op
      /\ todo[s] \in Seq(ToSet(todo[s]))
      /\ Fits(s, todo[s], RowsOf(s) # {}, Own(s), Covered(s))
  BY AboutTo, Zenon DEF PlainStep
<1>2. PICK q : /\ q \in Seq(ToSet(q)) /\ AllIn(q, CalmOps)
               /\ op \in AwayOps => AllIn(q, AwayOps)
               /\ Then(s, q) \/ (Return(s, q) /\ op \notin AwayOps)
  BY Zenon DEF PlainStep
<1>3. op \in PlainSteps /\ open' = open /\ \A t \in Sockets : Undisturbed(t)
  BY Zenon DEF PlainStep
<1>4. /\ Fits(s, q \o Tail(todo[s]), RowsOf(s) # {}, Own(s), Covered(s))
      /\ op \notin AwayOps => Fits(s, q, RowsOf(s) # {}, Own(s), Covered(s))
  BY <1>1, <1>2, <1>3, PlainGoesOn, Zenon
<1>5. CASE Then(s, q)
  <2>1. todo' = [todo EXCEPT ![s] = q \o Tail(todo[s])]
    BY <1>5 DEF Then
  <2> QED BY <1>1, <1>3, <1>4, <2>1, QuietStepKeeps, Zenon
<1>6. CASE Return(s, q) /\ op \notin AwayOps
  <2>1. todo' = [todo EXCEPT ![s] = q]
    BY <1>6 DEF Return
  <2> QED BY <1>1, <1>3, <1>4, <1>6, <2>1, QuietStepKeeps, Zenon
<1> QED BY <1>2, <1>5, <1>6

(* Short programs of such steps. *)
LEMMA AllInShort ==
  ASSUME NEW ops
  PROVE  /\ AllIn(<<>>, ops)
         /\ \A a : a.op \in ops => AllIn(<<a>>, ops)
         /\ \A a, b : a.op \in ops /\ b.op \in ops => AllIn(<<a, b>>, ops)
BY ShortPrograms DEF AllIn

-----------------------------------------------------------------------------
(* The steps of the lobby. *)

(* A thread that goes on with nothing or one step, or fails. *)
LEMMA PlainCases ==
  ASSUME LInv, NEW s \in Sockets, NEW op \in PlainSteps, Runs(s, op), UNCHANGED open,
         \A t \in Sockets : Undisturbed(t),
         \/ Then(s, <<>>)
         \/ Fail(s) /\ op \notin AwayOps
         \/ \E a : /\ a.op \in CalmOps /\ (op \in AwayOps => a.op \in AwayOps)
                   /\ Then(s, <<a>>)
  PROVE  Accounts'
<1>1. CASE Then(s, <<>>)
  <2>1. <<>> \in Seq(ToSet(<<>>)) /\ AllIn(<<>>, CalmOps) /\ AllIn(<<>>, AwayOps)
    BY ShortPrograms, AllInShort, Zenon
  <2>2. PlainStep(s, op)
    BY <1>1, <2>1, Zenon DEF PlainStep
  <2> QED BY <2>2, PlainStepKeeps, Zenon
<1>2. CASE Fail(s) /\ op \notin AwayOps
  <2> DEFINE a == Send(s, ErrorMsg)
  <2>1. a.op \in CalmOps
    BY DEF Send, CalmOps
  <2>2. Return(s, <<a>>) /\ op \notin AwayOps
    BY <1>2 DEF Fail
  <2> HIDE DEF a
  <2>3. <<a>> \in Seq(ToSet(<<a>>)) /\ AllIn(<<a>>, CalmOps)
    BY <2>1, ShortPrograms, AllInShort, Zenon
  <2>4. PlainStep(s, op)
    BY <2>2, <2>3, Zenon DEF PlainStep
  <2> QED BY <2>4, PlainStepKeeps, Zenon
<1>3. ASSUME NEW a, a.op \in CalmOps, op \in AwayOps => a.op \in AwayOps, Then(s, <<a>>)
      PROVE  Accounts'
  <2>1. /\ <<a>> \in Seq(ToSet(<<a>>)) /\ AllIn(<<a>>, CalmOps)
        /\ op \in AwayOps => AllIn(<<a>>, AwayOps)
    BY <1>3, ShortPrograms, AllInShort, Zenon
  <2>2. PlainStep(s, op)
    BY <1>3, <2>1, Zenon DEF PlainStep
  <2> QED BY <2>2, PlainStepKeeps, Zenon
<1> QED BY <1>1, <1>2, <1>3, Zenon

(* Being queued for a game makes nobody its owner. *)
LEMMA JoinDisturbsNobody ==
  ASSUME LInv, NEW s \in Sockets, join_game(s)
  PROVE  /\ \A t \in Sockets : Undisturbed(t)
         /\ NoOpponent'
<1>1. UNCHANGED clients
  BY DEF join_game, rows
<1>2. CASE UNCHANGED games
  BY <1>1, <1>2, NothingDisturbed DEF LInv, NoOpponent
<1>3. ASSUME NEW id \in DOMAIN games, games' = [games EXCEPT ![id] = Joined(games[id], s)]
      PROVE  (\A t : Own(t)' = Own(t)) /\ NoOpponent'
  <2> DEFINE g == Joined(games[id], s)
  <2>1. games[id] \in Game
    BY DEF LInv, SInv, IInv, TypeOK
  <2>2. /\ g.player_x_socket = games[id].player_x_socket
        /\ g.player_o_socket = games[id].player_o_socket
    BY <2>1 DEF Joined, Game
  <2> HIDE DEF g
  <2>3. DOMAIN games' = DOMAIN games /\ \A k \in DOMAIN games : games'[k] = IF k = id THEN g ELSE games[k]
    BY <1>3 DEF g
  <2> QED BY <2>2, <2>3 DEF Own, NoOpponent, LInv
<1>4. \/ UNCHANGED games
      \/ \E id \in DOMAIN games : games' = [games EXCEPT ![id] = Joined(games[id], s)]
  BY DEF join_game, game_manager_join_game, vars
<1>5. \A t : RowsOf(t)' = RowsOf(t)
  BY <1>1 DEF RowsOf
<1> QED BY <1>1, <1>2, <1>3, <1>4, <1>5, Zenon DEF Undisturbed

(* Listing, announcing and joining games keep the accounts. *)
LEMMA PlainActionsKeep ==
  ASSUME LInv, NEW s \in Sockets,
         \/ send_message(s) \/ handle_list_game(s) \/ broadcast_list(s) \/ broadcast_collect(s)
         \/ check_owner(s) \/ join_game(s) \/ notify_owner(s)
  PROVE  Accounts'
<1>1. /\ UNCHANGED open
      /\ \A t \in Sockets : Undisturbed(t)
  <2>1. UNCHANGED open /\ (join_game(s) \/ UNCHANGED <<games, clients>>)
    BY Zenon DEF send_message, handle_list_game, broadcast_list, broadcast_collect, check_owner,
       join_game, notify_owner, wire, rows, vars
  <2> QED BY <2>1, NothingDisturbed, JoinDisturbsNobody, Zenon
<1>2. CASE send_message(s)
  <2>1. Runs(s, "send") /\ Then(s, <<>>) /\ "send" \in PlainSteps
    BY <1>2 DEF send_message, PlainSteps
  <2> QED BY <1>1, <2>1, PlainCases, Zenon
<1>3. CASE handle_list_game(s)
  <2> DEFINE a == Send(s, LobbyMsg(OpenGames))
  <2>1. Runs(s, "list_games") /\ Then(s, <<a>>) /\ "list_games" \in PlainSteps
    BY <1>3 DEF handle_list_game, PlainSteps
  <2>2. a.op \in CalmOps /\ a.op \in AwayOps
    BY DEF Send, CalmOps, AwayOps
  <2> HIDE DEF a
  <2> QED BY <1>1, <2>1, <2>2, PlainCases, Zenon
<1>4. CASE broadcast_list(s)
  <2> DEFINE a == [op |-> "collect", games |-> OpenGames]
  <2>1. Runs(s, "broadcast") /\ Then(s, <<a>>) /\ "broadcast" \in PlainSteps
    BY <1>4 DEF broadcast_list, PlainSteps
  <2>2. a.op \in CalmOps /\ a.op \in AwayOps
    BY DEF CalmOps, AwayOps
  <2> HIDE DEF a
  <2> QED BY <1>1, <2>1, <2>2, PlainCases, Zenon
<1>5. CASE broadcast_collect(s)
  <2> DEFINE idle == {i \in Slots : clients[i].is_active /\ ~clients[i].is_playing}
             n == Cardinality(idle)
             e(k) == Send(clients[InOrder(idle)[k]].socket, LobbyMsg(Current(s).games))
             p == [k \in 1..n |-> e(k)]
             T == {e(k) : k \in 1..n}
  <2>1. Then(s, p) /\ Runs(s, "collect") /\ "collect" \in PlainSteps
    BY <1>5 DEF broadcast_collect, Each, PlainSteps
  <2>2. n \in Nat
    BY InUseBounded, FS_CardinalityType
  <2>3. \A k : e(k).op \in CalmOps /\ e(k).op \in AwayOps
    BY DEF Send, CalmOps, AwayOps
  <2>4. p \in Seq(T)
    <3> HIDE DEF n, e
    <3> QED BY <2>2
  <2>5. \A x \in T : x.op \in CalmOps /\ x.op \in AwayOps
    <3> HIDE DEF e
    <3> QED BY <2>3
  <2> HIDE DEF p, T
  <2>6. p \in Seq(ToSet(p)) /\ ToSet(p) \subseteq T
    BY <2>4, OverItsElements
  <2>7. AllIn(p, CalmOps) /\ AllIn(p, AwayOps)
    BY <2>5, <2>6, Zenon DEF AllIn
  <2>8. PlainStep(s, "collect")
    BY <1>1, <2>1, <2>6, <2>7, Zenon DEF PlainStep
  <2> QED BY <2>8, PlainStepKeeps, Zenon
<1>6. CASE check_owner(s)
  <2>1. Runs(s, "check_owner") /\ (Then(s, <<>>) \/ Fail(s))
    BY <1>6, Zenon DEF check_owner
  <2>2. "check_owner" \in PlainSteps /\ "check_owner" \notin AwayOps
    BY DEF PlainSteps, AwayOps
  <2> QED BY <1>1, <2>1, <2>2, PlainCases, Zenon
<1>7. CASE join_game(s)
  <2> DEFINE a == On("notify_owner", Current(s).game_id)
  <2>1. Runs(s, "join_game") /\ (Then(s, <<a>>) \/ Fail(s))
    BY <1>7, Zenon DEF join_game
  <2>2. "join_game" \in PlainSteps /\ "join_game" \notin AwayOps /\ a.op \in CalmOps
    BY DEF PlainSteps, AwayOps, CalmOps, On
  <2> HIDE DEF a
  <2> QED BY <1>1, <2>1, <2>2, PlainCases, Zenon
<1>8. CASE notify_owner(s)
  <2> DEFINE a == Send(OwnerOf(Current(s).game_id), JoinRequestMsg(Current(s).game_id))
  <2>1. Runs(s, "notify_owner") /\ (Then(s, <<a>>) \/ Then(s, <<>>))
    BY <1>8, Zenon DEF notify_owner
  <2>2. "notify_owner" \in PlainSteps /\ a.op \in CalmOps /\ a.op \in AwayOps
    BY DEF PlainSteps, AwayOps, CalmOps, Send
  <2> HIDE DEF a
  <2> QED BY <1>1, <2>1, <2>2, PlainCases, Zenon
<1> QED BY <1>2, <1>3, <1>4, <1>5, <1>6, <1>7, <1>8

-----------------------------------------------------------------------------
(* Creating a game. *)

(* A refusal leaves a thread with one message to send. *)
LEMMA RefusedFits ==
  ASSUME NEW s, NEW own, NEW covered, covered
  PROVE  Fits(s, <<Send(s, ErrorMsg)>>, TRUE, own, covered)
<1>1. Send(s, ErrorMsg).op \in CalmOps
  BY DEF Send, CalmOps
<1> QED BY <1>1, AllInShort, Zenon DEF Fits, Calm

(* Whoever is not marked as playing owns no game when it comes to creating  *)
(* one, although the check and the creation are two steps.                  *)
LEMMA CheckPlayingKeeps ==
  ASSUME LInv, NEW s \in Sockets, client_is_playing(s)
  PROVE  Accounts'
<1> DEFINE p == todo[s]
           row == RowsOf(s) # {}
<1>1. /\ Runs(s, "check_playing") /\ open' = open /\ UNCHANGED <<games, clients>>
      /\ IF Playing(s) THEN Fail(s) ELSE Then(s, <<>>)
  BY Zenon DEF client_is_playing, wire, rows, vars
<1>2. \A t \in Sockets : Undisturbed(t)
  BY <1>1, NothingDisturbed
<1>3. s \in open /\ p # <<>> /\ p[1].op = "check_playing" /\ p \in Seq(ToSet(p))
      /\ Fits(s, p, row, Own(s), Covered(s))
  BY <1>1, AboutTo, Zenon
<1>4. /\ row /\ Covered(s)
      /\ AllIn(p, CalmOps) \/ p = <<Do("check_playing"), Do("create_game")>>
  <2> HIDE DEF p, row
  <2>1. "check_playing" \notin AwayOps
    BY DEF AwayOps
  <2> QED BY <1>3, <2>1, Position, Zenon DEF At
<1>5. CASE Playing(s)
  <2>1. todo' = [todo EXCEPT ![s] = <<Send(s, ErrorMsg)>>]
    BY <1>1, <1>5 DEF Fail, Return
  <2>2. Fits(s, <<Send(s, ErrorMsg)>>, TRUE, Own(s), Covered(s)) /\ row = TRUE
    BY <1>4, RefusedFits
  <2> QED BY <1>1, <1>2, <1>3, <2>1, <2>2, QuietStepKeeps
<1>6. CASE ~Playing(s)
  <2>1. Tail(p) \in Seq(ToSet(Tail(p))) /\ ToSet(Tail(p)) \subseteq ToSet(p)
    BY <1>3, TailSteps, Zenon
  <2>2. todo' = [todo EXCEPT ![s] = Tail(p)]
    <3>1. <<>> \o Tail(p) = Tail(p)
      BY <2>1, CatNothing, Zenon
    <3> QED BY <1>1, <1>6, <3>1 DEF Then
  <2>3. Fits(s, Tail(p), row, Own(s), Covered(s))
    <3>1. CASE AllIn(p, CalmOps)
      <4>1. AllIn(Tail(p), CalmOps)
        BY <2>1, <3>1, Zenon DEF AllIn
      <4> QED BY <1>4, <4>1, Zenon DEF Fits, Calm
    <3>2. CASE p = <<Do("check_playing"), Do("create_game")>>
      <4>1. Tail(p) = <<Do("create_game")>>
        BY <3>2, LaterSteps
      <4>2. Own(s) = {}
        BY <1>4, <1>6, Zenon DEF Covered
      <4> QED BY <1>4, <4>1, <4>2, Zenon DEF Fits
    <3> QED BY <1>4, <3>1, <3>2
  <2> QED BY <1>1, <1>2, <1>3, <2>2, <2>3, QuietStepKeeps, Zenon
<1> QED BY <1>5, <1>6

(* A new game is its creator's only one. *)
LEMMA CreateOwns ==
  ASSUME LInv, NEW s \in Sockets, game_manager_create_game(s, Name)
  PROVE  /\ Own(s)' = Own(s) \cup {next_game_id}
         /\ \A t \in Sockets \ {s} : Own(t)' = Own(t)
         /\ NoOpponent'
<1> DEFINE g == NewGame(s, Name)
           id == next_game_id
<1>1. DOMAIN games' = DOMAIN games \cup {id}
      /\ \A k \in DOMAIN games \cup {id} : games'[k] = IF k = id THEN g ELSE games[k]
  BY DEF game_manager_create_game
<1>2. g.player_x_socket = s /\ g.player_o_socket = NoSocket
  BY DEF NewGame
<1>3. id \notin DOMAIN games
  BY DEF LInv, SInv, IInv, TypeOK
<1> HIDE DEF g, id
<1>4. \A t : Own(t)' = Own(t) \cup (IF t = s THEN {id} ELSE {})
  BY <1>1, <1>2, <1>3 DEF Own
<1>5. NoOpponent'
  BY <1>1, <1>2 DEF NoOpponent, LInv
<1> QED BY <1>4, <1>5 DEF id

(* Creating a game leaves its creator about to be marked. *)
LEMMA CreateGameKeeps ==
  ASSUME LInv, NEW s \in Sockets, create_game(s)
  PROVE  Accounts' /\ NoOpponent'
<1> DEFINE p == todo[s]
           row == RowsOf(s) # {}
           id == next_game_id
<1>1. /\ Runs(s, "create_game") /\ open' = open /\ UNCHANGED clients
      /\ IF id < MaxGames
         THEN game_manager_create_game(s, Name) /\ Then(s, MarkTwice(s, id))
         ELSE Fail(s) /\ UNCHANGED games
  BY Zenon DEF create_game, wire, rows, vars, MarkTwice
<1>2. s \in open /\ p # <<>> /\ p[1].op = "create_game" /\ p \in Seq(ToSet(p))
      /\ Fits(s, p, row, Own(s), Covered(s))
  BY <1>1, AboutTo, Zenon
<1>3. row /\ p = <<Do("create_game")>> /\ Own(s) = {}
  <2> HIDE DEF p, row
  <2>1. "create_game" \notin AwayOps /\ "create_game" \notin CalmOps
    BY DEF AwayOps, CalmOps
  <2> QED BY <1>2, <2>1, Position, Zenon DEF At
<1>4. \A t : RowsOf(t)' = RowsOf(t)
  BY <1>1 DEF RowsOf
<1>5. CASE id < MaxGames
  <2>1. game_manager_create_game(s, Name) /\ Then(s, MarkTwice(s, id))
    BY <1>1, <1>5
  <2>2. Own(s)' = {id} /\ (\A t \in Sockets \ {s} : Own(t)' = Own(t)) /\ NoOpponent'
    BY <1>3, <2>1, CreateOwns
  <2>3. todo' = [todo EXCEPT ![s] = MarkTwice(s, id)]
    <3>1. Tail(p) = <<>>
      BY <1>3, LaterSteps
    <3>2. MarkTwice(s, id) \o <<>> = MarkTwice(s, id)
      <4>1. MarkTwice(s, id) \in Seq(ToSet(MarkTwice(s, id)))
        BY ShortPrograms DEF MarkTwice
      <4> QED BY <4>1, CatNothing, Zenon
    <3> QED BY <2>1, <3>1, <3>2 DEF Then
  <2>4. id \in GameIds
    BY <1>5, MaxGamesAssumption DEF LInv, SInv, IInv, TypeOK, GameIds
  <2>5. Fits(s, MarkTwice(s, id), TRUE, {id}, Covered(s)')
    <3> HIDE DEF id
    <3> QED BY <2>4, Zenon DEF Fits
  <2>6. \A t \in Sockets \ {s} : Undisturbed(t)
    BY <1>1, <1>4, <2>2 DEF Undisturbed
  <2>7. TRUE = (RowsOf(s)' # {})
    BY <1>3, <1>4
  <2> HIDE DEF id
  <2> QED BY <1>1, <1>2, <2>2, <2>3, <2>5, <2>6, <2>7, StepKeeps
<1>6. CASE ~(id < MaxGames)
  <2>1. Fail(s) /\ UNCHANGED games
    BY <1>1, <1>6
  <2>2. todo' = [todo EXCEPT ![s] = <<Send(s, ErrorMsg)>>]
    BY <2>1 DEF Fail, Return
  <2>3. \A t \in Sockets : Undisturbed(t)
    BY <1>1, <2>1, NothingDisturbed
  <2>4. Fits(s, <<Send(s, ErrorMsg)>>, TRUE, Own(s), Covered(s)) /\ row = TRUE
    <3>1. Covered(s)
      BY <1>3, Zenon DEF Covered
    <3> QED BY <1>3, <3>1, RefusedFits
  <2>5. NoOpponent'
    BY <2>1 DEF LInv, NoOpponent
  <2> QED BY <1>1, <1>2, <2>2, <2>3, <2>4, <2>5, QuietStepKeeps
<1> QED BY <1>5, <1>6

-----------------------------------------------------------------------------
(* Marking a row. *)

(* The row that stands for s is one of its rows, and it is the only one. *)
LEMMA OneRow ==
  ASSUME SInv, NEW s, RowsOf(s) # {}
  PROVE  Min(RowsOf(s)) \in RowsOf(s) /\ RowsOf(s) = {Min(RowsOf(s))}
<1>1. Min(RowsOf(s)) \in RowsOf(s)
  <2>1. RowsOf(s) \subseteq Nat
    BY ServerAssumption DEF RowsOf, Slots
  <2> QED BY <2>1, MinIsMember
<1>2. \A i, j \in RowsOf(s) : i = j
  BY DEF SInv, SlotIntegrity, RowsOf
<1> QED BY <1>1, <1>2

(* What marking the row of s changes. *)
LEMMA MarkRow ==
  ASSUME LInv, NEW s \in Sockets, NEW playing \in BOOLEAN, NEW id, RowsOf(s) # {},
         clients' = WithPlaying(s, playing, id), UNCHANGED games,
         \A t : RowsOf(t)' = RowsOf(t)
  PROVE  /\ \A t \in Sockets \ {s} : Undisturbed(t)
         /\ Own(s)' = Own(s)
         /\ playing => GameIdOf(s)' = id /\ Playing(s)'
<1> DEFINE k == Min(RowsOf(s))
           r == [clients[k] EXCEPT !.is_playing = playing,
                                   !.current_game_id = IF playing THEN id ELSE NoGame]
<1>1. k \in RowsOf(s)
  BY OneRow DEF LInv
<1>2. \A i \in Slots : clients'[i] = IF i = k THEN r ELSE clients[i]
  BY DEF WithPlaying
<1>3. r.is_playing = playing /\ (playing => r.current_game_id = id)
  <2>1. clients[k] \in Client
    BY <1>1 DEF LInv, SInv, ServerTypeOK, RowsOf
  <2> QED BY <2>1 DEF Client
<1> HIDE DEF k, r
<1>4. \A t : Own(t)' = Own(t)
  BY DEF Own
<1>5. \A t \in Sockets \ {s} : \A i \in RowsOf(t) : clients'[i] = clients[i]
  BY <1>1, <1>2 DEF RowsOf
<1>6. ASSUME playing PROVE GameIdOf(s)' = id /\ Playing(s)'
  <2>1. k \in Slots /\ k \in RowsOf(s)' /\ clients'[k] = r
    BY <1>1, <1>2 DEF RowsOf
  <2>2. Playing(s)'
    BY <1>3, <1>6, <2>1 DEF Playing
  <2>3. GameIdOf(s)' = clients'[k].current_game_id
    BY DEF GameIdOf, k
  <2> QED BY <1>3, <1>6, <2>1, <2>2, <2>3
<1> QED BY <1>4, <1>5, <1>6 DEF Undisturbed

(* The programs that mark a row. *)
LEMMA MarkingPrograms ==
  /\ \A s, id : MarkTwice(s, id)[1] = SetPlaying(s, TRUE, id) /\ Tail(MarkTwice(s, id)) = MarkOnce(s, id)
  /\ \A s, id : MarkOnce(s, id)[1] = SetPlaying(s, TRUE, id)
                /\ Tail(MarkOnce(s, id)) = <<Send(s, WaitingMsg(id)), Broadcast>>
  /\ \A s : Unmark(s)[1] = SetPlaying(s, FALSE, 0) /\ Tail(Unmark(s)) = <<Broadcast>>
<1>1. \A s, id : MarkTwice(s, id)[1] = SetPlaying(s, TRUE, id) /\ Tail(MarkTwice(s, id)) = MarkOnce(s, id)
  <2> TAKE s, id
  <2> DEFINE a == SetPlaying(s, TRUE, id)  c == Send(s, WaitingMsg(id))
  <2> HIDE DEF a, c
  <2>1. <<a, a, c, Broadcast>>[1] = a /\ Tail(<<a, a, c, Broadcast>>) = <<a, c, Broadcast>>
    BY FirstSteps, LaterSteps
  <2> QED BY <2>1 DEF MarkTwice, MarkOnce, a, c
<1>2. \A s, id : MarkOnce(s, id)[1] = SetPlaying(s, TRUE, id)
                 /\ Tail(MarkOnce(s, id)) = <<Send(s, WaitingMsg(id)), Broadcast>>
  BY DEF MarkOnce
<1>3. \A s : Unmark(s)[1] = SetPlaying(s, FALSE, 0) /\ Tail(Unmark(s)) = <<Broadcast>>
  BY FirstSteps, LaterSteps, Zenon DEF Unmark
<1> QED BY <1>1, <1>2, <1>3

(* They end in plain steps. *)
LEMMA CalmEnds ==
  /\ Calm(<<>>) /\ Calm(<<Broadcast>>)
  /\ \A s, id : Calm(<<Send(s, WaitingMsg(id)), Broadcast>>)
<1>1. Broadcast.op \in CalmOps /\ \A s, id : Send(s, WaitingMsg(id)).op \in CalmOps
  BY DEF Broadcast, Do, Send, CalmOps
<1> QED BY <1>1, AllInShort, Zenon DEF Calm

(* The marks are made and taken back by the thread whose row it is. *)
LEMMA SetPlayingKeeps ==
  ASSUME LInv, NEW s \in Sockets, client_set_playing(s)
  PROVE  Accounts'
<1> DEFINE p == todo[s]
           row == RowsOf(s) # {}
           h == Current(s)
<1>1. /\ Runs(s, "set_playing") /\ open' = open /\ UNCHANGED games /\ Then(s, <<>>)
      /\ clients' = WithPlaying(h.sock, h.playing, h.game_id)
  BY Zenon DEF client_set_playing, wire, vars
<1>2. s \in open /\ p # <<>> /\ p[1].op = "set_playing" /\ p \in Seq(ToSet(p))
      /\ Fits(s, p, row, Own(s), Covered(s))
  BY <1>1, AboutTo, Zenon
<1>3. \/ row /\ \E id \in GameIds : p = MarkTwice(s, id) /\ Own(s) = {id}
      \/ row /\ \E id \in GameIds : p = MarkOnce(s, id) /\ Own(s) = {id}
      \/ row /\ p = Unmark(s) /\ Own(s) = {}
  <2> HIDE DEF p, row
  <2>1. "set_playing" \notin AwayOps /\ "set_playing" \notin CalmOps
    BY DEF AwayOps, CalmOps
  <2>2. At(s, p, row, Own(s), Covered(s))
    BY <1>2, Position, Zenon
  <2> QED BY <1>2, <2>1, <2>2 DEF At
<1>4. todo' = [todo EXCEPT ![s] = Tail(p)]
  <2>1. Tail(p) \in Seq(ToSet(Tail(p)))
    BY <1>2, TailSteps, Zenon
  <2>2. <<>> \o Tail(p) = Tail(p)
    BY <2>1, CatNothing, Zenon
  <2> QED BY <1>1, <2>2 DEF Then
<1>5. \A t : RowsOf(t)' = RowsOf(t)
  BY ServingKeepsRows, SameRowsOf, Zenon DEF LInv, Serving
<1>6. h = p[1]
  BY DEF Current
<1> HIDE DEF p, h
<1>7. ASSUME row, NEW id \in GameIds, p = MarkTwice(s, id) \/ p = MarkOnce(s, id), Own(s) = {id}
      PROVE  Accounts'
  <2>1. p[1] = SetPlaying(s, TRUE, id)
    BY <1>7, MarkingPrograms, Zenon
  <2>2. clients' = WithPlaying(s, TRUE, id)
    <3>1. h.sock = s /\ h.playing = TRUE /\ h.game_id = id
      BY <1>6, <2>1 DEF SetPlaying
    <3> QED BY <1>1, <3>1
  <2>3. /\ \A t \in Sockets \ {s} : Undisturbed(t)
        /\ Own(s)' = {id} /\ GameIdOf(s)' = id /\ Playing(s)'
    BY <1>1, <1>5, <1>7, <2>2, MarkRow
  <2>4. Covered(s)'
    BY <2>3 DEF Covered
  <2>5. Tail(p) = MarkOnce(s, id) \/ Tail(p) = <<Send(s, WaitingMsg(id)), Broadcast>>
    BY <1>7, MarkingPrograms, Zenon
  <2>6. Fits(s, Tail(p), TRUE, {id}, TRUE)
    BY <2>5, CalmEnds, Zenon DEF Fits
  <2>7. TRUE = (RowsOf(s)' # {}) /\ TRUE = Covered(s)'
    BY <1>5, <1>7, <2>4
  <2> QED BY <1>1, <1>2, <1>4, <2>3, <2>6, <2>7, StepKeeps
<1>8. ASSUME row, p = Unmark(s), Own(s) = {}
      PROVE  Accounts'
  <2>1. p[1] = SetPlaying(s, FALSE, 0) /\ Tail(p) = <<Broadcast>>
    BY <1>8, MarkingPrograms, Zenon
  <2>2. clients' = WithPlaying(s, FALSE, 0)
    <3>1. h.sock = s /\ h.playing = FALSE /\ h.game_id = 0
      BY <1>6, <2>1 DEF SetPlaying
    <3> QED BY <1>1, <3>1
  <2>3. (\A t \in Sockets \ {s} : Undisturbed(t)) /\ Own(s)' = {}
    BY <1>1, <1>5, <1>8, <2>2, MarkRow
  <2>4. Covered(s)'
    BY <2>3 DEF Covered
  <2>5. Fits(s, Tail(p), TRUE, {}, TRUE)
    BY <2>1, CalmEnds, Zenon DEF Fits
  <2>6. TRUE = (RowsOf(s)' # {}) /\ TRUE = Covered(s)'
    BY <1>5, <1>8, <2>4
  <2> QED BY <1>1, <1>2, <1>4, <2>3, <2>5, <2>6, StepKeeps
<1> QED BY <1>3, <1>7, <1>8, Zenon

-----------------------------------------------------------------------------
(* Leaving a game. *)

(* Leaving game id takes it from the caller and nothing from anybody else:  *)
(* a game is freed when it has no owner left.                               *)
LEMMA LeaveDisowns ==
  ASSUME LInv, NEW s \in Sockets, NEW id,
         IF id \in DOMAIN games /\ CanLeave(games[id], s)
         THEN game_manager_leave_game(id, s) ELSE UNCHANGED games
  PROVE  /\ Own(s)' = Own(s) \ {id}
         /\ \A t \in Sockets \ {s} : Own(t)' = Own(t)
         /\ NoOpponent'
<1>1. CASE ~(id \in DOMAIN games /\ CanLeave(games[id], s))
  <2>1. UNCHANGED games
    BY <1>1
  <2>2. id \notin Own(s)
    BY <1>1 DEF Own, CanLeave
  <2> QED BY <2>1, <2>2 DEF Own, NoOpponent, LInv
<1>2. CASE id \in DOMAIN games /\ CanLeave(games[id], s)
  <2> DEFINE g == games[id]
             left == Left(g, s)
  <2>1. g \in Game /\ g.player_o_socket = NoSocket
    BY <1>2 DEF LInv, SInv, IInv, TypeOK, NoOpponent
  <2>2. s # NoSocket
    BY SocketAssumption
  <2>3. /\ left.player_x_socket = IF g.player_x_socket = s THEN NoSocket ELSE g.player_x_socket
        /\ left.player_o_socket = NoSocket
    <3> HIDE DEF g
    <3> QED BY <2>1, <2>2 DEF Left, Game
  <2>4. games' = IF Deserted(left) THEN Without(id) ELSE [games EXCEPT ![id] = left]
    BY <1>2 DEF game_manager_leave_game
  <2> HIDE DEF left
  <2>5. CASE Deserted(left)
    <3>1. DOMAIN games' = DOMAIN games \ {id} /\ \A k \in DOMAIN games \ {id} : games'[k] = games[k]
      BY <2>4, <2>5 DEF Without
    <3>2. g.player_x_socket \in {s, NoSocket}
      BY <2>3, <2>5 DEF Deserted
    <3>3. \A t \in Sockets \ {s} : Own(t)' = Own(t)
      BY <3>1, <3>2, SocketAssumption DEF Own
    <3>4. Own(s)' = Own(s) \ {id}
      BY <3>1 DEF Own
    <3>5. NoOpponent'
      BY <3>1 DEF NoOpponent, LInv
    <3> QED BY <3>3, <3>4, <3>5
  <2>6. CASE ~Deserted(left)
    <3>1. DOMAIN games' = DOMAIN games
          /\ \A k \in DOMAIN games : games'[k] = IF k = id THEN left ELSE games[k]
      BY <1>2, <2>4, <2>6
    <3>2. \A t \in Sockets \ {s} : Own(t)' = Own(t)
      BY <1>2, <2>3, <3>1, SocketAssumption DEF Own
    <3>3. Own(s)' = Own(s) \ {id}
      BY <1>2, <2>2, <2>3, <3>1 DEF Own
    <3>4. NoOpponent'
      BY <1>2, <2>3, <3>1 DEF NoOpponent, LInv
    <3> QED BY <3>2, <3>3, <3>4
  <2> QED BY <2>5, <2>6
<1> QED BY <1>1, <1>2

(* The programs that leave. *)
LEMMA LeavingPrograms ==
  /\ \A id : Parting(id)[1] = LeaveGame(id)
             /\ Tail(Parting(id)) = <<Scan(0), Broadcast, Do("close")>>
  /\ \A s, id : LeaveFirst(s, id)[1] = LeaveGame(id) /\ Tail(LeaveFirst(s, id)) = ScanFirst(s)
  /\ \A s : Tail(ScanFirst(s)) = Unmark(s)
<1>1. \A id : Parting(id)[1] = LeaveGame(id)
              /\ Tail(Parting(id)) = <<Scan(0), Broadcast, Do("close")>>
  <2> TAKE id
  <2> DEFINE a == LeaveGame(id)  b == Scan(0)  d == Do("close")
  <2> HIDE DEF a, b, d
  <2>1. <<a, b, Broadcast, d>>[1] = a /\ Tail(<<a, b, Broadcast, d>>) = <<b, Broadcast, d>>
    BY FirstSteps, LaterSteps
  <2> QED BY <2>1 DEF Parting, a, b, d
<1>2. \A s, id : LeaveFirst(s, id)[1] = LeaveGame(id) /\ Tail(LeaveFirst(s, id)) = ScanFirst(s)
  <2> TAKE s, id
  <2> DEFINE a == LeaveGame(id)  b == Scan(0)  c == SetPlaying(s, FALSE, 0)
  <2> HIDE DEF a, b, c
  <2>1. <<a, b, c, Broadcast>>[1] = a /\ Tail(<<a, b, c, Broadcast>>) = <<b, c, Broadcast>>
    BY FirstSteps, LaterSteps
  <2> QED BY <2>1 DEF LeaveFirst, ScanFirst, a, b, c
<1>3. \A s : Tail(ScanFirst(s)) = Unmark(s)
  <2> TAKE s
  <2> DEFINE b == Scan(0)  c == SetPlaying(s, FALSE, 0)
  <2> HIDE DEF b, c
  <2>1. Tail(<<b, c, Broadcast>>) = <<c, Broadcast>>
    BY LaterSteps
  <2> QED BY <2>1 DEF ScanFirst, Unmark, b, c
<1> QED BY <1>1, <1>2, <1>3

(* The way out of the server. *)
LEMMA AwayEnds ==
  Away(<<Scan(0), Broadcast, Do("close")>>) /\ \A s : Away(<<Send(s, ErrorMsg), Do("close")>>)
<1>1. /\ Scan(0).op \in AwayOps /\ Broadcast.op \in AwayOps /\ Do("close").op \in AwayOps
      /\ Outside(Do("close")) /\ \A s : Send(s, ErrorMsg).op \in AwayOps
  BY DEF Scan, Broadcast, Do, Send, AwayOps, Outside
<1>2. Away(<<Scan(0), Broadcast, Do("close")>>)
  <2> DEFINE p == <<Scan(0), Broadcast, Do("close")>>
  <2>1. ToSet(p) = {Scan(0), Broadcast, Do("close")}
    BY ShortPrograms
  <2> HIDE DEF p
  <2>2. Away(p)
    BY <1>1, <2>1, Zenon DEF Away, AllIn
  <2> QED BY <2>2 DEF p
<1>3. ASSUME NEW s PROVE Away(<<Send(s, ErrorMsg), Do("close")>>)
  <2> DEFINE p == <<Send(s, ErrorMsg), Do("close")>>
  <2>1. ToSet(p) = {Send(s, ErrorMsg), Do("close")}
    BY ShortPrograms
  <2> HIDE DEF p
  <2>2. Away(p)
    BY <1>1, <2>1, Zenon DEF Away, AllIn
  <2> QED BY <2>2 DEF p
<1> QED BY <1>2, <1>3, Zenon

(* The caller of leave_game owns no game any more. *)
LEMMA LeaveGameKeeps ==
  ASSUME LInv, NEW s \in Sockets, leave_game(s)
  PROVE  Accounts' /\ NoOpponent'
<1> DEFINE p == todo[s]
           row == RowsOf(s) # {}
           id == Current(s).game_id
<1>1. /\ Runs(s, "leave_game") /\ open' = open /\ UNCHANGED clients /\ Then(s, <<>>)
      /\ IF id \in DOMAIN games /\ CanLeave(games[id], s)
         THEN game_manager_leave_game(id, s) ELSE UNCHANGED games
  BY Zenon DEF leave_game, wire, rows, vars
<1>2. s \in open /\ p # <<>> /\ p[1].op = "leave_game" /\ p \in Seq(ToSet(p))
      /\ Fits(s, p, row, Own(s), Covered(s))
  BY <1>1, AboutTo, Zenon
<1>3. \/ ~row /\ \E k \in GameIds : p = Parting(k) /\ Own(s) \subseteq {k}
      \/ row /\ \E k \in GameIds \cup {0} : p = LeaveFirst(s, k) /\ Own(s) \subseteq {k}
  <2> HIDE DEF p, row
  <2>1. "leave_game" \notin AwayOps /\ "leave_game" \notin CalmOps
    BY DEF AwayOps, CalmOps
  <2>2. At(s, p, row, Own(s), Covered(s))
    BY <1>2, Position, Zenon
  <2> QED BY <1>2, <2>1, <2>2 DEF At
<1>4. todo' = [todo EXCEPT ![s] = Tail(p)]
  <2>1. Tail(p) \in Seq(ToSet(Tail(p)))
    BY <1>2, TailSteps, Zenon
  <2>2. <<>> \o Tail(p) = Tail(p)
    BY <2>1, CatNothing, Zenon
  <2> QED BY <1>1, <2>2 DEF Then
<1>5. \A t : RowsOf(t)' = RowsOf(t)
  BY <1>1 DEF RowsOf
<1>6. Own(s)' = Own(s) \ {id} /\ (\A t \in Sockets \ {s} : Own(t)' = Own(t)) /\ NoOpponent'
  <2> HIDE DEF id
  <2> QED BY <1>1, LeaveDisowns, Zenon
<1>7. \A t \in Sockets \ {s} : Undisturbed(t)
  BY <1>1, <1>5, <1>6 DEF Undisturbed
<1>8. id = p[1].game_id /\ \A k : LeaveGame(k).game_id = k
  BY DEF Current, LeaveGame
<1> HIDE DEF p, id
<1>9. Own(s)' = {}
  <2>1. PICK k : (p = Parting(k) \/ p = LeaveFirst(s, k)) /\ Own(s) \subseteq {k}
    BY <1>3, Zenon
  <2>2. p[1] = LeaveGame(k)
    BY <2>1, LeavingPrograms
  <2>3. id = k
    BY <1>8, <2>2
  <2> QED BY <1>6, <2>1, <2>3
<1>10. Fits(s, Tail(p), row, {}, Covered(s)')
  <2>1. CASE row
    <3>1. Tail(p) = ScanFirst(s)
      BY <1>3, <2>1, LeavingPrograms, Zenon
    <3> QED BY <2>1, <3>1, Zenon DEF Fits
  <2>2. CASE ~row
    <3>1. Tail(p) = <<Scan(0), Broadcast, Do("close")>>
      BY <1>3, <2>2, LeavingPrograms, Zenon
    <3> QED BY <2>2, <3>1, AwayEnds, Zenon DEF Fits
  <2> QED BY <2>1, <2>2
<1>11. row = (RowsOf(s)' # {})
  BY <1>5
<1> QED BY <1>1, <1>2, <1>4, <1>6, <1>7, <1>9, <1>10, <1>11, StepKeeps

(* Nothing is found by the scan, and the thread goes on. *)
LEMMA ScanKeeps ==
  ASSUME LInv, NEW s \in Sockets, scan(s)
  PROVE  Accounts'
<1> DEFINE p == todo[s]
           row == RowsOf(s) # {}
           mine == {id \in DOMAIN games : games[id].player_x_socket = s /\ id # Current(s).spared}
<1>1. /\ Runs(s, "scan") /\ open' = open /\ UNCHANGED <<games, clients>>
      /\ Then(s, Each(LeaveGame, mine))
  BY Zenon DEF scan, wire, rows, vars
<1>2. s \in open /\ p # <<>> /\ p[1].op = "scan" /\ p \in Seq(ToSet(p))
      /\ Fits(s, p, row, Own(s), Covered(s))
  BY <1>1, AboutTo, Zenon
<1>3. Own(s) = {} /\ ((~row /\ Away(p)) \/ (row /\ p = ScanFirst(s)))
  <2> HIDE DEF p, row
  <2>1. "scan" \notin CalmOps
    BY DEF CalmOps
  <2>2. At(s, p, row, Own(s), Covered(s))
    BY <1>2, Position, Zenon
  <2>3. Own(s) = {}
    BY <1>2, <2>1, <2>2 DEF At
  <2>4. (~row /\ Away(p)) \/ (row /\ p = ScanFirst(s))
    <3>1. ASSUME row PROVE p = ScanFirst(s)
      BY <1>2, <2>1, <2>2, <3>1 DEF At
    <3>2. ASSUME ~row PROVE Away(p)
      BY <1>2, <2>1, <2>2, <3>2 DEF At
    <3> QED BY <3>1, <3>2, Zenon
  <2> QED BY <2>3, <2>4
<1>4. Each(LeaveGame, mine) = <<>>
  <2>1. mine = {}
    BY <1>3 DEF Own
  <2>2. Cardinality(mine) = 0 /\ IsFiniteSet(mine)
    BY <2>1, FS_EmptySet
  <2> DEFINE q == Each(LeaveGame, mine)
  <2>3. q \in Seq(ToSet(q))
    <3> HIDE DEF mine
    <3> QED BY <2>2, EachLeave
  <2>4. DOMAIN q = 1..0
    BY <2>2 DEF Each
  <2> DEFINE T == ToSet(q)
  <2>5. q \in Seq(T)
    BY <2>3
  <2> HIDE DEF T, q
  <2>6. q = <<>>
    BY <2>4, <2>5
  <2> QED BY <2>6 DEF q
<1>5. Tail(p) \in Seq(ToSet(Tail(p)))
  BY <1>2, TailSteps, Zenon
<1>6. todo' = [todo EXCEPT ![s] = Tail(p)]
  <2>1. <<>> \o Tail(p) = Tail(p)
    BY <1>5, CatNothing, Zenon
  <2>2. Then(s, <<>>)
    BY <1>1, <1>4
  <2> QED BY <2>1, <2>2 DEF Then
<1>7. \A t \in Sockets : Undisturbed(t)
  BY <1>1, NothingDisturbed
<1> HIDE DEF p
<1>8. Fits(s, Tail(p), row, Own(s), Covered(s))
  <2>1. CASE row
    <3>1. Tail(p) = Unmark(s)
      BY <1>3, <2>1, LeavingPrograms, Zenon
    <3> QED BY <1>3, <2>1, <3>1, Zenon DEF Fits
  <2>2. CASE ~row
    <3>1. ToSet(p) = {p[1]} \cup ToSet(Tail(p))
      BY <1>2, HeadAndTail, Zenon
    <3>2. ~Outside(p[1])
      BY <1>2 DEF Outside
    <3>3. Away(Tail(p))
      BY <1>3, <2>2, <3>1, <3>2, Zenon DEF Away, AllIn
    <3> QED BY <1>3, <2>2, <3>3, Zenon DEF Fits
  <2> QED BY <2>1, <2>2
<1> QED BY <1>1, <1>2, <1>6, <1>7, <1>8, QuietStepKeeps, Zenon

(* What a row that covers its thread's games says about them. *)
LEMMA RowNamesGame ==
  ASSUME LInv, NEW s, RowsOf(s) # {}, Covered(s)
  PROVE  /\ GameIdOf(s) \in GameIds \cup {NoGame}
         /\ Own(s) \subseteq {GameIdOf(s)}
         /\ GameIdOf(s) = NoGame => Own(s) = {}
<1>1. GameIdOf(s) \in GameIds \cup {NoGame}
  <2>1. Min(RowsOf(s)) \in RowsOf(s)
    BY OneRow DEF LInv
  <2>2. clients[Min(RowsOf(s))] \in Client
    BY <2>1 DEF LInv, SInv, ServerTypeOK, RowsOf
  <2> QED BY <2>2 DEF GameIdOf, Client
<1>2. Own(s) \subseteq {GameIdOf(s)}
  BY Zenon DEF Covered
<1>3. NoGame \notin DOMAIN games
  BY DEF LInv, SInv, IInv, TypeOK, NoGame
<1> QED BY <1>1, <1>2, <1>3 DEF Own

(* A request to leave is about the game of the caller's row. *)
LEMMA ReadTargetKeeps ==
  ASSUME LInv, NEW s \in Sockets, read_target(s)
  PROVE  Accounts'
<1> DEFINE p == todo[s]
           row == RowsOf(s) # {}
           id == IF GameIdOf(s) # NoGame THEN GameIdOf(s) ELSE 0
<1>1. /\ Runs(s, "read_target") /\ open' = open /\ UNCHANGED <<games, clients>>
      /\ Then(s, LeaveFirst(s, id))
  BY Zenon DEF read_target, wire, rows, vars, LeaveFirst
<1>2. s \in open /\ p # <<>> /\ p[1].op = "read_target" /\ p \in Seq(ToSet(p))
      /\ Fits(s, p, row, Own(s), Covered(s))
  BY <1>1, AboutTo, Zenon
<1>3. row /\ Covered(s) /\ p = <<Do("read_target")>>
  <2> HIDE DEF p, row
  <2>1. "read_target" \notin AwayOps /\ "read_target" \notin CalmOps
    BY DEF AwayOps, CalmOps
  <2> QED BY <1>2, <2>1, Position, Zenon DEF At
<1>4. id \in GameIds \cup {0} /\ Own(s) \subseteq {id}
  BY <1>3, RowNamesGame
<1> HIDE DEF id
<1>5. todo' = [todo EXCEPT ![s] = LeaveFirst(s, id)]
  <2>1. Tail(p) = <<>>
    BY <1>3, LaterSteps
  <2>2. LeaveFirst(s, id) \o <<>> = LeaveFirst(s, id)
    <3>1. LeaveFirst(s, id) \in Seq(ToSet(LeaveFirst(s, id)))
      BY ShortPrograms DEF LeaveFirst
    <3> QED BY <3>1, CatNothing, Zenon
  <2> QED BY <1>1, <2>1, <2>2 DEF Then
<1>6. Fits(s, LeaveFirst(s, id), row, Own(s), Covered(s))
  BY <1>3, <1>4, Zenon DEF Fits
<1>7. \A t \in Sockets : Undisturbed(t)
  BY <1>1, NothingDisturbed
<1> QED BY <1>1, <1>2, <1>5, <1>6, <1>7, QuietStepKeeps, Zenon

-----------------------------------------------------------------------------
(* Coming and going. *)

(* The row is freed when the program is about to leave the game it named. *)
LEMMA RemoveClientAccounts ==
  ASSUME LInv, NEW s \in Sockets, remove_client(s)
  PROVE  Accounts'
<1> DEFINE p == todo[s]
           row == RowsOf(s) # {}
           id == GameIdOf(s)
           lead == IF id # NoGame THEN <<LeaveGame(id)>> ELSE <<>>
           rest == <<Scan(0), Broadcast, Do("close")>>
<1>1. /\ Runs(s, "remove_client") /\ open' = open /\ UNCHANGED games
      /\ Return(s, lead \o rest)
  BY Zenon DEF remove_client, wire, vars
<1>2. s \in open /\ p # <<>> /\ p[1].op = "remove_client" /\ p \in Seq(ToSet(p))
      /\ Fits(s, p, row, Own(s), Covered(s))
  BY <1>1, AboutTo, Zenon
<1>3. row /\ Covered(s)
  <2> HIDE DEF p, row
  <2>1. "remove_client" \notin AwayOps /\ "remove_client" \notin CalmOps
    BY DEF AwayOps, CalmOps
  <2> QED BY <1>2, <2>1, Position, Zenon DEF At
<1>4. \A t : Own(t)' = Own(t)
  BY <1>1 DEF Own
<1>5. RowsOf(s)' = {} /\ \A t \in Sockets \ {s} : Undisturbed(t)
  <2> DEFINE k == Min(RowsOf(s))
             r == [clients[k] EXCEPT !.is_active = FALSE, !.is_playing = FALSE,
                                     !.current_game_id = NoGame]
  <2>1. k \in RowsOf(s) /\ RowsOf(s) = {k}
    BY <1>3, OneRow DEF LInv
  <2>2. clients' = [clients EXCEPT ![k] = r]
    BY <1>3 DEF remove_client
  <2>3. clients \in [Slots -> Client] /\ k \in Slots /\ clients[k].socket = s
    BY <2>1 DEF LInv, SInv, ServerTypeOK, RowsOf
  <2>4. ~r.is_active
    <3>1. clients[k] \in Client
      BY <2>3
    <3> QED BY <3>1 DEF Client
  <2> HIDE DEF k, r
  <2>5. \A i \in Slots : clients'[i] = IF i = k THEN r ELSE clients[i]
    BY <2>2, <2>3
  <2>6. RowsOf(s)' = {}
    BY <2>1, <2>4, <2>5 DEF RowsOf
  <2>7. \A t \in Sockets \ {s} : /\ RowsOf(t)' = RowsOf(t)
                                 /\ \A i \in RowsOf(t) : clients'[i] = clients[i]
    BY <2>3, <2>4, <2>5 DEF RowsOf
  <2> QED BY <1>4, <2>6, <2>7 DEF Undisturbed
<1>6. todo' = [todo EXCEPT ![s] = lead \o rest]
  BY <1>1 DEF Return
<1>7. Fits(s, lead \o rest, FALSE, Own(s)', Covered(s)')
  <2>1. /\ id \in GameIds \cup {NoGame} /\ Own(s) \subseteq {id}
        /\ id = NoGame => Own(s) = {}
    BY <1>3, RowNamesGame
  <2>2. CASE id # NoGame
    <3>1. lead \o rest = Parting(id)
      <4> DEFINE a == LeaveGame(id)  b == Scan(0)  d == Do("close")
      <4> HIDE DEF a, b, d
      <4>1. <<a>> \o <<b, Broadcast, d>> = <<a, b, Broadcast, d>>
        BY OneMore, Zenon
      <4> QED BY <2>2, <4>1 DEF Parting, a, b, d
    <3>2. id \in GameIds /\ Own(s)' \subseteq {id}
      BY <1>4, <2>1, <2>2
    <3> QED BY <3>1, <3>2, Zenon DEF Fits
  <2>3. CASE id = NoGame
    <3>1. lead \o rest = rest
      <4>1. rest \in Seq(ToSet(rest))
        BY ShortPrograms
      <4>2. <<>> \o rest = rest
        BY <4>1, CatNothing, Zenon
      <4> QED BY <2>3, <4>2
    <3>2. Own(s)' = {}
      BY <1>4, <2>1, <2>3
    <3> QED BY <3>1, <3>2, AwayEnds, Zenon DEF Fits
  <2> QED BY <2>2, <2>3
<1>8. FALSE = (RowsOf(s)' # {})
  BY <1>5
<1> HIDE DEF lead, rest
<1> QED BY <1>1, <1>2, <1>5, <1>6, <1>7, <1>8, StepKeeps

(* A new row has no game to speak of. *)
LEMMA AddClientAccounts ==
  ASSUME LInv, NEW s \in Sockets, add_client(s)
  PROVE  Accounts'
<1> DEFINE p == todo[s]
           row == RowsOf(s) # {}
           free == {i \in Slots : ~clients[i].is_active}
           new == [EmptyRow EXCEPT !.socket = s, !.is_active = TRUE]
<1>1. /\ Runs(s, "add_client") /\ open' = open /\ UNCHANGED games
      /\ \/ Return(s, <<Send(s, ErrorMsg), Do("close")>>) /\ UNCHANGED clients
         \/ /\ free # {} /\ Return(s, <<>>)
            /\ clients' = [clients EXCEPT ![Min(free)] = new]
  BY Zenon DEF add_client, wire, rows, vars
<1>2. s \in open /\ p # <<>> /\ p[1].op = "add_client" /\ p \in Seq(ToSet(p))
      /\ Fits(s, p, row, Own(s), Covered(s))
  BY <1>1, AboutTo, Zenon
<1>3. ~row /\ Own(s) = {}
  <2> HIDE DEF p, row
  <2>1. "add_client" \notin CalmOps
    BY DEF CalmOps
  <2> QED BY <1>2, <2>1, Position, Zenon DEF At
<1>4. \A t : Own(t)' = Own(t)
  BY <1>1 DEF Own
<1>5. CASE Return(s, <<Send(s, ErrorMsg), Do("close")>>) /\ UNCHANGED clients
  <2>1. \A t \in Sockets : Undisturbed(t)
    BY <1>1, <1>5, NothingDisturbed
  <2>2. todo' = [todo EXCEPT ![s] = <<Send(s, ErrorMsg), Do("close")>>]
    BY <1>5 DEF Return
  <2>3. Fits(s, <<Send(s, ErrorMsg), Do("close")>>, row, Own(s), Covered(s))
    BY <1>3, AwayEnds, Zenon DEF Fits
  <2> QED BY <1>1, <1>2, <2>1, <2>2, <2>3, QuietStepKeeps, Zenon
<1>6. CASE /\ free # {} /\ Return(s, <<>>)
           /\ clients' = [clients EXCEPT ![Min(free)] = new]
  <2> DEFINE k == Min(free)
  <2>1. k \in Slots /\ ~clients[k].is_active
    <3>1. free \subseteq Nat
      BY ServerAssumption DEF Slots
    <3>2. k \in free
      BY <1>6, <3>1, MinIsMember
    <3> QED BY <3>2
  <2>2. new.is_active /\ new.socket = s
    BY DEF EmptyRow
  <2>3. clients' = [clients EXCEPT ![k] = new] /\ clients \in [Slots -> Client]
    BY <1>6 DEF LInv, SInv, ServerTypeOK
  <2> HIDE DEF k, new
  <2>4. \A i \in Slots : clients'[i] = IF i = k THEN new ELSE clients[i]
    BY <2>1, <2>3
  <2>5. RowsOf(s)' # {}
    BY <2>1, <2>2, <2>4 DEF RowsOf
  <2>6. \A t \in Sockets \ {s} : /\ RowsOf(t)' = RowsOf(t)
                                 /\ \A i \in RowsOf(t) : clients'[i] = clients[i]
    BY <2>1, <2>2, <2>4 DEF RowsOf
  <2>7. \A t \in Sockets \ {s} : Undisturbed(t)
    BY <1>4, <2>6 DEF Undisturbed
  <2>8. Own(s)' = {}
    BY <1>3, <1>4
  <2>9. Covered(s)'
    BY <2>8 DEF Covered
  <2>10. Fits(s, <<>>, TRUE, {}, TRUE)
    BY CalmEnds, Zenon DEF Fits
  <2>11. TRUE = (RowsOf(s)' # {}) /\ TRUE = Covered(s)'
    BY <2>5, <2>9
  <2>12. todo' = [todo EXCEPT ![s] = <<>>]
    BY <1>6 DEF Return
  <2> QED BY <1>1, <1>2, <2>7, <2>8, <2>10, <2>11, <2>12, StepKeeps
<1> QED BY <1>1, <1>5, <1>6

(* The descriptor that is closed owns no game. *)
LEMMA CloseAccounts ==
  ASSUME LInv, NEW s \in Sockets, close(s)
  PROVE  Accounts'
<1> DEFINE p == todo[s]
           row == RowsOf(s) # {}
<1>1. /\ Runs(s, "close") /\ open' = open \ {s} /\ UNCHANGED <<games, clients>>
      /\ todo' = [todo EXCEPT ![s] = <<>>]
  BY Zenon DEF close, rows, vars, Return
<1>2. s \in open /\ p # <<>> /\ p[1].op = "close" /\ p \in Seq(ToSet(p))
      /\ Fits(s, p, row, Own(s), Covered(s))
  BY <1>1, AboutTo, Zenon
<1>3. Own(s) = {}
  <2> HIDE DEF p, row
  <2>1. "close" \notin CalmOps
    BY DEF CalmOps
  <2> QED BY <1>2, <2>1, Position, Zenon DEF At
<1>4. \A t : Undisturbed(t)
  BY <1>1, NothingDisturbed
<1>5. Account(s)'
  BY <1>1, <1>3, <1>4 DEF Account, Undisturbed
<1>6. \A t \in Sockets \ {s} : todo'[t] = todo[t] /\ (t \in open') = (t \in open)
  BY <1>1 DEF LInv, SInv, Programs
<1>7. ASSUME NEW t \in Sockets \ {s} PROVE Account(t)'
  BY <1>4, <1>6, Elsewhere, Zenon DEF LInv
<1> QED BY <1>5, <1>7, Zenon DEF Accounts

(* A new connection starts without a game. *)
LEMMA ConnectAccounts ==
  ASSUME LInv, NEW u \in Users, Connect(u)
  PROVE  Accounts'
<1>0. PICK s : s = Min(Sockets \ open)
  OBVIOUS
<1>1. s \in Sockets /\ s \notin open
  <2>1. Sockets \ open # {} /\ Sockets \ open \subseteq Nat
    BY ServerAssumption DEF LInv, SInv, ServerTypeOK, Connect
  <2> QED BY <1>0, <2>1, MinIsMember
<1>2. /\ open' = open \cup {s} /\ todo' = [todo EXCEPT ![s] = <<Do("add_client")>>]
      /\ UNCHANGED <<games, clients>>
  BY <1>0, Zenon DEF Connect, Return, rows, vars
<1>3. \A t : Undisturbed(t)
  BY <1>2, NothingDisturbed
<1>4. \A t \in Sockets \ {s} : todo'[t] = todo[t] /\ (t \in open') = (t \in open)
  BY <1>2 DEF LInv, SInv, Programs
<1>5. ASSUME NEW t \in Sockets \ {s} PROVE Account(t)'
  BY <1>3, <1>4, Elsewhere, Zenon DEF LInv
<1>6. Account(s)'
  <2>1. RowsOf(s)' = {} /\ Own(s)' = {}
    <3>1. RowsOf(s) = {}
      BY <1>1 DEF LInv, SInv, SlotIntegrity, RowsOf
    <3>2. Own(s) = {}
      BY <1>1 DEF LInv, Account
    <3> QED BY <1>3, <3>1, <3>2 DEF Undisturbed
  <2>2. todo'[s] = <<Do("add_client")>> /\ s \in open'
    BY <1>1, <1>2 DEF LInv, SInv, Programs
  <2>3. Away(<<Do("add_client")>>)
    <3>1. Do("add_client").op \in AwayOps /\ Outside(Do("add_client"))
      BY DEF Do, AwayOps, Outside
    <3>2. ToSet(<<Do("add_client")>>) = {Do("add_client")}
      BY ShortPrograms
    <3> QED BY <3>1, <3>2, Zenon DEF Away, AllIn
  <2>4. Fits(s, <<Do("add_client")>>, FALSE, {}, Covered(s)')
    BY <2>3, Zenon DEF Fits
  <2>5. FALSE = (RowsOf(s)' # {})
    BY <2>1
  <2> QED BY <2>1, <2>2, <2>4, <2>5 DEF Account
<1> QED BY <1>5, <1>6, Zenon DEF Accounts

(* A thread with nothing to do has a row, which covers its games. *)
LEMMA IdleIsCovered ==
  ASSUME LInv, NEW s \in Sockets, s \in open, todo[s] = <<>>
  PROVE  RowsOf(s) # {} /\ Covered(s)
<1> DEFINE row == RowsOf(s) # {}
<1>1. ~Away(<<>>)
  BY ShortPrograms, Zenon DEF Away
<1>2. /\ \A k : Parting(k) # <<>> /\ MarkTwice(s, k) # <<>> /\ MarkOnce(s, k) # <<>>
                /\ LeaveFirst(s, k) # <<>>
      /\ <<Do("create_game")>> # <<>> /\ ScanFirst(s) # <<>> /\ Unmark(s) # <<>>
  BY FirstSteps, Zenon DEF Parting, MarkTwice, MarkOnce, LeaveFirst, ScanFirst, Unmark
<1>3. Fits(s, <<>>, row, Own(s), Covered(s))
  BY Zenon DEF LInv, Account
<1> HIDE DEF row
<1>4. row /\ Covered(s)
  BY <1>1, <1>2, <1>3, Zenon DEF Fits
<1> QED BY <1>4 DEF row

(* It receives a request and is calm about it. *)
LEMMA ReceiveAccounts ==
  ASSUME LInv, NEW s \in Sockets, Receive(s)
  PROVE  Accounts' /\ LobbyInboxes'
<1> DEFINE q == inbox[s]
           m == q[1]
           row == RowsOf(s) # {}
<1>1. /\ s \in open /\ todo[s] = <<>> /\ q # <<>> /\ open' = open /\ UNCHANGED <<games, clients>>
      /\ Return(s, handle_message(Head(q))) /\ inbox' = [inbox EXCEPT ![s] = Tail(q)]
  BY Zenon DEF Receive, rows, vars
<1>2. /\ DOMAIN inbox = Sockets /\ q \in Seq(ToSet(q))
      /\ \A t \in Sockets : \A x \in ToSet(inbox[t]) : x.type \in LobbyRequests \cup {"EOF"}
  BY Zenon DEF LInv, SInv, Inboxes, InboxOK, LobbyInboxes
<1>3. ToSet(Tail(q)) \subseteq ToSet(q) /\ m \in ToSet(q)
  BY <1>1, <1>2, TailSteps, Zenon
<1>4. LobbyInboxes'
  <2>1. \A t \in Sockets : inbox'[t] = IF t = s THEN Tail(q) ELSE inbox[t]
    BY <1>1, <1>2
  <2> QED BY <1>2, <1>3, <2>1, Zenon DEF LobbyInboxes
<1>5. Head(q) = m
  BY <1>1, <1>2
<1>6. m.type \in LobbyRequests \cup {"EOF"}
  BY <1>2, <1>3
<1> HIDE DEF m
<1>7. Calm(handle_message(m))
  <2>1. CASE m.type = "MSG_CREATE_GAME"
    <3>1. handle_message(m) = <<Do("check_playing"), Do("create_game")>>
      BY <2>1 DEF handle_message
    <3> QED BY <3>1, Zenon DEF Calm
  <2>2. CASE m.type = "MSG_LIST_GAMES"
    <3>1. handle_message(m) = <<Do("list_games")>> /\ Do("list_games").op \in CalmOps
      BY <2>2 DEF handle_message, Do, CalmOps
    <3> QED BY <3>1, AllInShort, Zenon DEF Calm
  <2>3. CASE m.type = "MSG_JOIN_GAME"
    <3> DEFINE a == Do("check_playing")
               b == On("check_owner", m.game_id)
               c == On("join_game", m.game_id)
    <3>1. handle_message(m) = <<a, b, c>>
      BY <2>3 DEF handle_message
    <3>2. a.op \in CalmOps /\ b.op \in CalmOps /\ c.op \in CalmOps
      BY DEF Do, On, CalmOps
    <3> HIDE DEF a, b, c
    <3>3. ToSet(<<a, b, c>>) = {a, b, c}
      BY ShortPrograms
    <3>4. AllIn(<<a, b, c>>, CalmOps)
      BY <3>2, <3>3, Zenon DEF AllIn
    <3> QED BY <3>1, <3>4, Zenon DEF Calm
  <2>4. CASE m.type = "MSG_LEAVE_GAME"
    <3>1. handle_message(m) = <<Do("read_target")>>
      BY <2>4 DEF handle_message
    <3> QED BY <3>1, Zenon DEF Calm
  <2>5. CASE m.type = "EOF"
    <3>1. handle_message(m) = <<Do("remove_client")>>
      BY <2>5 DEF handle_message, Farewell
    <3> QED BY <3>1, Zenon DEF Calm
  <2> QED BY <1>6, <2>1, <2>2, <2>3, <2>4, <2>5 DEF LobbyRequests
<1>8. row /\ Covered(s)
  BY <1>1, IdleIsCovered
<1>9. Accounts'
  <2>1. todo' = [todo EXCEPT ![s] = handle_message(m)]
    BY <1>1, <1>5 DEF Return
  <2>2. Fits(s, handle_message(m), row, Own(s), Covered(s))
    BY <1>7, <1>8, Zenon DEF Fits
  <2>3. \A t \in Sockets : Undisturbed(t)
    BY <1>1, NothingDisturbed
  <2> QED BY <1>1, <2>1, <2>2, <2>3, QuietStepKeeps, Zenon
<1> QED BY <1>4, <1>9

(* Users only fill inboxes, and with requests of the lobby. *)
LEMMA UserAccounts ==
  ASSUME LInv, NEW u \in Users, Disconnect(u) \/ PressKey(u)
  PROVE  Accounts' /\ LobbyInboxes'
<1>1. UNCHANGED <<games, clients, open, todo>>
  BY Zenon DEF Disconnect, PressKey, rows, vars
<1>2. Accounts'
  <2>1. \A t \in Sockets : Undisturbed(t)
    BY <1>1, NothingDisturbed
  <2>2. ASSUME NEW t \in Sockets PROVE Account(t)'
    BY <1>1, <2>1, Elsewhere DEF LInv
  <2> QED BY <2>2, Zenon DEF Accounts
<1>3. /\ DOMAIN inbox = Sockets
      /\ \A t \in Sockets : /\ inbox[t] \in Seq(ToSet(inbox[t]))
                            /\ \A x \in ToSet(inbox[t]) : x.type \in LobbyRequests \cup {"EOF"}
  BY Zenon DEF LInv, SInv, Inboxes, InboxOK, LobbyInboxes
<1>4. conn \in [Users -> Seats] /\ ui \in [Users -> UIState]
  BY DEF LInv, SInv, ServerTypeOK
<1>5. ASSUME NEW s \in Sockets, NEW r, inbox' = [inbox EXCEPT ![s] = r],
             \A x \in ToSet(r) : x \in ToSet(inbox[s]) \/ x.type \in LobbyRequests \cup {"EOF"}
      PROVE  LobbyInboxes'
  <2>1. \A t \in Sockets : inbox'[t] = IF t = s THEN r ELSE inbox[t]
    BY <1>3, <1>5
  <2> QED BY <1>3, <1>5, <2>1, Zenon DEF LobbyInboxes
<1>6. CASE Disconnect(u)
  <2>0. PICK s : s = conn[u]
    OBVIOUS
  <2> DEFINE q == inbox[s]
             m == [type |-> "EOF"]
             r == Append(q, m)
  <2>1. s \in Sockets /\ inbox' = [inbox EXCEPT ![s] = r]
    BY <1>4, <1>6, <2>0 DEF Disconnect, Seats
  <2>2. \A x \in ToSet(r) : x \in ToSet(q) \/ x = m
    <3> DEFINE S == ToSet(q)
    <3>1. q \in Seq(S)
      BY <1>3, <2>1
    <3> HIDE DEF q, S, m
    <3>2. /\ DOMAIN q = 1..Len(q) /\ Len(q) \in Nat /\ DOMAIN r = 1..(Len(q) + 1)
          /\ \A k \in 1..(Len(q) + 1) : r[k] = IF k <= Len(q) THEN q[k] ELSE m
      BY <3>1
    <3> HIDE DEF r
    <3>3. ASSUME NEW k \in 1..(Len(q) + 1) PROVE r[k] \in ToSet(q) \/ r[k] = m
      BY <3>2 DEF ToSet
    <3> QED BY <3>2, <3>3 DEF ToSet
  <2>3. m.type = "EOF"
    OBVIOUS
  <2>4. \A x \in ToSet(r) : x \in ToSet(inbox[s]) \/ x.type \in LobbyRequests \cup {"EOF"}
    BY <2>2, <2>3
  <2> HIDE DEF r
  <2> QED BY <1>2, <1>5, <2>1, <2>4, Zenon
<1>7. CASE PressKey(u)
  <2>1. PICK k \in Keys(ui[u]) :
          IF k.cmds = <<>> THEN UNCHANGED inbox
          ELSE /\ conn[u] # NoSocket
               /\ \A i \in 1..Len(k.cmds) : k.cmds[i].type \in Requests
               /\ inbox' = [inbox EXCEPT ![conn[u]] = inbox[conn[u]] \o k.cmds]
    BY <1>7 DEF PressKey
  <2>2. CASE k.cmds = <<>>
    <3>1. inbox' = inbox
      BY <2>1, <2>2, Zenon
    <3> QED BY <1>2, <3>1 DEF LInv, LobbyInboxes
  <2>3. CASE k.cmds # <<>>
    <3>0. PICK s : s = conn[u]
      OBVIOUS
    <3> DEFINE q == inbox[s]
               c == k.cmds
    <3>1. /\ s \in Sockets /\ inbox' = [inbox EXCEPT ![s] = q \o c]
          /\ \A i \in 1..Len(c) : c[i].type \in Requests
      BY <1>4, <2>1, <2>3, <3>0 DEF Seats
    <3>2. c \in Seq(ToSet(c))
      <4>1. KeyOK(k)
        BY <1>4, <2>1, KeysType, Zenon
      <4> QED BY <4>1, Zenon DEF KeyOK, GoodCmds
    <3>3. q \in Seq(ToSet(q))
      BY <1>3, <3>1
    <3> HIDE DEF q, c
    <3>4. \A x \in ToSet(c) : x.type \in LobbyRequests
      <4>1. DOMAIN c = 1..Len(c)
        BY <3>2
      <4>2. Requests \subseteq LobbyRequests
        BY DEF LInv
      <4> QED BY <3>1, <4>1, <4>2 DEF ToSet
    <3>5. ToSet(q \o c) \subseteq ToSet(q) \cup ToSet(c)
      BY <3>2, <3>3, CatSteps, Zenon
    <3>6. \A x \in ToSet(q \o c) : x \in ToSet(q) \/ x.type \in LobbyRequests \cup {"EOF"}
      BY <3>4, <3>5
    <3> QED BY <1>2, <1>5, <3>1, <3>6, Zenon DEF q
  <2> QED BY <2>2, <2>3
<1> QED BY <1>2, <1>6, <1>7

(* Deciding on a join, moves and rematches do not come up. *)
LEMMA NoMatch ==
  ASSUME LInv, NEW s \in Sockets,
         \/ get_waiting(s) \/ join_decision(s) \/ start_players(s) \/ start_state(s)
         \/ set_players(s) \/ move(s) \/ move_players(s) \/ move_state(s)
         \/ post_game(s) \/ post_state(s) \/ post_players(s) \/ restart_state(s)
  PROVE  FALSE
<1> DEFINE match == {"get_waiting", "join_decision", "start_players", "start_state", "set_players",
                     "move", "move_players", "move_state", "post_game", "post_state",
                     "post_players", "restart_state"}
<1>1. PICK op \in match : Runs(s, op)
  BY Zenon DEF get_waiting, join_decision, start_players, start_state, set_players, move,
     move_players, move_state, post_game, post_state, post_players, restart_state
<1> DEFINE p == todo[s]
           row == RowsOf(s) # {}
<1>2. p # <<>> /\ p[1].op = op /\ p \in Seq(ToSet(p)) /\ Fits(s, p, row, Own(s), Covered(s))
  BY <1>1, AboutTo, Zenon
<1> HIDE DEF p, row
<1>3. At(s, p, row, Own(s), Covered(s))
  BY <1>2, Position, Zenon
<1>4. \/ p[1].op \in AwayOps \/ p[1].op \in CalmOps
      \/ p[1].op = "leave_game" \/ p[1].op = "read_target" \/ p[1].op = "remove_client"
      \/ p[1].op = "create_game" \/ p[1].op = "set_playing" \/ p[1].op = "scan"
      \/ p[1].op = "check_playing"
  BY <1>3, Zenon DEF At
<1> QED BY <1>1, <1>2, <1>4 DEF AwayOps, CalmOps

-----------------------------------------------------------------------------
(* The invariant is inductive. *)

(* A thread between its first and its last step. *)
LEMMA ServingAccounts ==
  ASSUME LInv, NEW s \in Sockets, Serving(s)
  PROVE  Accounts' /\ NoOpponent' /\ LobbyInboxes'
<1>1. UNCHANGED inbox
  BY ServingFrame, Zenon
<1>2. LobbyInboxes'
  BY <1>1 DEF LInv, LobbyInboxes
<1>3. CASE create_game(s)
  BY <1>2, <1>3, CreateGameKeeps
<1>4. CASE leave_game(s)
  BY <1>2, <1>4, LeaveGameKeeps
<1>5. CASE join_game(s)
  BY <1>2, <1>5, PlainActionsKeep, JoinDisturbsNobody
<1>6. CASE \/ client_set_playing(s) \/ client_is_playing(s) \/ send_message(s)
           \/ handle_list_game(s) \/ broadcast_list(s) \/ broadcast_collect(s)
           \/ check_owner(s) \/ notify_owner(s) \/ read_target(s) \/ scan(s)
  <2>1. Accounts'
    BY <1>6, SetPlayingKeeps, CheckPlayingKeeps, PlainActionsKeep, ReadTargetKeeps, ScanKeeps, Zenon
  <2>2. UNCHANGED games
    BY <1>6, Zenon DEF client_set_playing, client_is_playing, send_message, handle_list_game,
       broadcast_list, broadcast_collect, check_owner, notify_owner, read_target, scan, vars
  <2>3. NoOpponent'
    BY <2>2 DEF LInv, NoOpponent
  <2> QED BY <1>2, <2>1, <2>3
<1> QED BY <1>3, <1>4, <1>5, <1>6, NoMatch, Zenon DEF Serving

(* Every step of the server keeps the invariant. *)
LEMMA LInvInductive == LInv /\ [ServerNext]_svars => LInv'
<1> SUFFICES ASSUME LInv, [ServerNext]_svars PROVE LInv'
  OBVIOUS
<1>1. SInv' /\ (Requests \subseteq LobbyRequests)
  BY SInvInductive DEF LInv
<1>2. Accounts' /\ NoOpponent' /\ LobbyInboxes'
  <2>1. CASE UNCHANGED svars
    <3>1. UNCHANGED <<games, clients, open, todo, inbox>>
      BY <2>1 DEF svars
    <3>2. \A t \in Sockets : Undisturbed(t)
      BY <3>1, NothingDisturbed
    <3>3. ASSUME NEW t \in Sockets PROVE Account(t)'
      BY <3>1, <3>2, Elsewhere DEF LInv
    <3>4. NoOpponent' /\ LobbyInboxes'
      BY <3>1 DEF LInv, NoOpponent, LobbyInboxes
    <3> QED BY <3>3, <3>4, Zenon DEF Accounts
  <2>2. ASSUME UNCHANGED games PROVE NoOpponent'
    BY <2>2 DEF LInv, NoOpponent
  <2>3. ASSUME NEW u \in Users, Disconnect(u) \/ PressKey(u)
        PROVE  Accounts' /\ NoOpponent' /\ LobbyInboxes'
    <3>1. UNCHANGED games
      BY <2>3 DEF Disconnect, PressKey, vars
    <3> QED BY <2>2, <2>3, <3>1, UserAccounts
  <2>4. DOMAIN inbox = Sockets /\ ToSet(<<>>) = {}
        /\ \A t \in Sockets : \A m \in ToSet(inbox[t]) : m.type \in LobbyRequests \cup {"EOF"}
    BY ShortPrograms, Zenon DEF LInv, SInv, Inboxes, LobbyInboxes
  <2>5. ASSUME NEW s, inbox' = [inbox EXCEPT ![s] = <<>>] PROVE LobbyInboxes'
    <3>1. \A t \in Sockets : inbox'[t] = IF t = s THEN <<>> ELSE inbox[t]
      BY <2>4, <2>5
    <3> QED BY <2>4, <3>1, Zenon DEF LobbyInboxes
  <2>6. ASSUME NEW u \in Users, Connect(u)
        PROVE  Accounts' /\ NoOpponent' /\ LobbyInboxes'
    <3>1. UNCHANGED games
      BY <2>6 DEF Connect, vars
    <3>2. \E s : inbox' = [inbox EXCEPT ![s] = <<>>]
      BY <2>6, Zenon DEF Connect
    <3> QED BY <2>2, <2>5, <2>6, <3>1, <3>2, ConnectAccounts, Zenon
  <2>7. ASSUME NEW s \in Sockets, close(s)
        PROVE  Accounts' /\ NoOpponent' /\ LobbyInboxes'
    <3>1. UNCHANGED games /\ inbox' = [inbox EXCEPT ![s] = <<>>]
      BY <2>7 DEF close, vars
    <3> QED BY <2>2, <2>5, <2>7, <3>1, CloseAccounts, Zenon
  <2>8. ASSUME NEW s \in Sockets, add_client(s) \/ remove_client(s)
        PROVE  Accounts' /\ NoOpponent' /\ LobbyInboxes'
    <3>1. UNCHANGED games /\ UNCHANGED inbox
      BY <2>8, Zenon DEF add_client, remove_client, vars, wire
    <3>2. LobbyInboxes'
      BY <3>1 DEF LInv, LobbyInboxes
    <3> QED BY <2>2, <2>8, <3>1, <3>2, AddClientAccounts, RemoveClientAccounts, Zenon
  <2>9. ASSUME NEW s \in Sockets, Receive(s)
        PROVE  Accounts' /\ NoOpponent' /\ LobbyInboxes'
    <3>1. UNCHANGED games
      BY <2>9 DEF Receive, vars
    <3> QED BY <2>2, <2>9, <3>1, ReceiveAccounts, Zenon
  <2>10. CASE ServerNext
    <3>1. \/ \E u \in Users : Connect(u) \/ Disconnect(u) \/ PressKey(u)
          \/ \E s \in Sockets : Receive(s) \/ add_client(s) \/ remove_client(s) \/ close(s)
                                \/ Serving(s)
      BY <2>10, Zenon DEF ServerNext, Thread, Serving
    <3> QED BY <2>3, <2>6, <2>7, <2>8, <2>9, <3>1, ServingAccounts, Zenon
  <2> QED BY <2>1, <2>10
<1> QED BY <1>1, <1>2 DEF LInv, Accounts

(* It holds before anybody has connected. *)
LEMMA LInvInitial == ServerInit /\ (Requests \subseteq LobbyRequests) => LInv
<1> SUFFICES ASSUME ServerInit, Requests \subseteq LobbyRequests PROVE LInv
  OBVIOUS
<1>1. SInv
  BY SInvInitial
<1>2. DOMAIN games = {} /\ open = {} /\ \A s \in Sockets : inbox[s] = <<>>
  BY DEF ServerInit, Init
<1>3. NoOpponent /\ \A s \in Sockets : Account(s)
  BY <1>2 DEF NoOpponent, Account, Own
<1>4. LobbyInboxes
  <2>1. ToSet(<<>>) = {}
    BY ShortPrograms
  <2> QED BY <1>2, <2>1, Zenon DEF LobbyInboxes
<1> QED BY <1>1, <1>3, <1>4 DEF LInv

-----------------------------------------------------------------------------
(* What holds of the lobby. *)

(* As long as no join is decided on, every thread's program says what of    *)
(* its game its row does not record yet, or what it has still to leave.     *)
THEOREM LobbyInvariance == ServerSpec /\ (Requests \subseteq LobbyRequests) => []LInv
  BY LInvInitial, LInvInductive, PTL DEF ServerSpec

(* Disconnecting (server.c:169-188) leaves no game to a descriptor that is  *)
(* closed and may be given to somebody else: the id read from the row when  *)
(* it was freed is that of the only game the thread could own.              *)
THEOREM OwnersStayConnected ==
  ServerSpec /\ (Requests \subseteq LobbyRequests) => []OwnerConnected
<1>1. LInv => OwnerConnected
  <2> SUFFICES ASSUME LInv, NEW id \in DOMAIN games
               PROVE  games[id].player_x_socket \in open \cup {NoSocket}
    BY DEF OwnerConnected
  <2>1. games[id].player_x_socket \in Sockets \cup {NoSocket}
    BY DEF LInv, SInv, IInv, TypeOK, Game, Seats
  <2>2. ASSUME NEW s \in Sockets, games[id].player_x_socket = s PROVE s \in open
    BY <2>2 DEF LInv, Account, Own
  <2> QED BY <2>1, <2>2
<1> QED BY <1>1, LobbyInvariance, PTL

(* Once the handlers have returned, whoever owns a game is marked as        *)
(* playing it (client_handler.c:167, 579): a second game cannot be created  *)
(* between the check and the mark, nor a game kept after the mark is gone.  *)
THEOREM OwnersArePlaying ==
  ServerSpec /\ (Requests \subseteq LobbyRequests) => []SeatedArePlaying
<1>1. LInv => SeatedArePlaying
  <2> SUFFICES ASSUME LInv, Quiet, NEW id \in DOMAIN games, NEW s \in open,
                      Seated(games[id], s)
               PROVE  GameIdOf(s) = id /\ Playing(s)
    BY DEF SeatedArePlaying
  <2>1. s \in Sockets /\ s # NoSocket
    BY SocketAssumption DEF LInv, SInv, ServerTypeOK
  <2>2. id \in Own(s)
    BY <2>1 DEF Seated, LInv, NoOpponent, Own
  <2>3. Covered(s)
    BY <2>1, IdleIsCovered, Zenon DEF Quiet
  <2> QED BY <2>2, <2>3, Zenon DEF Covered
<1> QED BY <1>1, LobbyInvariance, PTL
=============================================================================
