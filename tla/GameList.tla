------------------------------ MODULE GameList ------------------------------
(***************************************************************************)
(* The game manager's linked list and its locks (server/src/game.c), one   *)
(* shared access or lock operation per step.                               *)
(*                                                                         *)
(* Connection threads create games, look a game up and change it, leave    *)
(* games, list them and scan them for a departing owner.  Every lookup is  *)
(* hand-over-hand: gm->lock is held while the list is walked and until the *)
(* game's own lock is taken.  Memory is modelled by the addresses Nodes: a *)
(* freed node can be allocated again.  Of a game only the id and two seats *)
(* are kept: the owner (player_x_socket) and the guest (player_o_socket or *)
(* waiting_player_socket).  The game's state is left out: a game without a *)
(* guest counts as open, and any answer of a seated client may be the one  *)
(* that settles who goes on.                                               *)
(***************************************************************************)
EXTENDS Integers, Sequences, FiniteSets

CONSTANTS
  Threads,   \* connection threads, which stand for the socket they serve
  Nodes,     \* addresses malloc can return for a Game
  NULL,      \* the null pointer, and the absence of a thread
  MaxId,     \* bound on the number of games ever created
  ListMax,   \* entries a listing can hold (10 in the program)
  ScanMax    \* games a departing client's scan can collect (128 in the program)

ASSUME NullAssumption == NULL \notin Nodes /\ NULL \notin Threads
ASSUME NodesAssumption == IsFiniteSet(Nodes)
ASSUME BoundAssumption == MaxId \in Nat \ {0} /\ ListMax \in Nat /\ ScanMax \in Nat

VARIABLES
  head, tail,    \* gm->head, gm->tail
  gm_lock,       \* the holder of gm->lock
  next,          \* node -> node or NULL
  id,            \* node -> its game id
  owner, guest,  \* node -> thread or NULL
  lock,          \* node -> the holder of g->lock
  live,          \* the allocated nodes
  next_game_id,  \* the atomic counter
  th             \* thread -> its local state

vars == <<head, tail, gm_lock, next, id, owner, guest, lock, live, next_game_id, th>>
heap == <<next, id, owner, guest, lock, live, next_game_id>>

Ids == 0..(MaxId - 1)
Ops == {"create", "join", "join_decision", "post_game", "leave", "list", "scan"}
Lookups == {"join", "join_decision", "post_game", "leave"}
Changes == {"join", "join_decision", "post_game"}

Local == [pc     : {"idle", "lock_gm", "append", "set_tail", "walk", "lock_g", "handoff",
                    "change", "unlock_g", "vacate", "release_g", "unlink", "fix_tail",
                    "unlock_freed", "free", "read", "unlock_gm", "read_id"},
          op     : Ops,
          target : Ids,                 \* the game looked up, or the one a scan spares
          prev   : Nodes \cup {NULL},
          curr   : Nodes \cup {NULL},
          found  : Seq(Ids)]            \* ids listed, or still to be left after a scan

Idle == [pc |-> "idle", op |-> "list", target |-> 0, prev |-> NULL, curr |-> NULL,
         found |-> <<>>]

Init ==
  /\ head = NULL /\ tail = NULL /\ gm_lock = NULL
  /\ next = [n \in Nodes |-> NULL]
  /\ id = [n \in Nodes |-> 0]
  /\ owner = [n \in Nodes |-> NULL]
  /\ guest = [n \in Nodes |-> NULL]
  /\ lock = [n \in Nodes |-> NULL]
  /\ live = {}
  /\ next_game_id = 0
  /\ th = [t \in Threads |-> Idle]

At(t, pc) == th[t].pc = pc
Goto(t, pc) == th' = [th EXCEPT ![t].pc = pc]

-----------------------------------------------------------------------------
\* Mutant: the counter is read again after the increment.
AllocateNextId(t) ==
  /\ At(t, "idle")
  /\ next_game_id < MaxId
  /\ \E n \in Nodes \ live :
       /\ live' = live \cup {n}
       /\ next' = [next EXCEPT ![n] = NULL]
       /\ id' = [id EXCEPT ![n] = next_game_id + 1]
       /\ owner' = [owner EXCEPT ![n] = t]
       /\ guest' = [guest EXCEPT ![n] = NULL]
       /\ lock' = [lock EXCEPT ![n] = NULL]
       /\ th' = [th EXCEPT ![t] = [Idle EXCEPT !.pc = "lock_gm", !.op = "create",
                                               !.curr = n]]
  /\ next_game_id' = next_game_id + 1
  /\ UNCHANGED <<head, tail, gm_lock>>

(* game_manager_create_game up to the first lock: the node is private.  The *)
(* id is drawn before gm->lock is taken.                                    *)
Allocate(t) ==
  /\ At(t, "idle")
  /\ next_game_id < MaxId
  /\ \E n \in Nodes \ live :
       /\ live' = live \cup {n}
       /\ next' = [next EXCEPT ![n] = NULL]
       /\ id' = [id EXCEPT ![n] = next_game_id]
       /\ owner' = [owner EXCEPT ![n] = t]
       /\ guest' = [guest EXCEPT ![n] = NULL]
       /\ lock' = [lock EXCEPT ![n] = NULL]
       /\ th' = [th EXCEPT ![t] = [Idle EXCEPT !.pc = "lock_gm", !.op = "create",
                                               !.curr = n]]
  /\ next_game_id' = next_game_id + 1
  /\ UNCHANGED <<head, tail, gm_lock>>

(* Any other API function is entered. *)
Call(t) ==
  /\ At(t, "idle")
  /\ \E op \in Ops \ {"create"}, target \in Ids :
       /\ op = "list" => target = 0
       /\ th' = [th EXCEPT ![t] = [Idle EXCEPT !.pc = "lock_gm", !.op = op,
                                               !.target = target]]
  /\ UNCHANGED <<head, tail, gm_lock, heap>>

LockManager(t) ==
  /\ At(t, "lock_gm")
  /\ gm_lock = NULL
  /\ gm_lock' = t
  /\ th' = IF th[t].op = "create"
           THEN [th EXCEPT ![t].pc = "append"]
           ELSE [th EXCEPT ![t].pc = "walk", ![t].prev = NULL, ![t].curr = head]
  /\ UNCHANGED <<head, tail, heap>>

UnlockManager(t) ==
  /\ At(t, "unlock_gm")
  /\ gm_lock' = NULL
  /\ CASE th[t].op = "create" -> Goto(t, "read_id")
       [] th[t].op \in {"scan", "leave"} /\ th[t].found # <<>> ->
            \* game_manager_cleanup_creator_games leaves the games it collected
            th' = [th EXCEPT ![t] = [Idle EXCEPT !.pc = "lock_gm", !.op = "leave",
                                                 !.target = Head(th[t].found),
                                                 !.found = Tail(th[t].found)]]
       [] OTHER -> th' = [th EXCEPT ![t] = Idle]
  /\ UNCHANGED <<head, tail, heap>>

(* game_manager_create_game reads the id of the new game, with no lock.  By *)
(* then others may have joined, taken over, left and freed the game: what   *)
(* is read is the caller's business and not modelled.                       *)
ReadId(t) ==
  /\ At(t, "read_id")
  /\ th' = [th EXCEPT ![t] = Idle]
  /\ UNCHANGED <<head, tail, gm_lock, heap>>

(* Appending: tail->next (or head) and then tail. *)
AppendNode(t) ==
  /\ At(t, "append")
  /\ IF head = NULL
     THEN head' = th[t].curr /\ UNCHANGED next
     ELSE next' = [next EXCEPT ![tail] = th[t].curr] /\ UNCHANGED head
  /\ Goto(t, "set_tail")
  /\ UNCHANGED <<tail, gm_lock, id, owner, guest, lock, live, next_game_id>>

SetTail(t) ==
  /\ At(t, "set_tail")
  /\ tail' = th[t].curr
  /\ Goto(t, "unlock_gm")
  /\ UNCHANGED <<head, gm_lock, heap>>

-----------------------------------------------------------------------------
\* Mutant: the loop does not advance.
WalkLookupStays(t) ==
  LET curr == th[t].curr IN
  /\ At(t, "walk") /\ th[t].op \in Lookups
  /\ CASE curr = NULL -> Goto(t, "unlock_gm")
       [] curr # NULL /\ id[curr] = th[t].target -> Goto(t, "lock_g")
       [] OTHER -> th' = [th EXCEPT ![t].prev = curr]
  /\ UNCHANGED <<head, tail, gm_lock, heap>>

(* One iteration of a loop over the list. *)
WalkLookup(t) ==
  LET curr == th[t].curr IN
  /\ At(t, "walk") /\ th[t].op \in Lookups
  /\ CASE curr = NULL -> Goto(t, "unlock_gm")
       [] curr # NULL /\ id[curr] = th[t].target -> Goto(t, "lock_g")
       [] OTHER -> th' = [th EXCEPT ![t].prev = curr, ![t].curr = next[curr]]
  /\ UNCHANGED <<head, tail, gm_lock, heap>>

\* Mutant: one entry more than the listing can hold.
WalkListTooFar(t) ==
  /\ At(t, "walk") /\ th[t].op = "list"
  /\ IF th[t].curr = NULL \/ Len(th[t].found) > ListMax
     THEN Goto(t, "unlock_gm")
     ELSE Goto(t, "lock_g")
  /\ UNCHANGED <<head, tail, gm_lock, heap>>

WalkList(t) ==
  /\ At(t, "walk") /\ th[t].op = "list"
  /\ IF th[t].curr = NULL \/ Len(th[t].found) >= ListMax
     THEN Goto(t, "unlock_gm")
     ELSE Goto(t, "lock_g")
  /\ UNCHANGED <<head, tail, gm_lock, heap>>

(* game_manager_cleanup_creator_games reads the owner of every game without *)
(* taking the game's lock.                                                  *)
WalkScan(t) ==
  LET curr == th[t].curr IN
  /\ At(t, "walk") /\ th[t].op = "scan"
  /\ IF curr = NULL \/ Len(th[t].found) >= ScanMax
     THEN Goto(t, "unlock_gm")
     ELSE th' = [th EXCEPT ![t].curr = next[curr],
                           ![t].found = IF owner[curr] = t /\ id[curr] # th[t].target
                                        THEN Append(@, id[curr]) ELSE @]
  /\ UNCHANGED <<head, tail, gm_lock, heap>>

\* Mutant: leaving does not wait for the lock of the game.
LockGameUnlessLeaving(t) ==
  /\ At(t, "lock_g")
  /\ lock[th[t].curr] = NULL \/ th[t].op = "leave"
  /\ lock' = [lock EXCEPT ![th[t].curr] = t]
  /\ Goto(t, CASE th[t].op \in Changes -> "handoff"
               [] th[t].op = "leave"   -> "vacate"
               [] OTHER                -> "read")
  /\ UNCHANGED <<head, tail, gm_lock, next, id, owner, guest, live, next_game_id>>

LockGame(t) ==
  /\ At(t, "lock_g")
  /\ lock[th[t].curr] = NULL
  /\ lock' = [lock EXCEPT ![th[t].curr] = t]
  /\ Goto(t, CASE th[t].op \in Changes -> "handoff"
               [] th[t].op = "leave"   -> "vacate"
               [] OTHER                -> "read")
  /\ UNCHANGED <<head, tail, gm_lock, next, id, owner, guest, live, next_game_id>>

\* Mutant: both locks are released.
HandoffBoth(t) ==
  /\ At(t, "handoff")
  /\ gm_lock' = NULL
  /\ lock' = [lock EXCEPT ![th[t].curr] = NULL]
  /\ Goto(t, "change")
  /\ UNCHANGED <<head, tail, next, id, owner, guest, live, next_game_id>>

(* The manager is released as soon as the game is locked. *)
Handoff(t) ==
  /\ At(t, "handoff")
  /\ gm_lock' = NULL
  /\ Goto(t, "change")
  /\ UNCHANGED <<head, tail, heap>>

(* What a call does to the seats of a game: a join takes the free one.       *)
JoinSeats(t, n) ==
  /\ th[t].op = "join" /\ guest[n] = NULL
  /\ guest' = [guest EXCEPT ![n] = t]
  /\ UNCHANGED owner

\* A rejection frees it.  Nobody looks at who rejects.
DecisionSeats(t, n) ==
  /\ th[t].op = "join_decision" /\ guest[n] # NULL
  /\ guest' = [guest EXCEPT ![n] = NULL]
  /\ UNCHANGED owner

(* The answer of a seated client may settle that one of the two goes on, who *)
(* then owns the game alone; if that one has left, nobody does.  The state   *)
(* of the game is not looked at.                                             *)
PostGameSeats(t, n) ==
  /\ th[t].op = "post_game" /\ t \in {owner[n], guest[n]}
  /\ \E s \in {owner[n], guest[n]} : owner' = [owner EXCEPT ![n] = s]
  /\ guest' = [guest EXCEPT ![n] = NULL]

(* Accepting a join, which anyone may do, an answer that settles nothing and *)
(* a call refused leave the seats as they are.                               *)
Change(t) ==
  LET n == th[t].curr IN
  /\ At(t, "change")
  /\ \/ JoinSeats(t, n) \/ DecisionSeats(t, n) \/ PostGameSeats(t, n)
     \/ (th[t].op = "join" => guest[n] # NULL) /\ UNCHANGED <<owner, guest>>
  /\ Goto(t, "unlock_g")
  /\ UNCHANGED <<head, tail, gm_lock, next, id, lock, live, next_game_id>>

UnlockGame(t) ==
  /\ At(t, "unlock_g")
  /\ lock' = [lock EXCEPT ![th[t].curr] = NULL]
  /\ th' = [th EXCEPT ![t] = Idle]
  /\ UNCHANGED <<head, tail, gm_lock, next, id, owner, guest, live, next_game_id>>

(* game_manager_list_games copies a game that is open. *)
Read(t) ==
  LET n == th[t].curr IN
  /\ At(t, "read")
  /\ lock' = [lock EXCEPT ![n] = NULL]
  /\ th' = [th EXCEPT ![t].pc = "walk", ![t].curr = next[n],
                      ![t].found = IF guest[n] = NULL THEN Append(@, id[n]) ELSE @]
  /\ UNCHANGED <<head, tail, gm_lock, next, id, owner, guest, live, next_game_id>>

-----------------------------------------------------------------------------
(* game_manager_leave_game keeps gm->lock to its end. *)
Vacate(t) ==
  LET n == th[t].curr
      o == IF owner[n] = t THEN NULL ELSE owner[n]
      g == IF owner[n] # t /\ guest[n] = t THEN NULL ELSE guest[n]
  IN
  /\ At(t, "vacate")
  /\ owner' = [owner EXCEPT ![n] = o]
  /\ guest' = [guest EXCEPT ![n] = g]
  /\ Goto(t, IF t \in {owner[n], guest[n]} /\ o = NULL /\ g = NULL
             THEN "unlink" ELSE "release_g")
  /\ UNCHANGED <<head, tail, gm_lock, next, id, lock, live, next_game_id>>

\* Mutant: a caller who has no seat in the game returns without releasing it.
ReleaseIfSeated(t) ==
  LET n == th[t].curr IN
  /\ At(t, "release_g")
  /\ lock' = IF owner[n] = NULL \/ guest[n] = NULL THEN [lock EXCEPT ![n] = NULL] ELSE lock
  /\ Goto(t, "unlock_gm")
  /\ UNCHANGED <<head, tail, gm_lock, next, id, owner, guest, live, next_game_id>>

ReleaseGame(t) ==
  /\ At(t, "release_g")
  /\ lock' = [lock EXCEPT ![th[t].curr] = NULL]
  /\ Goto(t, "unlock_gm")
  /\ UNCHANGED <<head, tail, gm_lock, next, id, owner, guest, live, next_game_id>>

\* Mutant: removing the first game empties the list.
UnlinkAll(t) ==
  LET n == th[t].curr IN
  /\ At(t, "unlink")
  /\ IF th[t].prev # NULL
     THEN next' = [next EXCEPT ![th[t].prev] = next[n]] /\ UNCHANGED head
     ELSE head' = NULL /\ UNCHANGED next
  /\ Goto(t, "fix_tail")
  /\ UNCHANGED <<tail, gm_lock, id, owner, guest, lock, live, next_game_id>>

Unlink(t) ==
  LET n == th[t].curr IN
  /\ At(t, "unlink")
  /\ IF th[t].prev # NULL
     THEN next' = [next EXCEPT ![th[t].prev] = next[n]] /\ UNCHANGED head
     ELSE head' = next[n] /\ UNCHANGED next
  /\ Goto(t, "fix_tail")
  /\ UNCHANGED <<tail, gm_lock, id, owner, guest, lock, live, next_game_id>>

\* Mutant: the tail pointer is not corrected.
FixNoTail(t) ==
  /\ At(t, "fix_tail")
  /\ Goto(t, "unlock_freed")
  /\ UNCHANGED <<head, tail, gm_lock, heap>>

FixTail(t) ==
  /\ At(t, "fix_tail")
  /\ tail' = IF tail = th[t].curr THEN th[t].prev ELSE tail
  /\ Goto(t, "unlock_freed")
  /\ UNCHANGED <<head, gm_lock, heap>>

UnlockFreed(t) ==
  /\ At(t, "unlock_freed")
  /\ lock' = [lock EXCEPT ![th[t].curr] = NULL]
  /\ Goto(t, "free")
  /\ UNCHANGED <<head, tail, gm_lock, next, id, owner, guest, live, next_game_id>>

(* What a freed node holds is of no interest as long as NoUseAfterFree      *)
(* holds: it is given the contents of a node never used.                    *)
Free(t) ==
  LET n == th[t].curr IN
  /\ At(t, "free")
  /\ live' = live \ {n}
  /\ next' = [next EXCEPT ![n] = NULL]
  /\ id' = [id EXCEPT ![n] = 0]
  /\ Goto(t, "unlock_gm")
  /\ UNCHANGED <<head, tail, gm_lock, owner, guest, lock, next_game_id>>

-----------------------------------------------------------------------------
\* A step of a function already entered.
Continue(t) ==
  \/ LockManager(t) \/ UnlockManager(t) \/ ReadId(t) \/ AppendNode(t) \/ SetTail(t)
  \/ WalkLookup(t) \/ WalkList(t) \/ WalkScan(t)
  \/ LockGame(t) \/ Handoff(t) \/ Change(t) \/ UnlockGame(t) \/ Read(t)
  \/ Vacate(t) \/ ReleaseGame(t) \/ Unlink(t) \/ FixTail(t) \/ UnlockFreed(t) \/ Free(t)

Next == \E t \in Threads : Allocate(t) \/ Call(t) \/ Continue(t)

Spec == Init /\ [][Next]_vars

\* A running thread is not suspended for ever inside an API function.
Fairness == \A t \in Threads : WF_vars(Continue(t))
FairSpec == Spec /\ Fairness

-----------------------------------------------------------------------------
(* Type correctness: pointers are null or addresses of games, locks are free *)
(* or held by a thread, and every id was drawn from the counter.             *)
TypeOK ==
  /\ {head, tail} \subseteq Nodes \cup {NULL}
  /\ gm_lock \in Threads \cup {NULL}
  /\ next \in [Nodes -> Nodes \cup {NULL}]
  /\ id \in [Nodes -> Ids]
  /\ owner \in [Nodes -> Threads \cup {NULL}]
  /\ guest \in [Nodes -> Threads \cup {NULL}]
  /\ lock \in [Nodes -> Threads \cup {NULL}]
  /\ live \subseteq Nodes
  /\ next_game_id \in 0..MaxId
  /\ th \in [Threads -> Local]

\* The node reached from head after k steps.
Step[k \in 0..Cardinality(Nodes)] ==
  IF k = 0 THEN head ELSE IF Step[k - 1] = NULL THEN NULL ELSE next[Step[k - 1]]

\* The nodes of the list, in list order.
Chain == [k \in 1..Cardinality({k \in 1..Cardinality(Nodes) : Step[k - 1] # NULL}) |-> Step[k - 1]]
Elements(s) == {s[i] : i \in 1..Len(s)}

\* Nodes allocated by a thread that has not linked them yet.
Private == {n \in Nodes : \E t \in Threads :
              th[t].op = "create" /\ th[t].pc \in {"lock_gm", "append"} /\ th[t].curr = n}

(* Whenever the manager's lock is free the list is intact: it ends, its tail  *)
(* pointer is its last node, and it holds exactly the games allocated and not *)
(* freed, each under an id of its own.  Nothing is lost, leaked or looped by  *)
(* interleaved creations and removals (game.c:230-237, 423-437).              *)
ListWellFormed ==
  gm_lock = NULL =>
    /\ Step[Cardinality(Nodes)] = NULL
    /\ Elements(Chain) = live \ Private
    /\ tail = IF Chain = <<>> THEN NULL ELSE Chain[Len(Chain)]
    /\ \A m, n \in live : m # n => id[m] # id[n]

\* The nodes the next step of thread t reads, writes, locks or unlocks.
Touches(t) ==
  {n \in Nodes :
     \/ n = th[t].curr /\ th[t].pc \in {"walk", "lock_g", "change", "unlock_g", "read", "vacate",
                                        "release_g", "unlink", "unlock_freed", "free", "read_id"}
     \/ n = th[t].prev /\ th[t].pc = "unlink"
     \/ n = tail /\ th[t].pc = "append" /\ head # NULL}

(* No thread follows a pointer to a freed game, although threads release the  *)
(* manager's lock while they still use the game and another thread may free   *)
(* it, and reuse its memory, at the same time.  The one exception is a        *)
(* creator, which reads the id of its game after unlocking (game.c:240):      *)
(* nothing in game.c:312-317 and 517-541 keeps a guest from being accepted,   *)
(* taking the game over, leaving and so freeing it before that.               *)
NoUseAfterFree == \A t \in Threads : Touches(t) \subseteq live \/ At(t, "read_id")

\* The next step of thread t writes the seats of node n, or reads them.
Writes(t, n) == th[t].curr = n /\ th[t].pc \in {"change", "vacate"}
Scans(t, n) == th[t].curr = n /\ At(t, "walk") /\ th[t].op = "scan"
Reads(t, n) == (th[t].curr = n /\ At(t, "read")) \/ Scans(t, n)

(* Threads use the seats of a game in turn, although some hold the lock of  *)
(* the manager and some only that of the game.  The one exception is the    *)
(* scan for the games of a departing client (game.c:164): holding no game's *)
(* lock, it can read seats that a thread is changing which no longer holds  *)
(* the manager's.                                                           *)
OnlyScanRaces ==
  \A t, u \in Threads, n \in Nodes :
    t # u /\ Writes(t, n) /\ (Writes(u, n) \/ Reads(u, n)) => Scans(u, n) /\ At(t, "change")

\* The number of games open to joiners among the first j of the list.
OpenUpTo(j) == Cardinality({i \in 1..j : guest[Chain[i]] = NULL})

\* The games open to joiners, in list order, cut off at the size of a listing.
OpenIds ==
  LET open == OpenUpTo(Len(Chain))
      nth(k) == CHOOSE j \in 1..Len(Chain) : guest[Chain[j]] = NULL /\ OpenUpTo(j) = k
  IN  [k \in 1..(IF open < ListMax THEN open ELSE ListMax) |-> id[Chain[nth(k)]]]

(* A listing locks the games one after the other, yet what it holds when it   *)
(* releases the manager is the exact state of all of them at that moment: a   *)
(* game it has passed can no longer be reached by another thread.             *)
SnapshotIsExact ==
  \A t \in Threads : At(t, "unlock_gm") /\ th[t].op = "list" => th[t].found = OpenIds

\* Thread t waits for a lock that is held.
Blocked(t) == \/ At(t, "lock_gm") /\ gm_lock # NULL
              \/ At(t, "lock_g") /\ lock[th[t].curr] # NULL

(* The two levels of locks never make everyone wait for everyone: as long as *)
(* a thread is inside an API function, one such thread waits for no lock.    *)
(* In particular no path of any function, refused calls and games not found  *)
(* included, returns with a lock held (game.c:387-443 for one that has four).*)
NoDeadlock ==
  (\E t \in Threads : ~At(t, "idle")) => \E t \in Threads : ~At(t, "idle") /\ ~Blocked(t)

(* A thread that holds the manager's lock, if need be waiting for the lock of *)
(* a game, always gets to release it: no order of lookups, listings and       *)
(* removals makes the threads wait for each other.                            *)
ManagerReleased == \A t \in Threads : gm_lock = t ~> gm_lock # t

-----------------------------------------------------------------------------
\* A game whose last seat was vacated is gone, although it is still linked.
Departing(n) == \E t \in Threads : At(t, "unlink") /\ th[t].curr = n

\* The list without such a game; there is at most one, its remover having gm->lock.
Kept ==
  LET list == Chain
      gone == {i \in 1..Len(list) : Departing(list[i])}
      at == CHOOSE i \in gone : TRUE
  IN  IF gone = {} THEN list
      ELSE [i \in 1..(Len(list) - 1) |-> IF i < at THEN list[i] ELSE list[i + 1]]

AbstractTable ==
  LET kept == Kept
  IN  [i \in 1..Len(kept) |-> [id |-> id[kept[i]], owner |-> owner[kept[i]],
                               guest |-> guest[kept[i]]]]

Table == INSTANCE GameTable WITH None <- NULL, table <- AbstractTable

(* The list with its locks behaves like the table of GameTable, on which each *)
(* API function is one indivisible step.                                      *)
ImplementsTable == Table!Spec
=============================================================================
