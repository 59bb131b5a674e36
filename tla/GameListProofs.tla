--------------------------- MODULE GameListProofs ---------------------------
(***************************************************************************)
(* Proofs about GameList for every number of threads and of games, every   *)
(* size of a listing and every order of steps.                             *)
(*                                                                         *)
(* The list is described by a witness: a sequence L of m nodes that head   *)
(* and next spell out.  The invariant says that there is one, how the      *)
(* threads stand to it, and who holds which lock.                          *)
(***************************************************************************)
EXTENDS GameList, TLAPS, FiniteSetTheorems, WellFoundedInduction

-----------------------------------------------------------------------------
(* The inductive invariant, in parts. *)

\* Where a thread holds gm->lock, and where the lock of its current game.
Holding == {"append", "set_tail", "walk", "lock_g", "handoff", "vacate", "release_g", "unlink",
            "fix_tail", "unlock_freed", "free", "read", "unlock_gm"}
Locking == {"handoff", "change", "unlock_g", "read", "vacate", "release_g", "unlink", "fix_tail",
            "unlock_freed"}
Removing == {"fix_tail", "unlock_freed", "free"}
Leaving == {"vacate", "release_g", "unlink", "fix_tail", "unlock_freed", "free"}

\* The program counter fits the function being executed.
OpFits == \A t \in Threads :
  /\ th[t].pc \in {"append", "set_tail", "read_id"} => th[t].op = "create"
  /\ th[t].pc \in {"walk", "lock_g"} => th[t].op # "create"
  /\ th[t].pc = "lock_g" => th[t].op # "scan"
  /\ th[t].pc \in {"handoff", "change", "unlock_g"} => th[t].op \in Changes
  /\ th[t].pc \in Leaving => th[t].op = "leave"
  /\ th[t].pc = "read" => th[t].op = "list"
  /\ th[t].pc = "lock_gm" /\ th[t].op = "list" => th[t].found = <<>>

\* Who holds the locks.
LocksHeld == \A t \in Threads :
  /\ gm_lock = t <=> th[t].pc \in Holding
  /\ th[t].pc \in Locking => th[t].curr \in Nodes /\ lock[th[t].curr] = t

\* Ids are drawn once.
IdsDrawn ==
  /\ \A n \in live : id[n] < next_game_id
  /\ \A m, n \in live : m # n => id[m] # id[n]

\* A game is its creator's, and empty, until it is linked.  After that it is anybody's.
Created == \A t \in Threads : th[t].op = "create" /\ th[t].pc \in {"lock_gm", "append"} =>
  /\ th[t].curr \in live /\ owner[th[t].curr] = t
  /\ guest[th[t].curr] = NULL /\ next[th[t].curr] = NULL

\* A game on its way out has no owner.
Abandoned == \A t \in Threads : th[t].pc \in {"unlink"} \cup Removing =>
  th[t].curr \in live /\ owner[th[t].curr] = NULL

\* Games allocated that are not linked yet, or no longer.
Hidden(n) == \E t \in Threads :
  /\ th[t].curr = n
  /\ \/ th[t].op = "create" /\ th[t].pc \in {"lock_gm", "append"}
     \/ th[t].pc \in Removing

InList(L, m, n) == \E i \in 1..m : L[i] = n

\* head and next spell out the nodes L[1], ..., L[m], all different.
Linked(L, m) ==
  /\ m \in Nat /\ L \in [1..m -> Nodes]
  /\ \A i, j \in 1..m : L[i] = L[j] => i = j
  /\ head = IF m = 0 THEN NULL ELSE L[1]
  /\ \A i \in 1..m : next[L[i]] = IF i = m THEN NULL ELSE L[i + 1]

\* They are the games allocated and not hidden.
Members(L, m) == \A n \in Nodes : InList(L, m, n) <=> n \in live /\ ~Hidden(n)

\* The tail is the last of them, but for the two steps after which it is corrected.
LastOf(L, m) == IF m = 0 THEN NULL ELSE L[m]
TailFits(L, m) ==
  /\ (\A t \in Threads : th[t].pc \notin {"set_tail", "fix_tail"}) => tail = LastOf(L, m)
  /\ \A t \in Threads : th[t].pc = "set_tail" => m # 0 /\ th[t].curr = L[m]
  /\ \A t \in Threads : th[t].pc = "fix_tail" =>
       LastOf(L, m) = IF tail = th[t].curr THEN th[t].prev ELSE tail

\* Where the threads are in the list.
PlacedAt(L, m, t) ==
  /\ th[t].pc \in {"lock_g", "handoff", "change", "unlock_g", "read", "vacate", "release_g",
                   "unlink"} => InList(L, m, th[t].curr)
  /\ th[t].pc = "walk" => th[t].curr = NULL \/ InList(L, m, th[t].curr)
  /\ th[t].pc \in {"walk", "lock_g", "vacate", "unlink"} /\ th[t].op \in Lookups =>
       IF th[t].prev = NULL THEN th[t].curr = head
       ELSE InList(L, m, th[t].prev) /\ next[th[t].prev] = th[t].curr
Placed(L, m) == \A t \in Threads : PlacedAt(L, m, t)

ListInv(L, m) == Linked(L, m) /\ Members(L, m) /\ TailFits(L, m) /\ Placed(L, m)

\* What a listing has collected when it has passed the first i - 1 games.
Upto(L, j) == Cardinality({i \in 1..j : guest[L[i]] = NULL})
Collected(L, m, t, i) ==
  /\ th[t].curr = IF i = m + 1 THEN NULL ELSE L[i]
  /\ \A j \in 1..(i - 1) : lock[L[j]] = NULL
  /\ Len(th[t].found) = Upto(L, i - 1)
  /\ Len(th[t].found) <= ListMax
  /\ \A k \in 1..Len(th[t].found) : \E j \in 1..(i - 1) :
       guest[L[j]] = NULL /\ Upto(L, j) = k /\ th[t].found[k] = id[L[j]]
  /\ th[t].pc \in {"lock_g", "read"} => Len(th[t].found) < ListMax
  /\ th[t].pc = "unlock_gm" => i = m + 1 \/ Len(th[t].found) = ListMax

Listings(L, m) == \A t \in Threads :
  th[t].op = "list" /\ th[t].pc \in {"walk", "lock_g", "read", "unlock_gm"} =>
    \E i \in 1..(m + 1) : Collected(L, m, t, i)

Base == TypeOK /\ OpFits /\ LocksHeld /\ IdsDrawn /\ Created /\ Abandoned

-----------------------------------------------------------------------------
(* What a step does to the local state of its thread. *)

\* Only thread t moves, to the point p; or also keeps the rest of its local state.
MovesTo(t, p) ==
  /\ th' \in [Threads -> Local] /\ th'[t] \in Local /\ th'[t].pc = p
  /\ \A u \in Threads : u # t => th'[u] = th[u]
KeepsArgs(t) ==
  th'[t].op = th[t].op /\ th'[t].target = th[t].target /\ th'[t].found = th[t].found
KeepsPlace(t) == th'[t].prev = th[t].prev /\ th'[t].curr = th[t].curr

\* The points of a thread's program.
Points == Holding \cup Locking \cup {"idle", "lock_gm", "read_id"}

(* Goto changes the program counter and nothing else. *)
LEMMA GotoMoves ==
  ASSUME TypeOK, NEW t \in Threads, NEW p \in Points, Goto(t, p)
  PROVE  MovesTo(t, p) /\ KeepsArgs(t) /\ KeepsPlace(t)
<1>1. th \in [Threads -> Local] /\ th[t] \in Local
  BY DEF TypeOK
<1>2. [th[t] EXCEPT !.pc = p] \in Local
  BY <1>1 DEF Local, Points, Holding, Locking
<1>3. th' = [th EXCEPT ![t] = [th[t] EXCEPT !.pc = p]]
  BY DEF Goto
<1> QED
  BY <1>1, <1>2, <1>3 DEF MovesTo, KeepsArgs, KeepsPlace, Local

(* Giving a thread a new local state. *)
LEMMA SetMoves ==
  ASSUME TypeOK, NEW t \in Threads, NEW r \in Local, th' = [th EXCEPT ![t] = r]
  PROVE  MovesTo(t, r.pc) /\ th'[t] = r
<1>1. th \in [Threads -> Local] /\ th[t] \in Local
  BY DEF TypeOK
<1> QED
  BY <1>1 DEF MovesTo

(* The local state of a thread that returns. *)
LEMMA ReturnMoves ==
  ASSUME TypeOK, NEW t \in Threads, th' = [th EXCEPT ![t] = Idle]
  PROVE  MovesTo(t, "idle")
<1>1. 0 \in Ids /\ <<>> \in Seq(Ids)
  BY BoundAssumption DEF Ids
<1>2. Idle \in Local /\ Idle.pc = "idle"
  BY <1>1 DEF Local, Idle, Ops
<1> QED
  BY <1>2, SetMoves

(* What each action does to the local state of its thread. *)

(* Entering game_manager_create_game: the thread has a node of its own. *)
LEMMA AllocateMoves ==
  ASSUME TypeOK, NEW t \in Threads, Allocate(t)
  PROVE  /\ th[t].pc = "idle"
         /\ \E n \in Nodes \ live :
              /\ MovesTo(t, "lock_gm")
              /\ th'[t].op = "create" /\ th'[t].curr = n
              /\ live' = live \cup {n}
              /\ next' = [next EXCEPT ![n] = NULL]
              /\ id' = [id EXCEPT ![n] = next_game_id]
              /\ owner' = [owner EXCEPT ![n] = t]
              /\ guest' = [guest EXCEPT ![n] = NULL]
              /\ lock' = [lock EXCEPT ![n] = NULL]
         /\ next_game_id < MaxId /\ next_game_id' = next_game_id + 1
         /\ UNCHANGED <<head, tail, gm_lock>>
<1>1. PICK n \in Nodes \ live :
        /\ live' = live \cup {n}
        /\ next' = [next EXCEPT ![n] = NULL]
        /\ id' = [id EXCEPT ![n] = next_game_id]
        /\ owner' = [owner EXCEPT ![n] = t]
        /\ guest' = [guest EXCEPT ![n] = NULL]
        /\ lock' = [lock EXCEPT ![n] = NULL]
        /\ th' = [th EXCEPT ![t] = [Idle EXCEPT !.pc = "lock_gm", !.op = "create", !.curr = n]]
  BY DEF Allocate
<1> DEFINE r == [Idle EXCEPT !.pc = "lock_gm", !.op = "create", !.curr = n]
<1>2. 0 \in Ids /\ <<>> \in Seq(Ids)
  BY BoundAssumption DEF Ids
<1>3. r \in Local /\ r.pc = "lock_gm" /\ r.op = "create" /\ r.curr = n
  BY <1>2 DEF Local, Idle, Ops
<1>4. th' = [th EXCEPT ![t] = r]
  BY <1>1
<1> HIDE DEF r
<1>5. MovesTo(t, "lock_gm") /\ th'[t].op = "create" /\ th'[t].curr = n
  <2>1. r \in Local
    BY <1>3
  <2>2. MovesTo(t, r.pc) /\ th'[t] = r
    BY <1>4, <2>1, SetMoves, Zenon
  <2> QED
    BY <1>3, <2>2
<1> QED
  BY <1>1, <1>5 DEF Allocate, At

(* Entering any other function. *)
LEMMA CallMovesTo ==
  ASSUME TypeOK, NEW t \in Threads, Call(t)
  PROVE  /\ th[t].pc = "idle" /\ MovesTo(t, "lock_gm")
         /\ th'[t].op \in Ops \ {"create"} /\ th'[t].curr = NULL /\ th'[t].found = <<>>
<1>0. <<>> \in Seq(Ids)
  OBVIOUS
<1>1. PICK op \in Ops \ {"create"}, target \in Ids :
        th' = [th EXCEPT ![t] = [Idle EXCEPT !.pc = "lock_gm", !.op = op, !.target = target]]
  BY DEF Call
<1> DEFINE r == [Idle EXCEPT !.pc = "lock_gm", !.op = op, !.target = target]
<1>2. r \in Local /\ r.pc = "lock_gm" /\ r.op = op /\ r.curr = NULL /\ r.found = <<>>
  BY <1>0 DEF Local, Idle
<1>3. th' = [th EXCEPT ![t] = r]
  BY <1>1
<1> HIDE DEF r
<1>4. r \in Local
  BY <1>2
<1>5. MovesTo(t, r.pc) /\ th'[t] = r
  BY <1>3, <1>4, SetMoves, Zenon
<1> QED
  BY <1>2, <1>5 DEF Call, At

(* Taking gm->lock: a creator goes on to append, any other thread to walk from head. *)
LEMMA LockManagerMoves ==
  ASSUME TypeOK, NEW t \in Threads, LockManager(t)
  PROVE  /\ th[t].pc = "lock_gm"
         /\ \/ /\ th[t].op = "create"
               /\ MovesTo(t, "append") /\ KeepsArgs(t) /\ KeepsPlace(t)
            \/ /\ th[t].op # "create"
               /\ MovesTo(t, "walk") /\ KeepsArgs(t)
               /\ th'[t].prev = NULL /\ th'[t].curr = head
<1>1. CASE th[t].op = "create"
  <2>1. "append" \in Points /\ Goto(t, "append")
    BY <1>1 DEF LockManager, Goto, Points, Holding
  <2> QED
    BY <1>1, <2>1, GotoMoves DEF LockManager, At
<1>2. CASE th[t].op # "create"
  <2>1. th[t] \in Local /\ th \in [Threads -> Local] /\ head \in Nodes \cup {NULL}
    BY DEF TypeOK
  <2>2. th' = [th EXCEPT ![t] = [th[t] EXCEPT !.pc = "walk", !.prev = NULL, !.curr = head]]
    BY <1>2, <2>1 DEF LockManager
  <2>3. [th[t] EXCEPT !.pc = "walk", !.prev = NULL, !.curr = head] \in Local
    BY <2>1 DEF Local
  <2> QED
    BY <1>2, <2>1, <2>2, <2>3 DEF LockManager, At, MovesTo, KeepsArgs, Local
<1> QED
  BY <1>1, <1>2

(* Releasing gm->lock: the thread reads the id, leaves its next game or returns. *)
LEMMA UnlockManagerMoves ==
  ASSUME TypeOK, NEW t \in Threads, UnlockManager(t)
  PROVE  /\ th[t].pc = "unlock_gm"
         /\ \/ /\ th[t].op = "create"
               /\ MovesTo(t, "read_id") /\ KeepsArgs(t) /\ KeepsPlace(t)
            \/ MovesTo(t, "lock_gm") /\ th'[t].op = "leave"
            \/ MovesTo(t, "idle")
<1>1. CASE th[t].op = "create"
  <2>1. "read_id" \in Points /\ Goto(t, "read_id")
    BY <1>1 DEF UnlockManager, Goto, Points, Holding
  <2> QED
    BY <1>1, <2>1, GotoMoves DEF UnlockManager, At
<1>2. CASE th[t].op # "create" /\ th[t].op \in {"scan", "leave"} /\ th[t].found # <<>>
  <2>1. th[t].found \in Seq(Ids)
    BY DEF TypeOK, Local
  <2>2. Head(th[t].found) \in Ids /\ Tail(th[t].found) \in Seq(Ids) /\ "leave" \in Ops
    BY <1>2, <2>1 DEF Ops
  <2>3. th' = [th EXCEPT ![t] = [Idle EXCEPT !.pc = "lock_gm", !.op = "leave",
                                             !.target = Head(th[t].found),
                                             !.found = Tail(th[t].found)]]
    BY <1>2 DEF UnlockManager
  <2> DEFINE r == [Idle EXCEPT !.pc = "lock_gm", !.op = "leave",
                               !.target = Head(th[t].found), !.found = Tail(th[t].found)]
  <2>4. r \in Local /\ r.pc = "lock_gm" /\ r.op = "leave"
    BY <2>2 DEF Local, Idle
  <2> QED
    BY <2>3, <2>4, SetMoves, ZenonT(60) DEF UnlockManager, At
<1>3. CASE th[t].op # "create" /\ ~(th[t].op \in {"scan", "leave"} /\ th[t].found # <<>>)
  <2>1. th' = [th EXCEPT ![t] = Idle]
    BY <1>3 DEF UnlockManager
  <2> QED
    BY <2>1, ReturnMoves DEF UnlockManager, At
<1> QED
  BY <1>1, <1>2, <1>3

(* Reading the id of a new game is the last step of its creation. *)
LEMMA ReadIdMoves ==
  ASSUME TypeOK, NEW t \in Threads, ReadId(t)
  PROVE  th[t].pc = "read_id" /\ MovesTo(t, "idle")
BY ReturnMoves DEF ReadId, At

(* Releasing the lock of a game after a change is the last step of that call. *)
LEMMA UnlockGameMoves ==
  ASSUME TypeOK, NEW t \in Threads, UnlockGame(t)
  PROVE  th[t].pc = "unlock_g" /\ MovesTo(t, "idle")
BY ReturnMoves DEF UnlockGame, At

(* Linking a new game. *)
LEMMA AppendNodeMoves ==
  ASSUME TypeOK, NEW t \in Threads, AppendNode(t)
  PROVE  th[t].pc = "append" /\ MovesTo(t, "set_tail") /\ KeepsArgs(t) /\ KeepsPlace(t)
<1>1. "set_tail" \in Points
  BY DEF Points, Holding, Locking
<1> QED
  BY <1>1, GotoMoves DEF AppendNode, At

(* Moving the tail to a new game. *)
LEMMA SetTailMoves ==
  ASSUME TypeOK, NEW t \in Threads, SetTail(t)
  PROVE  th[t].pc = "set_tail" /\ MovesTo(t, "unlock_gm") /\ KeepsArgs(t) /\ KeepsPlace(t)
<1>1. "unlock_gm" \in Points
  BY DEF Points, Holding, Locking
<1> QED
  BY <1>1, GotoMoves DEF SetTail, At

(* Releasing gm->lock once the game is locked. *)
LEMMA HandoffMoves ==
  ASSUME TypeOK, NEW t \in Threads, Handoff(t)
  PROVE  th[t].pc = "handoff" /\ MovesTo(t, "change") /\ KeepsArgs(t) /\ KeepsPlace(t)
<1>1. "change" \in Points
  BY DEF Points, Holding, Locking
<1> QED
  BY <1>1, GotoMoves DEF Handoff, At

(* Changing the seats of a game. *)
LEMMA ChangeMoves ==
  ASSUME TypeOK, NEW t \in Threads, Change(t)
  PROVE  th[t].pc = "change" /\ MovesTo(t, "unlock_g") /\ KeepsArgs(t) /\ KeepsPlace(t)
<1>1. "unlock_g" \in Points
  BY DEF Points, Holding, Locking
<1> QED
  BY <1>1, GotoMoves DEF Change, JoinSeats, DecisionSeats, PostGameSeats, At

(* Releasing a game that is not removed. *)
LEMMA ReleaseGameMoves ==
  ASSUME TypeOK, NEW t \in Threads, ReleaseGame(t)
  PROVE  th[t].pc = "release_g" /\ MovesTo(t, "unlock_gm") /\ KeepsArgs(t) /\ KeepsPlace(t)
<1>1. "unlock_gm" \in Points
  BY DEF Points, Holding, Locking
<1> QED
  BY <1>1, GotoMoves DEF ReleaseGame, At

(* Unlinking a deserted game. *)
LEMMA UnlinkMoves ==
  ASSUME TypeOK, NEW t \in Threads, Unlink(t)
  PROVE  th[t].pc = "unlink" /\ MovesTo(t, "fix_tail") /\ KeepsArgs(t) /\ KeepsPlace(t)
<1>1. "fix_tail" \in Points
  BY DEF Points, Holding, Locking
<1> QED
  BY <1>1, GotoMoves DEF Unlink, At

(* Correcting the tail after an unlinking. *)
LEMMA FixTailMoves ==
  ASSUME TypeOK, NEW t \in Threads, FixTail(t)
  PROVE  th[t].pc = "fix_tail" /\ MovesTo(t, "unlock_freed") /\ KeepsArgs(t) /\ KeepsPlace(t)
<1>1. "unlock_freed" \in Points
  BY DEF Points, Holding, Locking
<1> QED
  BY <1>1, GotoMoves DEF FixTail, At

(* Releasing the lock of an unlinked game. *)
LEMMA UnlockFreedMoves ==
  ASSUME TypeOK, NEW t \in Threads, UnlockFreed(t)
  PROVE  th[t].pc = "unlock_freed" /\ MovesTo(t, "free") /\ KeepsArgs(t) /\ KeepsPlace(t)
<1>1. "free" \in Points
  BY DEF Points, Holding, Locking
<1> QED
  BY <1>1, GotoMoves DEF UnlockFreed, At

(* Freeing an unlinked game. *)
LEMMA FreeMoves ==
  ASSUME TypeOK, NEW t \in Threads, Free(t)
  PROVE  th[t].pc = "free" /\ MovesTo(t, "unlock_gm") /\ KeepsArgs(t) /\ KeepsPlace(t)
<1>1. "unlock_gm" \in Points
  BY DEF Points, Holding, Locking
<1> QED
  BY <1>1, GotoMoves DEF Free, At

(* One iteration of a lookup: the end of the list, the game looked for, or the next node. *)
LEMMA WalkLookupMoves ==
  ASSUME TypeOK, NEW t \in Threads, WalkLookup(t)
  PROVE  /\ th[t].pc = "walk" /\ th[t].op \in Lookups
         /\ \/ /\ th[t].curr = NULL
               /\ MovesTo(t, "unlock_gm") /\ KeepsArgs(t) /\ KeepsPlace(t)
            \/ /\ th[t].curr \in Nodes
               /\ MovesTo(t, "lock_g") /\ KeepsArgs(t) /\ KeepsPlace(t)
            \/ /\ th[t].curr \in Nodes
               /\ MovesTo(t, "walk") /\ KeepsArgs(t)
               /\ th'[t].prev = th[t].curr /\ th'[t].curr = next[th[t].curr]
<1>1. th[t] \in Local /\ th \in [Threads -> Local] /\ th[t].curr \in Nodes \cup {NULL}
  BY DEF TypeOK, Local
<1>2. "unlock_gm" \in Points /\ "lock_g" \in Points
  BY DEF Points, Holding
<1>3. CASE th[t].curr = NULL
  BY <1>2, <1>3, GotoMoves DEF WalkLookup, At
<1>4. CASE th[t].curr # NULL /\ id[th[t].curr] = th[t].target
  BY <1>1, <1>2, <1>4, GotoMoves DEF WalkLookup, At
<1>5. CASE th[t].curr # NULL /\ id[th[t].curr] # th[t].target
  <2> DEFINE r == [th[t] EXCEPT !.prev = th[t].curr, !.curr = next[th[t].curr]]
  <2>1. th' = [th EXCEPT ![t] = r]
    BY <1>1, <1>5 DEF WalkLookup
  <2>2. th[t].pc = "walk" /\ th[t].op \in Lookups /\ next[th[t].curr] \in Nodes \cup {NULL}
    BY <1>1, <1>5 DEF WalkLookup, At, TypeOK
  <2>3. /\ r \in Local /\ r.pc = "walk" /\ r.op = th[t].op /\ r.target = th[t].target
        /\ r.found = th[t].found /\ r.prev = th[t].curr /\ r.curr = next[th[t].curr]
    BY <1>1, <2>2 DEF Local
  <2> HIDE DEF r
  <2> QED
    BY <1>1, <1>5, <2>1, <2>2, <2>3, SetMoves, ZenonT(60) DEF KeepsArgs
<1> QED
  BY <1>3, <1>4, <1>5

(* One iteration of a listing: it stops at the end of the list or when it is full. *)
LEMMA WalkListMoves ==
  ASSUME TypeOK, NEW t \in Threads, WalkList(t)
  PROVE  /\ th[t].pc = "walk" /\ th[t].op = "list" /\ KeepsArgs(t) /\ KeepsPlace(t)
         /\ \/ /\ th[t].curr = NULL \/ Len(th[t].found) >= ListMax
               /\ MovesTo(t, "unlock_gm")
            \/ /\ th[t].curr \in Nodes /\ ~(Len(th[t].found) >= ListMax)
               /\ MovesTo(t, "lock_g")
<1>1. "unlock_gm" \in Points /\ "lock_g" \in Points
  BY DEF Points, Holding
<1>2. th[t].curr \in Nodes \cup {NULL}
  BY DEF TypeOK, Local
<1> QED
  BY <1>1, <1>2, GotoMoves DEF WalkList, At

(* One iteration of the scan for the games of a departing client. *)
LEMMA WalkScanMoves ==
  ASSUME TypeOK, NEW t \in Threads, WalkScan(t)
  PROVE  /\ th[t].pc = "walk" /\ th[t].op = "scan" /\ th'[t].op = "scan"
         /\ \/ MovesTo(t, "unlock_gm") /\ KeepsPlace(t)
            \/ /\ th[t].curr \in Nodes
               /\ MovesTo(t, "walk") /\ th'[t].curr = next[th[t].curr]
<1>1. th[t] \in Local /\ th \in [Threads -> Local] /\ th[t].curr \in Nodes \cup {NULL}
      /\ th[t].found \in Seq(Ids) /\ th[t].prev \in Nodes \cup {NULL}
  BY DEF TypeOK, Local
<1>2. CASE th[t].curr = NULL \/ Len(th[t].found) >= ScanMax
  <2>1. "unlock_gm" \in Points
    BY DEF Points, Holding
  <2> QED
    BY <1>2, <2>1, GotoMoves DEF WalkScan, At, KeepsArgs
<1>3. CASE ~(th[t].curr = NULL \/ Len(th[t].found) >= ScanMax)
  <2> DEFINE f == IF owner[th[t].curr] = t /\ id[th[t].curr] # th[t].target
                  THEN Append(th[t].found, id[th[t].curr]) ELSE th[t].found
  <2>1. next[th[t].curr] \in Nodes \cup {NULL} /\ id[th[t].curr] \in Ids
    BY <1>1, <1>3 DEF TypeOK
  <2>2. f \in Seq(Ids)
    BY <1>1, <2>1
  <2> DEFINE r == [th[t] EXCEPT !.curr = next[th[t].curr], !.found = f]
  <2>3. th' = [th EXCEPT ![t] = r]
    BY <1>1, <1>3 DEF WalkScan
  <2>4. th[t].pc = "walk" /\ th[t].op = "scan"
    BY DEF WalkScan, At
  <2> HIDE DEF f
  <2>5. r \in Local /\ r.pc = "walk" /\ r.op = "scan" /\ r.curr = next[th[t].curr]
    BY <1>1, <2>1, <2>2, <2>4 DEF Local
  <2> HIDE DEF r
  <2> QED
    BY <1>1, <1>3, <2>3, <2>4, <2>5, SetMoves, ZenonT(60)
<1> QED
  BY <1>2, <1>3

(* Locking a game leads to where the function uses it. *)
LEMMA LockGameMoves ==
  ASSUME TypeOK, NEW t \in Threads, LockGame(t)
  PROVE  /\ th[t].pc = "lock_g" /\ KeepsArgs(t) /\ KeepsPlace(t)
         /\ \/ th[t].op \in Changes /\ MovesTo(t, "handoff")
            \/ th[t].op = "leave" /\ MovesTo(t, "vacate")
            \/ th[t].op \notin Changes \cup {"leave"} /\ MovesTo(t, "read")
<1>1. "handoff" \in Points /\ "vacate" \in Points /\ "read" \in Points
  BY DEF Points, Holding
<1>2. CASE th[t].op \in Changes
  BY <1>1, <1>2, GotoMoves DEF LockGame, At
<1>3. CASE th[t].op = "leave"
  <2>1. th[t].op \notin Changes
    BY <1>3 DEF Changes
  <2> QED
    BY <1>1, <1>3, <2>1, GotoMoves DEF LockGame, At
<1>4. CASE th[t].op \notin Changes \cup {"leave"}
  BY <1>1, <1>4, GotoMoves DEF LockGame, At
<1> QED
  BY <1>2, <1>3, <1>4

(* Reading an open game adds its id to the listing. *)
LEMMA ReadMoves ==
  ASSUME TypeOK, NEW t \in Threads, Read(t), th[t].curr \in Nodes
  PROVE  /\ th[t].pc = "read" /\ MovesTo(t, "walk") /\ th'[t].op = th[t].op
         /\ th'[t].curr = next[th[t].curr]
         /\ th'[t].found = IF guest[th[t].curr] = NULL
                           THEN Append(th[t].found, id[th[t].curr]) ELSE th[t].found
<1>1. th[t] \in Local /\ th \in [Threads -> Local]
      /\ th[t].found \in Seq(Ids) /\ th[t].prev \in Nodes \cup {NULL}
  BY DEF TypeOK, Local
<1> DEFINE f == IF guest[th[t].curr] = NULL
                THEN Append(th[t].found, id[th[t].curr]) ELSE th[t].found
<1>2. next[th[t].curr] \in Nodes \cup {NULL} /\ id[th[t].curr] \in Ids
  BY <1>1 DEF TypeOK
<1>3. f \in Seq(Ids)
  BY <1>1, <1>2
<1> DEFINE r == [th[t] EXCEPT !.pc = "walk", !.curr = next[th[t].curr], !.found = f]
<1>4. th' = [th EXCEPT ![t] = r]
  BY <1>1 DEF Read
<1> HIDE DEF f
<1>5. /\ r \in Local /\ r.pc = "walk" /\ r.op = th[t].op /\ r.curr = next[th[t].curr]
      /\ r.found = f
  BY <1>1, <1>2, <1>3 DEF Local
<1>6. MovesTo(t, "walk") /\ th'[t] = r
  BY <1>4, <1>5, SetMoves, ZenonT(60)
<1> HIDE DEF r
<1> QED
  BY <1>5, <1>6 DEF Read, At, f

(* Vacating a seat leads to the removal of the game only when it has no owner left. *)
LEMMA VacateMoves ==
  ASSUME TypeOK, NEW t \in Threads, Vacate(t), th[t].curr \in Nodes
  PROVE  /\ th[t].pc = "vacate" /\ KeepsArgs(t) /\ KeepsPlace(t)
         /\ \/ MovesTo(t, "unlink") /\ owner'[th[t].curr] = NULL
            \/ MovesTo(t, "release_g")
<1>1. "unlink" \in Points /\ "release_g" \in Points
  BY DEF Points, Holding
<1>2. owner \in [Nodes -> Threads \cup {NULL}]
  BY DEF TypeOK
<1>3. CASE Goto(t, "unlink")
  BY <1>1, <1>2, <1>3, GotoMoves DEF Vacate, At
<1>4. CASE Goto(t, "release_g")
  BY <1>1, <1>4, GotoMoves DEF Vacate, At
<1> QED
  BY <1>3, <1>4 DEF Vacate

-----------------------------------------------------------------------------
(* The parts that do not speak of the list. *)

(* Every step keeps the values in their types. *)
LEMMA TypesStep == Base /\ [Next]_vars => TypeOK'
<1> SUFFICES ASSUME Base, [Next]_vars
             PROVE  TypeOK'
  OBVIOUS
<1> USE DEF Base
<1>0. /\ {head, tail} \subseteq Nodes \cup {NULL} /\ gm_lock \in Threads \cup {NULL}
      /\ next \in [Nodes -> Nodes \cup {NULL}] /\ id \in [Nodes -> Ids]
      /\ owner \in [Nodes -> Threads \cup {NULL}] /\ guest \in [Nodes -> Threads \cup {NULL}]
      /\ lock \in [Nodes -> Threads \cup {NULL}] /\ live \subseteq Nodes
      /\ next_game_id \in 0..MaxId /\ th \in [Threads -> Local]
      /\ \A t \in Threads : th[t].curr \in Nodes \cup {NULL} /\ th[t].prev \in Nodes \cup {NULL}
  BY DEF TypeOK, Local
<1>1. ASSUME NEW t \in Threads, Allocate(t) \/ Call(t) \/ Continue(t)
      PROVE  TypeOK'
  <2>1. CASE Allocate(t)
    <3>1. PICK n \in Nodes \ live :
            /\ MovesTo(t, "lock_gm")
            /\ live' = live \cup {n} /\ next' = [next EXCEPT ![n] = NULL]
            /\ id' = [id EXCEPT ![n] = next_game_id] /\ owner' = [owner EXCEPT ![n] = t]
            /\ guest' = [guest EXCEPT ![n] = NULL] /\ lock' = [lock EXCEPT ![n] = NULL]
      BY <2>1, AllocateMoves
    <3>2. next_game_id < MaxId /\ next_game_id' = next_game_id + 1 /\ UNCHANGED <<head, tail, gm_lock>>
      BY <2>1 DEF Allocate
    <3>3. next_game_id \in Ids /\ next_game_id' \in 0..MaxId
      BY <1>0, <3>2, BoundAssumption DEF Ids
    <3> QED
      BY <1>0, <3>1, <3>2, <3>3 DEF MovesTo, TypeOK
  <2>2. CASE Call(t)
    BY <2>2, CallMovesTo, <1>0 DEF Call, MovesTo, heap, TypeOK
  <2>3. CASE LockManager(t)
    BY <2>3, LockManagerMoves, <1>0 DEF LockManager, MovesTo, heap, TypeOK
  <2>4. CASE UnlockManager(t)
    BY <2>4, UnlockManagerMoves, <1>0 DEF UnlockManager, MovesTo, heap, TypeOK
  <2>5. CASE ReadId(t)
    BY <2>5, ReadIdMoves, <1>0 DEF ReadId, MovesTo, heap, TypeOK
  <2>6. CASE AppendNode(t)
    BY <2>6, AppendNodeMoves, <1>0 DEF AppendNode, MovesTo, heap, TypeOK
  <2>7. CASE SetTail(t)
    BY <2>7, SetTailMoves, <1>0 DEF SetTail, MovesTo, heap, TypeOK
  <2>8. CASE WalkLookup(t)
    BY <2>8, WalkLookupMoves, <1>0 DEF WalkLookup, MovesTo, heap, TypeOK
  <2>9. CASE WalkList(t)
    BY <2>9, WalkListMoves, <1>0 DEF WalkList, MovesTo, heap, TypeOK
  <2>10. CASE WalkScan(t)
    BY <2>10, WalkScanMoves, <1>0 DEF WalkScan, MovesTo, heap, TypeOK
  <2>11. CASE LockGame(t)
    BY <2>11, LockGameMoves, <1>0 DEF LockGame, MovesTo, heap, TypeOK
  <2>12. CASE Handoff(t)
    BY <2>12, HandoffMoves, <1>0 DEF Handoff, MovesTo, heap, TypeOK
  <2>13. CASE Change(t)
    BY <2>13, ChangeMoves, <1>0 DEF Change, JoinSeats, DecisionSeats, PostGameSeats, MovesTo, heap, TypeOK
  <2>14. CASE UnlockGame(t)
    BY <2>14, UnlockGameMoves, <1>0 DEF UnlockGame, MovesTo, heap, TypeOK
  <2>15. CASE Read(t)
    <3>1. th[t].curr \in Nodes
      BY <2>15 DEF Read, At, LocksHeld, Locking
    <3> QED
      BY <1>0, <2>15, <3>1, ReadMoves DEF Read, MovesTo, TypeOK
  <2>16. CASE Vacate(t)
    <3>1. th[t].curr \in Nodes
      BY <2>16 DEF Vacate, At, LocksHeld, Locking
    <3>2. UNCHANGED <<head, tail, gm_lock, next, id, lock, live, next_game_id>>
      BY <2>16 DEF Vacate
    <3>3. owner' \in [Nodes -> Threads \cup {NULL}] /\ guest' \in [Nodes -> Threads \cup {NULL}]
      BY <1>0, <2>16, <3>1 DEF Vacate
    <3>4. th' \in [Threads -> Local]
      BY <2>16, <3>1, VacateMoves DEF MovesTo
    <3> QED
      BY <1>0, <3>2, <3>3, <3>4 DEF TypeOK
  <2>17. CASE ReleaseGame(t)
    BY <2>17, ReleaseGameMoves, <1>0 DEF ReleaseGame, MovesTo, heap, TypeOK
  <2>18. CASE Unlink(t)
    <3>1. th[t].curr \in Nodes
      BY <2>18 DEF Unlink, At, LocksHeld, Locking
    <3> QED
      BY <1>0, <2>18, <3>1, UnlinkMoves DEF Unlink, MovesTo, TypeOK
  <2>19. CASE FixTail(t)
    BY <2>19, FixTailMoves, <1>0 DEF FixTail, MovesTo, heap, TypeOK
  <2>20. CASE UnlockFreed(t)
    BY <2>20, UnlockFreedMoves, <1>0 DEF UnlockFreed, MovesTo, heap, TypeOK
  <2>21. CASE Free(t)
    <3>1. 0 \in Ids
      BY BoundAssumption DEF Ids
    <3> QED
      BY <1>0, <2>21, <3>1, FreeMoves DEF Free, MovesTo, TypeOK
  <2> QED
    BY <1>1, <2>1, <2>2, <2>3, <2>4, <2>5, <2>6, <2>7, <2>8, <2>9, <2>10, <2>11, <2>12, <2>13, <2>14, <2>15, <2>16, <2>17, <2>18, <2>19, <2>20, <2>21 DEF Continue
<1>2. CASE UNCHANGED vars
  BY <1>0, <1>2 DEF vars, TypeOK
<1> QED
  BY <1>1, <1>2 DEF Next

(* The program counter keeps fitting the function. *)
LEMMA OpFitsStep == Base /\ [Next]_vars => OpFits'
<1> SUFFICES ASSUME Base, [Next]_vars
             PROVE  OpFits'
  OBVIOUS
<1> USE DEF Base
<1>0. \A t \in Threads : th[t].op \in Ops
  BY DEF TypeOK, Local
<1>1. ASSUME NEW t \in Threads, Allocate(t) \/ Call(t) \/ Continue(t)
      PROVE  OpFits'
  <2>1. CASE Allocate(t)
    BY <2>1, AllocateMoves DEF MovesTo, KeepsArgs, OpFits, Changes, Lookups, Leaving, Removing
  <2>2. CASE Call(t)
    BY <2>2, CallMovesTo DEF MovesTo, KeepsArgs, OpFits, Changes, Lookups, Leaving, Removing
  <2>3. CASE LockManager(t)
    BY <2>3, LockManagerMoves DEF MovesTo, KeepsArgs, OpFits, Changes, Lookups, Leaving, Removing
  <2>4. CASE UnlockManager(t)
    BY <2>4, UnlockManagerMoves DEF MovesTo, KeepsArgs, OpFits, Changes, Lookups, Leaving, Removing
  <2>5. CASE ReadId(t)
    BY <2>5, ReadIdMoves DEF MovesTo, KeepsArgs, OpFits, Changes, Lookups, Leaving, Removing
  <2>6. CASE AppendNode(t)
    BY <2>6, AppendNodeMoves DEF MovesTo, KeepsArgs, OpFits, Changes, Lookups, Leaving, Removing
  <2>7. CASE SetTail(t)
    BY <2>7, SetTailMoves DEF MovesTo, KeepsArgs, OpFits, Changes, Lookups, Leaving, Removing
  <2>8. CASE WalkLookup(t)
    BY <2>8, WalkLookupMoves DEF MovesTo, KeepsArgs, OpFits, Changes, Lookups, Leaving, Removing
  <2>9. CASE WalkList(t)
    BY <2>9, WalkListMoves DEF MovesTo, KeepsArgs, OpFits, Changes, Lookups, Leaving, Removing
  <2>10. CASE WalkScan(t)
    BY <2>10, WalkScanMoves DEF MovesTo, KeepsArgs, OpFits, Changes, Lookups, Leaving, Removing
  <2>11. CASE LockGame(t)
    BY <2>11, LockGameMoves, <1>0 DEF MovesTo, KeepsArgs, OpFits, Changes, Lookups, Leaving, Removing, Ops
  <2>12. CASE Handoff(t)
    BY <2>12, HandoffMoves DEF MovesTo, KeepsArgs, OpFits, Changes, Lookups, Leaving, Removing
  <2>13. CASE Change(t)
    BY <2>13, ChangeMoves DEF MovesTo, KeepsArgs, OpFits, Changes, Lookups, Leaving, Removing
  <2>14. CASE UnlockGame(t)
    BY <2>14, UnlockGameMoves DEF MovesTo, KeepsArgs, OpFits, Changes, Lookups, Leaving, Removing
  <2>15. CASE Read(t)
    <3>1. th[t].curr \in Nodes
      BY <2>15 DEF Read, At, LocksHeld, Locking
    <3> QED
      BY <2>15, <3>1, ReadMoves DEF MovesTo, KeepsArgs, OpFits, Changes, Lookups, Leaving, Removing
  <2>16. CASE Vacate(t)
    <3>1. th[t].curr \in Nodes
      BY <2>16 DEF Vacate, At, LocksHeld, Locking
    <3> QED
      BY <2>16, <3>1, VacateMoves DEF MovesTo, KeepsArgs, OpFits, Changes, Lookups, Leaving, Removing
  <2>17. CASE ReleaseGame(t)
    BY <2>17, ReleaseGameMoves DEF MovesTo, KeepsArgs, OpFits, Changes, Lookups, Leaving, Removing
  <2>18. CASE Unlink(t)
    BY <2>18, UnlinkMoves DEF MovesTo, KeepsArgs, OpFits, Changes, Lookups, Leaving, Removing
  <2>19. CASE FixTail(t)
    BY <2>19, FixTailMoves DEF MovesTo, KeepsArgs, OpFits, Changes, Lookups, Leaving, Removing
  <2>20. CASE UnlockFreed(t)
    BY <2>20, UnlockFreedMoves DEF MovesTo, KeepsArgs, OpFits, Changes, Lookups, Leaving, Removing
  <2>21. CASE Free(t)
    BY <2>21, FreeMoves DEF MovesTo, KeepsArgs, OpFits, Changes, Lookups, Leaving, Removing
  <2> QED
    BY <1>1, <2>1, <2>2, <2>3, <2>4, <2>5, <2>6, <2>7, <2>8, <2>9, <2>10, <2>11, <2>12, <2>13, <2>14, <2>15, <2>16, <2>17, <2>18, <2>19, <2>20, <2>21 DEF Continue
<1>2. CASE UNCHANGED vars
  BY <1>2 DEF vars, OpFits
<1> QED
  BY <1>1, <1>2 DEF Next

(* What the invariant says of the nodes the threads are at. *)
LEMMA CurrentNodes ==
  ASSUME NEW L, NEW m, Base, ListInv(L, m), NEW t \in Threads
  PROVE  /\ \A i \in 1..m : L[i] \in live /\ ~Hidden(L[i])
         /\ th[t].pc \in Locking \cup {"lock_g"} => th[t].curr \in live
         /\ th[t].pc = "walk" => th[t].curr \in live \cup {NULL}
         /\ th[t].pc \in Locking \ Removing => ~Hidden(th[t].curr)
<1>1. \A i \in 1..m : L[i] \in Nodes
  BY DEF ListInv, Linked
<1>2. \A n \in Nodes : InList(L, m, n) <=> n \in live /\ ~Hidden(n)
  BY DEF ListInv, Members
<1>3. \A i \in 1..m : L[i] \in live /\ ~Hidden(L[i])
  BY <1>1, <1>2 DEF InList
<1>4. \A n : InList(L, m, n) => n \in live /\ ~Hidden(n)
  BY <1>3 DEF InList
<1>5. th[t].pc \in {"fix_tail", "unlock_freed"} => th[t].curr \in live
  BY DEF Base, Abandoned, Removing
<1> QED
  BY <1>3, <1>4, <1>5 DEF ListInv, Placed, PlacedAt, Locking, Removing

(* Locks are taken and released by their holders only. *)
LEMMA LocksHeldStep ==
  ASSUME NEW L, NEW m, Base, ListInv(L, m), [Next]_vars
  PROVE  LocksHeld'
<1>0. /\ gm_lock \in Threads \cup {NULL} /\ lock \in [Nodes -> Threads \cup {NULL}]
      /\ \A t \in Threads : t # NULL /\ th[t].curr \in Nodes \cup {NULL}
      /\ \A t \in Threads : th[t].pc = "lock_g" => th[t].curr \in Nodes
  BY NullAssumption, CurrentNodes DEF Base, TypeOK, Local
<1> USE DEF Base
<1>1. ASSUME NEW t \in Threads, Allocate(t) \/ Call(t) \/ Continue(t)
      PROVE  LocksHeld'
  <2>1. CASE Allocate(t)
    <3>1. PICK n \in Nodes \ live :
            MovesTo(t, "lock_gm") /\ lock' = [lock EXCEPT ![n] = NULL] /\ UNCHANGED gm_lock
      BY <2>1, AllocateMoves
    <3>2. \A u \in Threads : th[u].pc \in Locking => th[u].curr # n
      BY CurrentNodes
    <3>3. th[t].pc = "idle"
      BY <2>1, AllocateMoves
    <3> QED
      BY <1>0, <3>1, <3>2, <3>3 DEF MovesTo, LocksHeld, Holding, Locking
  <2>2. CASE Call(t)
    <3>1. gm_lock' = gm_lock /\ lock' = lock
      BY <2>2 DEF Call, heap
    <3> QED
      BY <2>2, <1>0, <3>1, CallMovesTo DEF MovesTo, KeepsPlace, LocksHeld, Holding, Locking
  <2>3. CASE LockManager(t)
    <3>1. gm_lock = NULL /\ gm_lock' = t /\ lock' = lock
      BY <2>3 DEF LockManager, heap
    <3> QED
      BY <2>3, <1>0, <3>1, LockManagerMoves DEF MovesTo, KeepsPlace, LocksHeld, Holding, Locking
  <2>4. CASE UnlockManager(t)
    <3>1. gm_lock' = NULL /\ lock' = lock
      BY <2>4 DEF UnlockManager, heap
    <3> QED
      BY <2>4, <1>0, <3>1, UnlockManagerMoves DEF MovesTo, KeepsPlace, LocksHeld, Holding, Locking
  <2>5. CASE ReadId(t)
    <3>1. gm_lock' = gm_lock /\ lock' = lock
      BY <2>5 DEF ReadId, heap
    <3> QED
      BY <2>5, <1>0, <3>1, ReadIdMoves DEF MovesTo, KeepsPlace, LocksHeld, Holding, Locking
  <2>6. CASE AppendNode(t)
    <3>1. gm_lock' = gm_lock /\ lock' = lock
      BY <2>6 DEF AppendNode
    <3> QED
      BY <2>6, <1>0, <3>1, AppendNodeMoves DEF MovesTo, KeepsPlace, LocksHeld, Holding, Locking
  <2>7. CASE SetTail(t)
    <3>1. gm_lock' = gm_lock /\ lock' = lock
      BY <2>7 DEF SetTail, heap
    <3> QED
      BY <2>7, <1>0, <3>1, SetTailMoves DEF MovesTo, KeepsPlace, LocksHeld, Holding, Locking
  <2>8. CASE WalkLookup(t)
    <3>1. gm_lock' = gm_lock /\ lock' = lock
      BY <2>8 DEF WalkLookup, heap
    <3> QED
      BY <2>8, <1>0, <3>1, WalkLookupMoves DEF MovesTo, KeepsPlace, LocksHeld, Holding, Locking
  <2>9. CASE WalkList(t)
    <3>1. gm_lock' = gm_lock /\ lock' = lock
      BY <2>9 DEF WalkList, heap
    <3> QED
      BY <2>9, <1>0, <3>1, WalkListMoves DEF MovesTo, KeepsPlace, LocksHeld, Holding, Locking
  <2>10. CASE WalkScan(t)
    <3>1. gm_lock' = gm_lock /\ lock' = lock
      BY <2>10 DEF WalkScan, heap
    <3> QED
      BY <2>10, <1>0, <3>1, WalkScanMoves DEF MovesTo, KeepsPlace, LocksHeld, Holding, Locking
  <2>11. CASE LockGame(t)
    <3>1. gm_lock' = gm_lock /\ lock[th[t].curr] = NULL /\ lock' = [lock EXCEPT ![th[t].curr] = t]
      BY <2>11 DEF LockGame
    <3> QED
      BY <2>11, <1>0, <3>1, LockGameMoves DEF MovesTo, KeepsPlace, LocksHeld, Holding, Locking
  <2>12. CASE Handoff(t)
    <3>1. gm_lock' = NULL /\ lock' = lock
      BY <2>12 DEF Handoff, heap
    <3> QED
      BY <2>12, <1>0, <3>1, HandoffMoves DEF MovesTo, KeepsPlace, LocksHeld, Holding, Locking
  <2>13. CASE Change(t)
    <3>1. gm_lock' = gm_lock /\ lock' = lock
      BY <2>13 DEF Change, JoinSeats, DecisionSeats, PostGameSeats
    <3> QED
      BY <2>13, <1>0, <3>1, ChangeMoves DEF MovesTo, KeepsPlace, LocksHeld, Holding, Locking
  <2>14. CASE UnlockGame(t)
    <3>1. gm_lock' = gm_lock /\ lock' = [lock EXCEPT ![th[t].curr] = NULL]
      BY <2>14 DEF UnlockGame
    <3> QED
      BY <2>14, <1>0, <3>1, UnlockGameMoves DEF MovesTo, KeepsPlace, LocksHeld, Holding, Locking
  <2>15. CASE Read(t)
    <3>0. th[t].curr \in Nodes
      BY <2>15 DEF Read, At, LocksHeld, Locking
    <3>1. gm_lock' = gm_lock /\ lock' = [lock EXCEPT ![th[t].curr] = NULL]
      BY <2>15 DEF Read
    <3> QED
      BY <2>15, <1>0, <3>0, <3>1, ReadMoves DEF MovesTo, KeepsPlace, LocksHeld, Holding, Locking
  <2>16. CASE Vacate(t)
    <3>0. th[t].curr \in Nodes
      BY <2>16 DEF Vacate, At, LocksHeld, Locking
    <3>1. gm_lock' = gm_lock /\ lock' = lock
      BY <2>16 DEF Vacate
    <3> QED
      BY <2>16, <1>0, <3>0, <3>1, VacateMoves DEF MovesTo, KeepsPlace, LocksHeld, Holding, Locking
  <2>17. CASE ReleaseGame(t)
    <3>1. gm_lock' = gm_lock /\ lock' = [lock EXCEPT ![th[t].curr] = NULL]
      BY <2>17 DEF ReleaseGame
    <3> QED
      BY <2>17, <1>0, <3>1, ReleaseGameMoves DEF MovesTo, KeepsPlace, LocksHeld, Holding, Locking
  <2>18. CASE Unlink(t)
    <3>1. gm_lock' = gm_lock /\ lock' = lock
      BY <2>18 DEF Unlink
    <3> QED
      BY <2>18, <1>0, <3>1, UnlinkMoves DEF MovesTo, KeepsPlace, LocksHeld, Holding, Locking
  <2>19. CASE FixTail(t)
    <3>1. gm_lock' = gm_lock /\ lock' = lock
      BY <2>19 DEF FixTail, heap
    <3> QED
      BY <2>19, <1>0, <3>1, FixTailMoves DEF MovesTo, KeepsPlace, LocksHeld, Holding, Locking
  <2>20. CASE UnlockFreed(t)
    <3>1. gm_lock' = gm_lock /\ lock' = [lock EXCEPT ![th[t].curr] = NULL]
      BY <2>20 DEF UnlockFreed
    <3> QED
      BY <2>20, <1>0, <3>1, UnlockFreedMoves DEF MovesTo, KeepsPlace, LocksHeld, Holding, Locking
  <2>21. CASE Free(t)
    <3>1. gm_lock' = gm_lock /\ lock' = lock
      BY <2>21 DEF Free
    <3> QED
      BY <2>21, <1>0, <3>1, FreeMoves DEF MovesTo, KeepsPlace, LocksHeld, Holding, Locking
  <2> QED
    BY <1>1, <2>1, <2>2, <2>3, <2>4, <2>5, <2>6, <2>7, <2>8, <2>9, <2>10, <2>11, <2>12, <2>13, <2>14, <2>15, <2>16, <2>17, <2>18, <2>19, <2>20, <2>21 DEF Continue
<1>2. CASE UNCHANGED vars
  BY <1>2 DEF vars, Base, LocksHeld
<1> QED
  BY <1>1, <1>2 DEF Next

(* No two games ever carry the same id. *)
LEMMA IdsDrawnStep ==
  ASSUME NEW L, NEW m, Base, ListInv(L, m), [Next]_vars
  PROVE  IdsDrawn'
<1>0. /\ id \in [Nodes -> Ids] /\ live \subseteq Nodes /\ next_game_id \in Int
      /\ \A n \in Nodes : id[n] \in Int
  BY DEF Base, TypeOK, Ids
<1> USE DEF Base
<1>1. ASSUME NEW t \in Threads, Allocate(t) \/ Call(t) \/ Continue(t)
      PROVE  IdsDrawn'
  <2>1. CASE Allocate(t)
    <3>1. PICK n \in Nodes \ live : live' = live \cup {n} /\ id' = [id EXCEPT ![n] = next_game_id]
      BY <2>1 DEF Allocate
    <3>2. next_game_id' = next_game_id + 1
      BY <2>1 DEF Allocate
    <3>3. \A k \in live : id'[k] = id[k] /\ id[k] \in Int /\ id[k] < next_game_id
      BY <1>0, <3>1 DEF IdsDrawn
    <3>4. id'[n] = next_game_id
      BY <1>0, <3>1
    <3>5. \A k \in live' : id'[k] < next_game_id'
      BY <1>0, <3>1, <3>2, <3>3, <3>4
    <3>6. \A j, k \in live' : j # k => id'[j] # id'[k]
      BY <1>0, <3>1, <3>3, <3>4 DEF IdsDrawn
    <3> QED
      BY <3>5, <3>6 DEF IdsDrawn
  <2>2. CASE Call(t)
    BY <2>2, <1>0 DEF Call, heap, IdsDrawn
  <2>3. CASE LockManager(t)
    BY <2>3, <1>0 DEF LockManager, heap, IdsDrawn
  <2>4. CASE UnlockManager(t)
    BY <2>4, <1>0 DEF UnlockManager, heap, IdsDrawn
  <2>5. CASE ReadId(t)
    BY <2>5, <1>0 DEF ReadId, heap, IdsDrawn
  <2>6. CASE AppendNode(t)
    BY <2>6, <1>0 DEF AppendNode, heap, IdsDrawn
  <2>7. CASE SetTail(t)
    BY <2>7, <1>0 DEF SetTail, heap, IdsDrawn
  <2>8. CASE WalkLookup(t)
    BY <2>8, <1>0 DEF WalkLookup, heap, IdsDrawn
  <2>9. CASE WalkList(t)
    BY <2>9, <1>0 DEF WalkList, heap, IdsDrawn
  <2>10. CASE WalkScan(t)
    BY <2>10, <1>0 DEF WalkScan, heap, IdsDrawn
  <2>11. CASE LockGame(t)
    BY <2>11, <1>0 DEF LockGame, heap, IdsDrawn
  <2>12. CASE Handoff(t)
    BY <2>12, <1>0 DEF Handoff, heap, IdsDrawn
  <2>13. CASE Change(t)
    BY <2>13, <1>0 DEF Change, JoinSeats, DecisionSeats, PostGameSeats, heap, IdsDrawn
  <2>14. CASE UnlockGame(t)
    BY <2>14, <1>0 DEF UnlockGame, heap, IdsDrawn
  <2>15. CASE Read(t)
    BY <2>15, <1>0 DEF Read, heap, IdsDrawn
  <2>16. CASE Vacate(t)
    BY <2>16, <1>0 DEF Vacate, heap, IdsDrawn
  <2>17. CASE ReleaseGame(t)
    BY <2>17, <1>0 DEF ReleaseGame, heap, IdsDrawn
  <2>18. CASE Unlink(t)
    BY <2>18, <1>0 DEF Unlink, heap, IdsDrawn
  <2>19. CASE FixTail(t)
    BY <2>19, <1>0 DEF FixTail, heap, IdsDrawn
  <2>20. CASE UnlockFreed(t)
    BY <2>20, <1>0 DEF UnlockFreed, heap, IdsDrawn
  <2>21. CASE Free(t)
    BY <2>21, <1>0 DEF Free, heap, IdsDrawn
  <2> QED
    BY <1>1, <2>1, <2>2, <2>3, <2>4, <2>5, <2>6, <2>7, <2>8, <2>9, <2>10, <2>11, <2>12, <2>13, <2>14, <2>15, <2>16, <2>17, <2>18, <2>19, <2>20, <2>21 DEF Continue
<1>2. CASE UNCHANGED vars
  BY <1>2 DEF vars, Base, IdsDrawn
<1> QED
  BY <1>1, <1>2 DEF Next

(* A game being created and a game being removed are not in the list, a locked one is. *)
LEMMA Apart ==
  ASSUME NEW L, NEW m, Base, ListInv(L, m), NEW t \in Threads, NEW u \in Threads
  PROVE  /\ th[t].pc \in Locking \ Removing /\ th[u].pc \in Removing => th[t].curr # th[u].curr
         /\ th[t].pc \in Locking \ Removing /\ th[u].op = "create" /\ th[u].pc \in {"lock_gm", "append"}
              => th[t].curr # th[u].curr
         /\ t # u /\ th[t].pc \in Locking /\ th[u].pc \in Locking => th[t].curr # th[u].curr
         /\ t # u => ~(th[t].pc \in Holding /\ th[u].pc \in Holding)
<1>1. th[t].pc \in Locking \ Removing => ~Hidden(th[t].curr)
  BY CurrentNodes
<1>2. LocksHeld
  BY DEF Base
<1> QED
  BY <1>1, <1>2 DEF Hidden, LocksHeld

(* Nobody takes a game from a creator that has not linked it, or frees it. *)
LEMMA CreatedStep ==
  ASSUME NEW L, NEW m, Base, ListInv(L, m), [Next]_vars
  PROVE  Created'
<1>0. /\ live \subseteq Nodes /\ next \in [Nodes -> Nodes \cup {NULL}]
      /\ owner \in [Nodes -> Threads \cup {NULL}] /\ guest \in [Nodes -> Threads \cup {NULL}]
      /\ \A t \in Threads : t # NULL
  BY NullAssumption DEF Base, TypeOK
<1> USE DEF Base
<1>1. ASSUME NEW t \in Threads, Allocate(t) \/ Call(t) \/ Continue(t)
      PROVE  Created'
  <2>1. CASE Allocate(t)
    <3>1. PICK n \in Nodes \ live :
            /\ MovesTo(t, "lock_gm") /\ th'[t].op = "create" /\ th'[t].curr = n
            /\ live' = live \cup {n} /\ next' = [next EXCEPT ![n] = NULL]
            /\ owner' = [owner EXCEPT ![n] = t] /\ guest' = [guest EXCEPT ![n] = NULL]
      BY <2>1, AllocateMoves
    <3>2. ASSUME NEW u \in Threads, u # t, th[u].op = "create", th[u].pc \in {"lock_gm", "append"}
          PROVE  th[u].curr \in live /\ th[u].curr # n
      BY <3>1, <3>2 DEF Created
    <3> QED
      BY <1>0, <3>1, <3>2 DEF MovesTo, Created
  <2>2. CASE Call(t)
    <3>1. UNCHANGED <<live, owner, guest, next>>
      BY <2>2 DEF Call, heap
    <3> QED
      BY <2>2, <1>0, <3>1, CallMovesTo DEF MovesTo, KeepsArgs, KeepsPlace, Created
  <2>3. CASE LockManager(t)
    <3>1. UNCHANGED <<live, owner, guest, next>>
      BY <2>3 DEF LockManager, heap
    <3> QED
      BY <2>3, <1>0, <3>1, LockManagerMoves DEF MovesTo, KeepsArgs, KeepsPlace, Created
  <2>4. CASE UnlockManager(t)
    <3>1. UNCHANGED <<live, owner, guest, next>>
      BY <2>4 DEF UnlockManager, heap
    <3> QED
      BY <2>4, <1>0, <3>1, UnlockManagerMoves DEF MovesTo, KeepsArgs, KeepsPlace, Created
  <2>5. CASE ReadId(t)
    <3>1. UNCHANGED <<live, owner, guest, next>>
      BY <2>5 DEF ReadId, heap
    <3> QED
      BY <2>5, <1>0, <3>1, ReadIdMoves DEF MovesTo, KeepsArgs, KeepsPlace, Created
  <2>6. CASE AppendNode(t)
    <3>1. UNCHANGED <<live, owner, guest>> /\ (next' = next \/ (head # NULL /\ next' = [next EXCEPT ![tail] = th[t].curr]))
      BY <2>6 DEF AppendNode
    <3>2. th[t].pc = "append" /\ MovesTo(t, "set_tail") /\ KeepsArgs(t) /\ KeepsPlace(t)
      BY <2>6, AppendNodeMoves
    <3>3. \A u \in Threads : th[u].pc \notin {"set_tail", "fix_tail"}
      BY <3>2, Apart DEF Holding
    <3>4. head # NULL => tail = L[m] /\ m \in 1..m
      BY <3>3 DEF ListInv, TailFits, LastOf, Linked
    <3>5. head # NULL => ~Hidden(tail)
      BY <3>4, CurrentNodes
    <3>6. ASSUME NEW u \in Threads, th[u].op = "create", head # NULL,
                 th[u].pc \in {"lock_gm", "append"}
          PROVE  th[u].curr # tail
      BY <3>5, <3>6 DEF Hidden
    <3> QED
      BY <1>0, <3>1, <3>2, <3>6 DEF MovesTo, KeepsArgs, KeepsPlace, Created
  <2>7. CASE SetTail(t)
    <3>1. UNCHANGED <<live, owner, guest, next>>
      BY <2>7 DEF SetTail, heap
    <3> QED
      BY <2>7, <1>0, <3>1, SetTailMoves DEF MovesTo, KeepsArgs, KeepsPlace, Created, OpFits, Leaving, Removing, Changes, Lookups
  <2>8. CASE WalkLookup(t)
    <3>1. UNCHANGED <<live, owner, guest, next>>
      BY <2>8 DEF WalkLookup, heap
    <3> QED
      BY <2>8, <1>0, <3>1, WalkLookupMoves DEF MovesTo, KeepsArgs, KeepsPlace, Created, OpFits, Leaving, Removing, Changes, Lookups
  <2>9. CASE WalkList(t)
    <3>1. UNCHANGED <<live, owner, guest, next>>
      BY <2>9 DEF WalkList, heap
    <3> QED
      BY <2>9, <1>0, <3>1, WalkListMoves DEF MovesTo, KeepsArgs, KeepsPlace, Created, OpFits, Leaving, Removing, Changes, Lookups
  <2>10. CASE WalkScan(t)
    <3>1. UNCHANGED <<live, owner, guest, next>>
      BY <2>10 DEF WalkScan, heap
    <3> QED
      BY <2>10, <1>0, <3>1, WalkScanMoves DEF MovesTo, KeepsArgs, KeepsPlace, Created, OpFits, Leaving, Removing, Changes, Lookups
  <2>11. CASE LockGame(t)
    <3>1. UNCHANGED <<live, owner, guest, next>>
      BY <2>11 DEF LockGame
    <3> QED
      BY <2>11, <1>0, <3>1, LockGameMoves DEF MovesTo, KeepsArgs, KeepsPlace, Created, OpFits, Leaving, Removing, Changes, Lookups
  <2>12. CASE Handoff(t)
    <3>1. UNCHANGED <<live, owner, guest, next>>
      BY <2>12 DEF Handoff, heap
    <3> QED
      BY <2>12, <1>0, <3>1, HandoffMoves DEF MovesTo, KeepsArgs, KeepsPlace, Created, OpFits, Leaving, Removing, Changes, Lookups
  <2>13. CASE Change(t)
    <3>1. UNCHANGED <<live, next>>
      BY <2>13 DEF Change, JoinSeats, DecisionSeats, PostGameSeats
    <3>2. th[t].pc = "change" /\ MovesTo(t, "unlock_g") /\ KeepsArgs(t) /\ KeepsPlace(t)
      BY <2>13, ChangeMoves
    <3>3. \A n \in Nodes : n # th[t].curr => owner'[n] = owner[n] /\ guest'[n] = guest[n]
      BY <1>0, <2>13 DEF Change, JoinSeats, DecisionSeats, PostGameSeats
    <3>4. th[t].op # "create"
      BY <3>2 DEF OpFits, Changes
    <3>5. ASSUME NEW u \in Threads, u # t, th[u].op = "create", th[u].pc \in {"lock_gm", "append"}
          PROVE  owner'[th[u].curr] = u /\ guest'[th[u].curr] = NULL
      <4>1. th[u].curr \in live /\ owner[th[u].curr] = u /\ guest[th[u].curr] = NULL
        BY <3>5 DEF Created
      <4>2. th[u].curr # th[t].curr
        BY <3>2, <3>5, Apart DEF Locking, Removing
      <4> QED
        BY <1>0, <3>3, <4>1, <4>2
    <3> QED
      BY <1>0, <3>1, <3>2, <3>4, <3>5 DEF MovesTo, KeepsArgs, KeepsPlace, Created
  <2>14. CASE UnlockGame(t)
    <3>1. UNCHANGED <<live, owner, guest, next>>
      BY <2>14 DEF UnlockGame
    <3> QED
      BY <2>14, <1>0, <3>1, UnlockGameMoves DEF MovesTo, KeepsArgs, KeepsPlace, Created, OpFits, Leaving, Removing, Changes, Lookups
  <2>15. CASE Read(t)
    <3>0. th[t].curr \in Nodes
      BY <2>15 DEF Read, At, LocksHeld, Locking
    <3>1. UNCHANGED <<live, owner, guest, next>>
      BY <2>15 DEF Read
    <3> QED
      BY <2>15, <1>0, <3>0, <3>1, ReadMoves DEF MovesTo, KeepsArgs, KeepsPlace, Created, OpFits
  <2>16. CASE Vacate(t)
    <3>0. th[t].curr \in Nodes
      BY <2>16 DEF Vacate, At, LocksHeld, Locking
    <3>1. UNCHANGED <<live, next>>
      BY <2>16 DEF Vacate
    <3>2. th[t].pc = "vacate" /\ th'[t].op = th[t].op /\ \A u \in Threads : u # t => th'[u] = th[u]
      BY <2>16, <3>0, VacateMoves DEF MovesTo, KeepsArgs
    <3>3. \A n \in Nodes : n # th[t].curr => owner'[n] = owner[n] /\ guest'[n] = guest[n]
      BY <1>0, <2>16 DEF Vacate
    <3>4. th[t].op # "create"
      BY <3>2 DEF OpFits, Leaving
    <3>5. ASSUME NEW u \in Threads, u # t, th[u].op = "create", th[u].pc \in {"lock_gm", "append"}
          PROVE  owner'[th[u].curr] = u /\ guest'[th[u].curr] = NULL
      <4>1. th[u].curr \in live /\ owner[th[u].curr] = u /\ guest[th[u].curr] = NULL
        BY <3>5 DEF Created
      <4>2. th[u].curr # th[t].curr
        BY <3>2, <3>5, Apart DEF Locking, Removing
      <4> QED
        BY <1>0, <3>3, <4>1, <4>2
    <3> QED
      BY <1>0, <3>1, <3>2, <3>4, <3>5 DEF Created
  <2>17. CASE ReleaseGame(t)
    <3>1. UNCHANGED <<live, owner, guest, next>>
      BY <2>17 DEF ReleaseGame
    <3> QED
      BY <2>17, <1>0, <3>1, ReleaseGameMoves DEF MovesTo, KeepsArgs, KeepsPlace, Created, OpFits, Leaving, Removing, Changes, Lookups
  <2>18. CASE Unlink(t)
    <3>1. UNCHANGED <<live, owner, guest>> /\ (next' = next \/ (th[t].prev # NULL /\ next' = [next EXCEPT ![th[t].prev] = next[th[t].curr]]))
      BY <2>18 DEF Unlink
    <3>2. th[t].pc = "unlink" /\ MovesTo(t, "fix_tail") /\ KeepsArgs(t) /\ KeepsPlace(t)
      BY <2>18, UnlinkMoves
    <3>3. th[t].op = "leave"
      BY <3>2 DEF OpFits, Leaving
    <3>4. th[t].prev # NULL => ~Hidden(th[t].prev)
      BY <3>2, <3>3, CurrentNodes DEF ListInv, Placed, PlacedAt, Lookups, InList
    <3>5. ASSUME NEW u \in Threads, th[u].op = "create", th[u].pc \in {"lock_gm", "append"},
                 th[t].prev # NULL
          PROVE  th[u].curr # th[t].prev
      BY <3>4, <3>5 DEF Hidden
    <3> QED
      BY <1>0, <3>1, <3>2, <3>3, <3>5 DEF MovesTo, KeepsArgs, KeepsPlace, Created
  <2>19. CASE FixTail(t)
    <3>1. UNCHANGED <<live, owner, guest, next>>
      BY <2>19 DEF FixTail, heap
    <3> QED
      BY <2>19, <1>0, <3>1, FixTailMoves DEF MovesTo, KeepsArgs, KeepsPlace, Created, OpFits, Leaving, Removing, Changes, Lookups
  <2>20. CASE UnlockFreed(t)
    <3>1. UNCHANGED <<live, owner, guest, next>>
      BY <2>20 DEF UnlockFreed
    <3> QED
      BY <2>20, <1>0, <3>1, UnlockFreedMoves DEF MovesTo, KeepsArgs, KeepsPlace, Created, OpFits, Leaving, Removing, Changes, Lookups
  <2>21. CASE Free(t)
    <3>1. UNCHANGED <<owner, guest>> /\ live' = live \ {th[t].curr} /\ next' = [next EXCEPT ![th[t].curr] = NULL]
      BY <2>21 DEF Free
    <3>2. th[t].pc = "free" /\ MovesTo(t, "unlock_gm") /\ KeepsArgs(t) /\ KeepsPlace(t)
      BY <2>21, FreeMoves
    <3>3. th[t].op = "leave" /\ owner[th[t].curr] = NULL
      BY <3>2 DEF OpFits, Leaving, Removing, Abandoned
    <3> QED
      BY <1>0, <3>1, <3>2, <3>3 DEF MovesTo, KeepsArgs, KeepsPlace, Created
  <2> QED
    BY <1>1, <2>1, <2>2, <2>3, <2>4, <2>5, <2>6, <2>7, <2>8, <2>9, <2>10, <2>11, <2>12, <2>13, <2>14, <2>15, <2>16, <2>17, <2>18, <2>19, <2>20, <2>21 DEF Continue
<1>2. CASE UNCHANGED vars
  BY <1>2 DEF vars, Created
<1> QED
  BY <1>1, <1>2 DEF Next

(* A game that is being removed stays without an owner and allocated. *)
LEMMA AbandonedStep ==
  ASSUME NEW L, NEW m, Base, ListInv(L, m), [Next]_vars
  PROVE  Abandoned'
<1>0. /\ live \subseteq Nodes /\ next \in [Nodes -> Nodes \cup {NULL}]
      /\ owner \in [Nodes -> Threads \cup {NULL}] /\ guest \in [Nodes -> Threads \cup {NULL}]
      /\ \A t \in Threads : t # NULL
  BY NullAssumption DEF Base, TypeOK
<1> USE DEF Base
<1>1. ASSUME NEW t \in Threads, Allocate(t) \/ Call(t) \/ Continue(t)
      PROVE  Abandoned'
  <2>1. CASE Allocate(t)
    <3>1. PICK n \in Nodes \ live :
            /\ MovesTo(t, "lock_gm") /\ live' = live \cup {n} /\ owner' = [owner EXCEPT ![n] = t]
      BY <2>1, AllocateMoves
    <3>2. ASSUME NEW u \in Threads, u # t, th[u].pc \in {"unlink"} \cup Removing
          PROVE  th[u].curr \in live /\ th[u].curr # n
      BY <3>1, <3>2 DEF Abandoned
    <3> QED
      BY <1>0, <3>1, <3>2 DEF MovesTo, Abandoned, Removing
  <2>2. CASE Call(t)
    <3>1. UNCHANGED <<live, owner>>
      BY <2>2 DEF Call, heap
    <3> QED
      BY <2>2, <1>0, <3>1, CallMovesTo DEF MovesTo, KeepsPlace, Abandoned, Removing
  <2>3. CASE LockManager(t)
    <3>1. UNCHANGED <<live, owner>>
      BY <2>3 DEF LockManager, heap
    <3> QED
      BY <2>3, <1>0, <3>1, LockManagerMoves DEF MovesTo, KeepsPlace, Abandoned, Removing
  <2>4. CASE UnlockManager(t)
    <3>1. UNCHANGED <<live, owner>>
      BY <2>4 DEF UnlockManager, heap
    <3> QED
      BY <2>4, <1>0, <3>1, UnlockManagerMoves DEF MovesTo, KeepsPlace, Abandoned, Removing
  <2>5. CASE ReadId(t)
    <3>1. UNCHANGED <<live, owner>>
      BY <2>5 DEF ReadId, heap
    <3> QED
      BY <2>5, <1>0, <3>1, ReadIdMoves DEF MovesTo, KeepsPlace, Abandoned, Removing
  <2>6. CASE AppendNode(t)
    <3>1. UNCHANGED <<live, owner>>
      BY <2>6 DEF AppendNode
    <3> QED
      BY <2>6, <1>0, <3>1, AppendNodeMoves DEF MovesTo, KeepsPlace, Abandoned, Removing
  <2>7. CASE SetTail(t)
    <3>1. UNCHANGED <<live, owner>>
      BY <2>7 DEF SetTail, heap
    <3> QED
      BY <2>7, <1>0, <3>1, SetTailMoves DEF MovesTo, KeepsPlace, Abandoned, Removing
  <2>8. CASE WalkLookup(t)
    <3>1. UNCHANGED <<live, owner>>
      BY <2>8 DEF WalkLookup, heap
    <3> QED
      BY <2>8, <1>0, <3>1, WalkLookupMoves DEF MovesTo, KeepsPlace, Abandoned, Removing
  <2>9. CASE WalkList(t)
    <3>1. UNCHANGED <<live, owner>>
      BY <2>9 DEF WalkList, heap
    <3> QED
      BY <2>9, <1>0, <3>1, WalkListMoves DEF MovesTo, KeepsPlace, Abandoned, Removing
  <2>10. CASE WalkScan(t)
    <3>1. UNCHANGED <<live, owner>>
      BY <2>10 DEF WalkScan, heap
    <3> QED
      BY <2>10, <1>0, <3>1, WalkScanMoves DEF MovesTo, KeepsPlace, Abandoned, Removing
  <2>11. CASE LockGame(t)
    <3>1. UNCHANGED <<live, owner>>
      BY <2>11 DEF LockGame
    <3> QED
      BY <2>11, <1>0, <3>1, LockGameMoves DEF MovesTo, KeepsPlace, Abandoned, Removing
  <2>12. CASE Handoff(t)
    <3>1. UNCHANGED <<live, owner>>
      BY <2>12 DEF Handoff, heap
    <3> QED
      BY <2>12, <1>0, <3>1, HandoffMoves DEF MovesTo, KeepsPlace, Abandoned, Removing
  <2>13. CASE Change(t)
    <3>1. UNCHANGED live
      BY <2>13 DEF Change, JoinSeats, DecisionSeats, PostGameSeats
    <3>2. th[t].pc = "change" /\ MovesTo(t, "unlock_g")
      BY <2>13, ChangeMoves
    <3>3. \A n \in Nodes : n # th[t].curr => owner'[n] = owner[n]
      BY <1>0, <2>13 DEF Change, JoinSeats, DecisionSeats, PostGameSeats
    <3>4. ASSUME NEW u \in Threads, u # t, th[u].pc \in {"unlink"} \cup Removing
          PROVE  th[u].curr # th[t].curr
      BY <3>2, <3>4, Apart DEF Locking, Removing
    <3> QED
      BY <1>0, <3>1, <3>2, <3>3, <3>4 DEF MovesTo, Abandoned, Removing
  <2>14. CASE UnlockGame(t)
    <3>1. UNCHANGED <<live, owner>>
      BY <2>14 DEF UnlockGame
    <3> QED
      BY <2>14, <1>0, <3>1, UnlockGameMoves DEF MovesTo, KeepsPlace, Abandoned, Removing
  <2>15. CASE Read(t)
    <3>0. th[t].curr \in Nodes
      BY <2>15 DEF Read, At, LocksHeld, Locking
    <3>1. UNCHANGED <<live, owner>>
      BY <2>15 DEF Read
    <3> QED
      BY <2>15, <1>0, <3>0, <3>1, ReadMoves DEF MovesTo, KeepsPlace, Abandoned, Removing
  <2>16. CASE Vacate(t)
    <3>0. th[t].curr \in live
      BY <2>16, VacateMoves, CurrentNodes DEF Locking, Vacate, At
    <3>1. UNCHANGED live
      BY <2>16 DEF Vacate
    <3>2. /\ th[t].pc = "vacate" /\ KeepsPlace(t)
          /\ (MovesTo(t, "unlink") /\ owner'[th[t].curr] = NULL) \/ MovesTo(t, "release_g")
      BY <2>16, <1>0, <3>0, VacateMoves
    <3>3. \A u \in Threads : u # t => th[u].pc \notin {"unlink"} \cup Removing
      BY <3>2, Apart DEF Holding, Removing
    <3> QED
      BY <1>0, <3>0, <3>1, <3>2, <3>3 DEF MovesTo, KeepsPlace, Abandoned, Removing
  <2>17. CASE ReleaseGame(t)
    <3>1. UNCHANGED <<live, owner>>
      BY <2>17 DEF ReleaseGame
    <3> QED
      BY <2>17, <1>0, <3>1, ReleaseGameMoves DEF MovesTo, KeepsPlace, Abandoned, Removing
  <2>18. CASE Unlink(t)
    <3>1. UNCHANGED <<live, owner>>
      BY <2>18 DEF Unlink
    <3> QED
      BY <2>18, <1>0, <3>1, UnlinkMoves DEF MovesTo, KeepsPlace, Abandoned, Removing
  <2>19. CASE FixTail(t)
    <3>1. UNCHANGED <<live, owner>>
      BY <2>19 DEF FixTail, heap
    <3> QED
      BY <2>19, <1>0, <3>1, FixTailMoves DEF MovesTo, KeepsPlace, Abandoned, Removing
  <2>20. CASE UnlockFreed(t)
    <3>1. UNCHANGED <<live, owner>>
      BY <2>20 DEF UnlockFreed
    <3> QED
      BY <2>20, <1>0, <3>1, UnlockFreedMoves DEF MovesTo, KeepsPlace, Abandoned, Removing
  <2>21. CASE Free(t)
    <3>1. UNCHANGED owner /\ live' = live \ {th[t].curr}
      BY <2>21 DEF Free
    <3>2. th[t].pc = "free" /\ MovesTo(t, "unlock_gm")
      BY <2>21, FreeMoves
    <3>3. \A u \in Threads : u # t => th[u].pc \notin {"unlink"} \cup Removing
      BY <3>2, Apart DEF Holding, Removing
    <3> QED
      BY <1>0, <3>1, <3>2, <3>3 DEF MovesTo, Abandoned, Removing
  <2> QED
    BY <1>1, <2>1, <2>2, <2>3, <2>4, <2>5, <2>6, <2>7, <2>8, <2>9, <2>10, <2>11, <2>12, <2>13, <2>14, <2>15, <2>16, <2>17, <2>18, <2>19, <2>20, <2>21 DEF Continue
<1>2. CASE UNCHANGED vars
  BY <1>2 DEF vars, Abandoned
<1> QED
  BY <1>1, <1>2 DEF Next

-----------------------------------------------------------------------------
(* The parts that speak of the list.  All steps but two leave it as it is. *)

Elsewhere(t) ==
  \/ Allocate(t) \/ Call(t)
  \/ LockManager(t) \/ UnlockManager(t) \/ ReadId(t) \/ SetTail(t)
  \/ WalkLookup(t) \/ WalkList(t) \/ WalkScan(t)
  \/ LockGame(t) \/ Handoff(t) \/ Change(t) \/ UnlockGame(t) \/ Read(t)
  \/ Vacate(t) \/ ReleaseGame(t) \/ FixTail(t) \/ UnlockFreed(t) \/ Free(t)

(* The pointers of the list. *)
LEMMA LinksKept ==
  ASSUME NEW L, NEW m, Base, ListInv(L, m), NEW t \in Threads, Elsewhere(t)
  PROVE  head' = head /\ \A i \in 1..m : next'[L[i]] = next[L[i]]
<1>0. /\ next \in [Nodes -> Nodes \cup {NULL}]
      /\ \A i \in 1..m : L[i] \in Nodes /\ L[i] \in live /\ ~Hidden(L[i])
  BY CurrentNodes DEF Base, TypeOK, ListInv, Linked
<1>1. CASE Allocate(t)
  <2>1. PICK n \in Nodes \ live : next' = [next EXCEPT ![n] = NULL] /\ UNCHANGED head
    BY <1>1 DEF Allocate
  <2> QED
    BY <1>0, <2>1
<1>2. CASE Call(t)
  BY <1>2 DEF Call, heap
<1>3. CASE LockManager(t)
  BY <1>3 DEF LockManager, heap
<1>4. CASE UnlockManager(t)
  BY <1>4 DEF UnlockManager, heap
<1>5. CASE ReadId(t)
  BY <1>5 DEF ReadId, heap
<1>6. CASE SetTail(t)
  BY <1>6 DEF SetTail, heap
<1>7. CASE WalkLookup(t)
  BY <1>7 DEF WalkLookup, heap
<1>8. CASE WalkList(t)
  BY <1>8 DEF WalkList, heap
<1>9. CASE WalkScan(t)
  BY <1>9 DEF WalkScan, heap
<1>10. CASE LockGame(t)
  BY <1>10 DEF LockGame
<1>11. CASE Handoff(t)
  BY <1>11 DEF Handoff, heap
<1>12. CASE Change(t)
  BY <1>12 DEF Change, JoinSeats, DecisionSeats, PostGameSeats
<1>13. CASE UnlockGame(t)
  BY <1>13 DEF UnlockGame
<1>14. CASE Read(t)
  BY <1>14 DEF Read
<1>15. CASE Vacate(t)
  BY <1>15 DEF Vacate
<1>16. CASE ReleaseGame(t)
  BY <1>16 DEF ReleaseGame
<1>17. CASE FixTail(t)
  BY <1>17 DEF FixTail, heap
<1>18. CASE UnlockFreed(t)
  BY <1>18 DEF UnlockFreed
<1>19. CASE Free(t)
  <2>1. next' = [next EXCEPT ![th[t].curr] = NULL] /\ UNCHANGED head /\ th[t].pc = "free"
    BY <1>19 DEF Free, At
  <2>2. Hidden(th[t].curr)
    BY <2>1 DEF Hidden, Removing
  <2> QED
    BY <1>0, <2>1, <2>2
<1> QED
  BY <1>1, <1>2, <1>3, <1>4, <1>5, <1>6, <1>7, <1>8, <1>9, <1>10, <1>11, <1>12, <1>13, <1>14, <1>15, <1>16, <1>17, <1>18, <1>19 DEF Elsewhere

(* The games that are allocated and not hidden. *)
LEMMA NodesKept ==
  ASSUME NEW L, NEW m, Base, ListInv(L, m), NEW t \in Threads, Elsewhere(t)
  PROVE  \A n \in Nodes : (n \in live /\ ~Hidden(n))' <=> n \in live /\ ~Hidden(n)
<1> USE DEF Base
<1>1. CASE Allocate(t)
  <2>1. PICK n \in Nodes \ live :
          /\ MovesTo(t, "lock_gm") /\ th'[t].op = "create" /\ th'[t].curr = n
          /\ live' = live \cup {n} /\ th[t].pc = "idle"
    BY <1>1, AllocateMoves
  <2>2. \A k : k # n => (Hidden(k)' <=> Hidden(k))
    BY <2>1 DEF MovesTo, KeepsArgs, KeepsPlace, Hidden, Removing
  <2>3. Hidden(n)'
    BY <2>1 DEF MovesTo, KeepsArgs, KeepsPlace, Hidden, Removing
  <2> QED
    BY <2>1, <2>2, <2>3
<1>2. CASE Call(t)
  <2>1. UNCHANGED live
    BY <1>2 DEF Call, heap
  <2> QED
    BY <1>2, <2>1, CallMovesTo DEF OpFits, Changes, Leaving, MovesTo, KeepsArgs, KeepsPlace, Hidden, Removing
<1>3. CASE LockManager(t)
  <2>1. UNCHANGED live
    BY <1>3 DEF LockManager, heap
  <2> QED
    BY <1>3, <2>1, LockManagerMoves DEF OpFits, Changes, Leaving, MovesTo, KeepsArgs, KeepsPlace, Hidden, Removing
<1>4. CASE UnlockManager(t)
  <2>1. UNCHANGED live
    BY <1>4 DEF UnlockManager, heap
  <2> QED
    BY <1>4, <2>1, UnlockManagerMoves DEF OpFits, Changes, Leaving, MovesTo, KeepsArgs, KeepsPlace, Hidden, Removing
<1>5. CASE ReadId(t)
  <2>1. UNCHANGED live
    BY <1>5 DEF ReadId, heap
  <2> QED
    BY <1>5, <2>1, ReadIdMoves DEF OpFits, Changes, Leaving, MovesTo, KeepsArgs, KeepsPlace, Hidden, Removing
<1>6. CASE SetTail(t)
  <2>1. UNCHANGED live
    BY <1>6 DEF SetTail, heap
  <2> QED
    BY <1>6, <2>1, SetTailMoves DEF OpFits, Changes, Leaving, MovesTo, KeepsArgs, KeepsPlace, Hidden, Removing
<1>7. CASE WalkLookup(t)
  <2>1. UNCHANGED live
    BY <1>7 DEF WalkLookup, heap
  <2> QED
    BY <1>7, <2>1, WalkLookupMoves DEF OpFits, Changes, Leaving, MovesTo, KeepsArgs, KeepsPlace, Hidden, Removing
<1>8. CASE WalkList(t)
  <2>1. UNCHANGED live
    BY <1>8 DEF WalkList, heap
  <2> QED
    BY <1>8, <2>1, WalkListMoves DEF OpFits, Changes, Leaving, MovesTo, KeepsArgs, KeepsPlace, Hidden, Removing
<1>9. CASE WalkScan(t)
  <2>1. UNCHANGED live
    BY <1>9 DEF WalkScan, heap
  <2> QED
    BY <1>9, <2>1, WalkScanMoves DEF OpFits, Changes, Leaving, MovesTo, KeepsArgs, KeepsPlace, Hidden, Removing
<1>10. CASE LockGame(t)
  <2>1. UNCHANGED live
    BY <1>10 DEF LockGame
  <2> QED
    BY <1>10, <2>1, LockGameMoves DEF OpFits, Changes, Leaving, MovesTo, KeepsArgs, KeepsPlace, Hidden, Removing
<1>11. CASE Handoff(t)
  <2>1. UNCHANGED live
    BY <1>11 DEF Handoff, heap
  <2> QED
    BY <1>11, <2>1, HandoffMoves DEF OpFits, Changes, Leaving, MovesTo, KeepsArgs, KeepsPlace, Hidden, Removing
<1>12. CASE Change(t)
  <2>1. UNCHANGED live
    BY <1>12 DEF Change, JoinSeats, DecisionSeats, PostGameSeats
  <2> QED
    BY <1>12, <2>1, ChangeMoves DEF OpFits, Changes, Leaving, MovesTo, KeepsArgs, KeepsPlace, Hidden, Removing
<1>13. CASE UnlockGame(t)
  <2>1. UNCHANGED live
    BY <1>13 DEF UnlockGame
  <2> QED
    BY <1>13, <2>1, UnlockGameMoves DEF OpFits, Changes, Leaving, MovesTo, KeepsArgs, KeepsPlace, Hidden, Removing
<1>14. CASE Read(t)
  <2>0. th[t].curr \in Nodes
    BY <1>14 DEF Read, At, LocksHeld, Locking
  <2>1. UNCHANGED live
    BY <1>14 DEF Read
  <2> QED
    BY <1>14, <2>0, <2>1, ReadMoves DEF OpFits, Changes, Leaving, MovesTo, KeepsArgs, KeepsPlace, Hidden, Removing
<1>15. CASE Vacate(t)
  <2>0. th[t].curr \in Nodes
    BY <1>15 DEF Vacate, At, LocksHeld, Locking
  <2>1. UNCHANGED live
    BY <1>15 DEF Vacate
  <2> QED
    BY <1>15, <2>0, <2>1, VacateMoves DEF OpFits, Changes, Leaving, MovesTo, KeepsArgs, KeepsPlace, Hidden, Removing
<1>16. CASE ReleaseGame(t)
  <2>1. UNCHANGED live
    BY <1>16 DEF ReleaseGame
  <2> QED
    BY <1>16, <2>1, ReleaseGameMoves DEF OpFits, Changes, Leaving, MovesTo, KeepsArgs, KeepsPlace, Hidden, Removing
<1>17. CASE FixTail(t)
  <2>1. UNCHANGED live
    BY <1>17 DEF FixTail, heap
  <2> QED
    BY <1>17, <2>1, FixTailMoves DEF OpFits, Changes, Leaving, MovesTo, KeepsArgs, KeepsPlace, Hidden, Removing
<1>18. CASE UnlockFreed(t)
  <2>1. UNCHANGED live
    BY <1>18 DEF UnlockFreed
  <2> QED
    BY <1>18, <2>1, UnlockFreedMoves DEF OpFits, Changes, Leaving, MovesTo, KeepsArgs, KeepsPlace, Hidden, Removing
<1>19. CASE Free(t)
  <2>1. live' = live \ {th[t].curr}
    BY <1>19 DEF Free
  <2>2. th[t].pc = "free" /\ MovesTo(t, "unlock_gm") /\ KeepsArgs(t) /\ KeepsPlace(t)
    BY <1>19, FreeMoves
  <2>3. \A k : k # th[t].curr => (Hidden(k)' <=> Hidden(k))
    BY <2>2 DEF MovesTo, KeepsArgs, KeepsPlace, Hidden, Removing
  <2>4. Hidden(th[t].curr)
    BY <2>2 DEF Hidden, Removing
  <2> QED
    BY <2>1, <2>3, <2>4
<1> QED
  BY <1>1, <1>2, <1>3, <1>4, <1>5, <1>6, <1>7, <1>8, <1>9, <1>10, <1>11, <1>12, <1>13, <1>14, <1>15, <1>16, <1>17, <1>18, <1>19 DEF Elsewhere

(* The tail pointer. *)
LEMMA TailKept ==
  ASSUME NEW L, NEW m, Base, ListInv(L, m), NEW t \in Threads, Elsewhere(t)
  PROVE  TailFits(L, m)'
<1>0. TailFits(L, m)
  BY DEF ListInv
<1> USE DEF Base
<1>1. CASE Allocate(t)
  <2>1. UNCHANGED tail
    BY <1>1 DEF Allocate
  <2> QED
    BY <1>1, <1>0, <2>1, AllocateMoves DEF MovesTo, KeepsPlace, TailFits
<1>2. CASE Call(t)
  <2>1. UNCHANGED tail
    BY <1>2 DEF Call, heap
  <2> QED
    BY <1>2, <1>0, <2>1, CallMovesTo DEF MovesTo, KeepsPlace, TailFits
<1>3. CASE LockManager(t)
  <2>1. UNCHANGED tail
    BY <1>3 DEF LockManager, heap
  <2> QED
    BY <1>3, <1>0, <2>1, LockManagerMoves DEF MovesTo, KeepsPlace, TailFits
<1>4. CASE UnlockManager(t)
  <2>1. UNCHANGED tail
    BY <1>4 DEF UnlockManager, heap
  <2> QED
    BY <1>4, <1>0, <2>1, UnlockManagerMoves DEF MovesTo, KeepsPlace, TailFits
<1>5. CASE ReadId(t)
  <2>1. UNCHANGED tail
    BY <1>5 DEF ReadId, heap
  <2> QED
    BY <1>5, <1>0, <2>1, ReadIdMoves DEF MovesTo, KeepsPlace, TailFits
<1>6. CASE SetTail(t)
  <2>1. tail' = th[t].curr
    BY <1>6 DEF SetTail
  <2>2. th[t].pc = "set_tail" /\ MovesTo(t, "unlock_gm")
    BY <1>6, SetTailMoves
  <2>3. \A u \in Threads : u # t => th[u].pc \notin {"set_tail", "fix_tail"}
    BY <2>2, Apart DEF Holding
  <2> QED
    BY <1>0, <2>1, <2>2, <2>3 DEF MovesTo, TailFits, LastOf
<1>7. CASE WalkLookup(t)
  <2>1. UNCHANGED tail
    BY <1>7 DEF WalkLookup, heap
  <2> QED
    BY <1>7, <1>0, <2>1, WalkLookupMoves DEF MovesTo, KeepsPlace, TailFits
<1>8. CASE WalkList(t)
  <2>1. UNCHANGED tail
    BY <1>8 DEF WalkList, heap
  <2> QED
    BY <1>8, <1>0, <2>1, WalkListMoves DEF MovesTo, KeepsPlace, TailFits
<1>9. CASE WalkScan(t)
  <2>1. UNCHANGED tail
    BY <1>9 DEF WalkScan, heap
  <2> QED
    BY <1>9, <1>0, <2>1, WalkScanMoves DEF MovesTo, KeepsPlace, TailFits
<1>10. CASE LockGame(t)
  <2>1. UNCHANGED tail
    BY <1>10 DEF LockGame
  <2> QED
    BY <1>10, <1>0, <2>1, LockGameMoves DEF MovesTo, KeepsPlace, TailFits
<1>11. CASE Handoff(t)
  <2>1. UNCHANGED tail
    BY <1>11 DEF Handoff, heap
  <2> QED
    BY <1>11, <1>0, <2>1, HandoffMoves DEF MovesTo, KeepsPlace, TailFits
<1>12. CASE Change(t)
  <2>1. UNCHANGED tail
    BY <1>12 DEF Change, JoinSeats, DecisionSeats, PostGameSeats
  <2> QED
    BY <1>12, <1>0, <2>1, ChangeMoves DEF MovesTo, KeepsPlace, TailFits
<1>13. CASE UnlockGame(t)
  <2>1. UNCHANGED tail
    BY <1>13 DEF UnlockGame
  <2> QED
    BY <1>13, <1>0, <2>1, UnlockGameMoves DEF MovesTo, KeepsPlace, TailFits
<1>14. CASE Read(t)
  <2>0. th[t].curr \in Nodes
    BY <1>14 DEF Read, At, LocksHeld, Locking
  <2>1. UNCHANGED tail
    BY <1>14 DEF Read
  <2> QED
    BY <1>14, <1>0, <2>0, <2>1, ReadMoves DEF MovesTo, KeepsPlace, TailFits
<1>15. CASE Vacate(t)
  <2>0. th[t].curr \in Nodes
    BY <1>15 DEF Vacate, At, LocksHeld, Locking
  <2>1. UNCHANGED tail
    BY <1>15 DEF Vacate
  <2> QED
    BY <1>15, <1>0, <2>0, <2>1, VacateMoves DEF MovesTo, KeepsPlace, TailFits
<1>16. CASE ReleaseGame(t)
  <2>1. UNCHANGED tail
    BY <1>16 DEF ReleaseGame
  <2> QED
    BY <1>16, <1>0, <2>1, ReleaseGameMoves DEF MovesTo, KeepsPlace, TailFits
<1>17. CASE FixTail(t)
  <2>1. tail' = IF tail = th[t].curr THEN th[t].prev ELSE tail
    BY <1>17 DEF FixTail
  <2>2. th[t].pc = "fix_tail" /\ MovesTo(t, "unlock_freed")
    BY <1>17, FixTailMoves
  <2>3. \A u \in Threads : u # t => th[u].pc \notin {"set_tail", "fix_tail"}
    BY <2>2, Apart DEF Holding
  <2> QED
    BY <1>0, <2>1, <2>2, <2>3 DEF MovesTo, TailFits
<1>18. CASE UnlockFreed(t)
  <2>1. UNCHANGED tail
    BY <1>18 DEF UnlockFreed
  <2> QED
    BY <1>18, <1>0, <2>1, UnlockFreedMoves DEF MovesTo, KeepsPlace, TailFits
<1>19. CASE Free(t)
  <2>1. UNCHANGED tail
    BY <1>19 DEF Free
  <2> QED
    BY <1>19, <1>0, <2>1, FreeMoves DEF MovesTo, KeepsPlace, TailFits
<1> QED
  BY <1>1, <1>2, <1>3, <1>4, <1>5, <1>6, <1>7, <1>8, <1>9, <1>10, <1>11, <1>12, <1>13, <1>14, <1>15, <1>16, <1>17, <1>18, <1>19 DEF Elsewhere

(* From a node of the list, next leads to a node of the list or ends. *)
LEMMA NextInList ==
  ASSUME NEW L, NEW m, ListInv(L, m), NEW n, InList(L, m, n)
  PROVE  next[n] = NULL \/ InList(L, m, next[n])
<1>1. PICK i \in 1..m : L[i] = n
  BY DEF InList
<1>2. m \in Nat /\ next[L[i]] = IF i = m THEN NULL ELSE L[i + 1]
  BY DEF ListInv, Linked
<1>3. i # m => i + 1 \in 1..m
  BY <1>2
<1> QED
  BY <1>1, <1>2, <1>3 DEF InList

(* The thread that takes the step. *)
LEMMA OwnPlaceKept ==
  ASSUME NEW L, NEW m, Base, ListInv(L, m), NEW t \in Threads, Elsewhere(t)
  PROVE  PlacedAt(L, m, t)'
<1>0. /\ PlacedAt(L, m, t) /\ Linked(L, m)
      /\ head' = head /\ \A i \in 1..m : next'[L[i]] = next[L[i]]
  BY LinksKept DEF ListInv, Placed
<1> USE DEF Base
<1>1. CASE Allocate(t)
  BY <1>1, <1>0, AllocateMoves DEF PlacedAt, MovesTo
<1>2. CASE Call(t)
  BY <1>2, <1>0, CallMovesTo DEF PlacedAt, MovesTo
<1>3. CASE LockManager(t)
  <2>1. th'[t].pc \in {"append", "walk"} /\ (th'[t].pc = "walk" => th'[t].prev = NULL /\ th'[t].curr = head)
    BY <1>3, LockManagerMoves DEF MovesTo
  <2>2. head = NULL \/ InList(L, m, head)
    BY <1>0 DEF Linked, InList
  <2> QED
    BY <1>0, <2>1, <2>2 DEF PlacedAt, InList
<1>4. CASE UnlockManager(t)
  BY <1>4, <1>0, UnlockManagerMoves DEF PlacedAt, OpFits, MovesTo, KeepsArgs, KeepsPlace, Lookups, Changes, Leaving, Removing
<1>5. CASE ReadId(t)
  BY <1>5, <1>0, ReadIdMoves DEF PlacedAt, OpFits, MovesTo, KeepsArgs, KeepsPlace, Lookups, Changes, Leaving, Removing
<1>6. CASE SetTail(t)
  BY <1>6, <1>0, SetTailMoves DEF PlacedAt, OpFits, MovesTo, KeepsArgs, KeepsPlace, Lookups, Changes, Leaving, Removing
<1>7. CASE WalkLookup(t)
  <2>1. CASE th'[t].pc # "walk"
    <3>1. /\ th[t].pc = "walk" /\ th'[t].op = th[t].op /\ th'[t].curr = th[t].curr /\ th'[t].prev = th[t].prev
          /\ th'[t].pc \in {"lock_g", "unlock_gm"} /\ (th'[t].pc # "unlock_gm" => th[t].curr # NULL)
      BY <1>7, <2>1, NullAssumption, WalkLookupMoves DEF MovesTo, KeepsArgs, KeepsPlace
    <3>2. th'[t].pc # "unlock_gm" => InList(L, m, th[t].curr)
      BY <1>0, <3>1 DEF PlacedAt
    <3>3. th[t].op \in Lookups =>
            IF th[t].prev = NULL THEN th[t].curr = head
            ELSE InList(L, m, th[t].prev) /\ next'[th[t].prev] = th[t].curr
      BY <1>0, <3>1 DEF PlacedAt, InList
    <3> QED
      BY <1>0, <3>1, <3>2, <3>3 DEF PlacedAt, InList
  <2>2. CASE th'[t].pc = "walk"
    <3>1. th[t].curr \in Nodes /\ th'[t].prev = th[t].curr /\ th'[t].curr = next[th[t].curr] /\ th[t].pc = "walk"
      BY <1>7, <2>2, WalkLookupMoves DEF MovesTo
    <3>2. InList(L, m, th[t].curr)
      BY <1>0, <3>1, NullAssumption DEF PlacedAt
    <3>3. next[th[t].curr] = NULL \/ InList(L, m, next[th[t].curr])
      BY <3>2, NextInList
    <3>4. next'[th[t].curr] = next[th[t].curr]
      BY <1>0, <3>2 DEF InList
    <3> QED
      BY <2>2, <3>1, <3>2, <3>3, <3>4, NullAssumption DEF PlacedAt, InList
  <2> QED
    BY <2>1, <2>2
<1>8. CASE WalkList(t)
  <2>1. /\ th[t].pc = "walk" /\ th'[t].op = th[t].op /\ th'[t].curr = th[t].curr /\ th'[t].prev = th[t].prev
        /\ th'[t].pc \in {"lock_g", "unlock_gm"} /\ (th'[t].pc # "unlock_gm" => th[t].curr # NULL)
    BY <1>8, NullAssumption, WalkListMoves DEF MovesTo, KeepsArgs, KeepsPlace
  <2>2. th'[t].pc # "unlock_gm" => InList(L, m, th[t].curr)
    BY <1>0, <2>1 DEF PlacedAt
  <2>3. th[t].op \in Lookups =>
          IF th[t].prev = NULL THEN th[t].curr = head
          ELSE InList(L, m, th[t].prev) /\ next'[th[t].prev] = th[t].curr
    BY <1>0, <2>1 DEF PlacedAt, InList
  <2> QED
    BY <1>0, <2>1, <2>2, <2>3 DEF PlacedAt, InList
<1>9. CASE WalkScan(t)
  <2>1. /\ th[t].pc = "walk" /\ th'[t].op = "scan"
        /\ \/ th'[t].pc = "unlock_gm"
           \/ th[t].curr \in Nodes /\ th'[t].pc = "walk" /\ th'[t].curr = next[th[t].curr]
    BY <1>9, WalkScanMoves DEF MovesTo
  <2>2. th[t].curr \in Nodes => InList(L, m, th[t].curr)
    BY <1>0, <2>1, NullAssumption DEF PlacedAt
  <2>3. th[t].curr \in Nodes => next[th[t].curr] = NULL \/ InList(L, m, next[th[t].curr])
    BY <2>2, NextInList
  <2> QED
    BY <2>1, <2>3 DEF PlacedAt, InList, Lookups
<1>10. CASE LockGame(t)
  <2>1. /\ th[t].pc = "lock_g" /\ th'[t].op = th[t].op /\ th'[t].curr = th[t].curr /\ th'[t].prev = th[t].prev
        /\ th'[t].pc \in {"handoff", "vacate", "read"} 
    BY <1>10, NullAssumption, LockGameMoves DEF MovesTo, KeepsArgs, KeepsPlace
  <2>2. th'[t].pc # "unlock_gm" => InList(L, m, th[t].curr)
    BY <1>0, <2>1 DEF PlacedAt
  <2>3. th[t].op \in Lookups =>
          IF th[t].prev = NULL THEN th[t].curr = head
          ELSE InList(L, m, th[t].prev) /\ next'[th[t].prev] = th[t].curr
    BY <1>0, <2>1 DEF PlacedAt, InList
  <2> QED
    BY <1>0, <2>1, <2>2, <2>3 DEF PlacedAt, InList
<1>11. CASE Handoff(t)
  BY <1>11, <1>0, HandoffMoves DEF PlacedAt, OpFits, MovesTo, KeepsArgs, KeepsPlace, Lookups, Changes, Leaving, Removing
<1>12. CASE Change(t)
  BY <1>12, <1>0, ChangeMoves DEF PlacedAt, OpFits, MovesTo, KeepsArgs, KeepsPlace, Lookups, Changes, Leaving, Removing
<1>13. CASE UnlockGame(t)
  BY <1>13, <1>0, UnlockGameMoves DEF PlacedAt, OpFits, MovesTo, KeepsArgs, KeepsPlace, Lookups, Changes, Leaving, Removing
<1>14. CASE Read(t)
  <2>0. th[t].curr \in Nodes
    BY <1>14 DEF Read, At, LocksHeld, Locking
  <2>1. th[t].pc = "read" /\ th'[t].op = "list" /\ th'[t].pc = "walk" /\ th'[t].curr = next[th[t].curr]
    BY <1>14, <2>0, ReadMoves DEF MovesTo, OpFits
  <2>2. InList(L, m, th[t].curr)
    BY <1>0, <2>1 DEF PlacedAt
  <2>3. next[th[t].curr] = NULL \/ InList(L, m, next[th[t].curr])
    BY <2>2, NextInList
  <2> QED
    BY <2>1, <2>3 DEF PlacedAt, InList, Lookups
<1>15. CASE Vacate(t)
  <2>0. th[t].curr \in Nodes
    BY <1>15 DEF Vacate, At, LocksHeld, Locking
  <2>1. /\ th[t].pc = "vacate" /\ th'[t].op = th[t].op /\ th'[t].curr = th[t].curr /\ th'[t].prev = th[t].prev
        /\ th'[t].pc \in {"unlink", "release_g"} 
    BY <1>15, NullAssumption, <2>0, VacateMoves DEF MovesTo, KeepsArgs, KeepsPlace
  <2>2. th'[t].pc # "unlock_gm" => InList(L, m, th[t].curr)
    BY <1>0, <2>1 DEF PlacedAt
  <2>3. th[t].op \in Lookups =>
          IF th[t].prev = NULL THEN th[t].curr = head
          ELSE InList(L, m, th[t].prev) /\ next'[th[t].prev] = th[t].curr
    BY <1>0, <2>1 DEF PlacedAt, InList
  <2> QED
    BY <1>0, <2>1, <2>2, <2>3 DEF PlacedAt, InList
<1>16. CASE ReleaseGame(t)
  BY <1>16, <1>0, ReleaseGameMoves DEF PlacedAt, OpFits, MovesTo, KeepsArgs, KeepsPlace, Lookups, Changes, Leaving, Removing
<1>17. CASE FixTail(t)
  BY <1>17, <1>0, FixTailMoves DEF PlacedAt, OpFits, MovesTo, KeepsArgs, KeepsPlace, Lookups, Changes, Leaving, Removing
<1>18. CASE UnlockFreed(t)
  BY <1>18, <1>0, UnlockFreedMoves DEF PlacedAt, OpFits, MovesTo, KeepsArgs, KeepsPlace, Lookups, Changes, Leaving, Removing
<1>19. CASE Free(t)
  BY <1>19, <1>0, FreeMoves DEF PlacedAt, OpFits, MovesTo, KeepsArgs, KeepsPlace, Lookups, Changes, Leaving, Removing
<1> QED
  BY <1>1, <1>2, <1>3, <1>4, <1>5, <1>6, <1>7, <1>8, <1>9, <1>10, <1>11, <1>12, <1>13, <1>14, <1>15, <1>16, <1>17, <1>18, <1>19 DEF Elsewhere

(* All steps but linking and unlinking keep the list. *)
LEMMA ListKept ==
  ASSUME NEW L, NEW m, Base, ListInv(L, m), NEW t \in Threads, Elsewhere(t),
         \A u \in Threads : u # t => th'[u] = th[u]
  PROVE  ListInv(L, m)'
<1>1. head' = head /\ \A i \in 1..m : next'[L[i]] = next[L[i]]
  BY LinksKept
<1>2. Linked(L, m)'
  BY <1>1 DEF ListInv, Linked
<1>3. Members(L, m)'
  BY NodesKept DEF ListInv, Members, InList
<1>4. TailFits(L, m)'
  BY TailKept
<1>5. ASSUME NEW u \in Threads
      PROVE  PlacedAt(L, m, u)'
  <2>1. CASE u = t
    BY <2>1, OwnPlaceKept
  <2>2. CASE u # t
    <3>1. PlacedAt(L, m, u) /\ th'[u] = th[u]
      BY <2>2 DEF ListInv, Placed
    <3> QED
      BY <1>1, <3>1 DEF PlacedAt, InList
  <2> QED
    BY <2>1, <2>2
<1> QED
  BY <1>2, <1>3, <1>4, <1>5 DEF ListInv, Placed

\* The list with one more node.
Longer(L, m, n) == [i \in 1..(m + 1) |-> IF i = m + 1 THEN n ELSE L[i]]

(* Appending lengthens the list by the new game. *)
LEMMA AppendExtends ==
  ASSUME NEW L, NEW m, Base, ListInv(L, m), NEW t \in Threads, AppendNode(t),
         NEW n, n = th[t].curr
  PROVE  ListInv(Longer(L, m, n), m + 1)'
<1> DEFINE K == Longer(L, m, n)
<1> USE DEF Base
<1>1. th[t].pc = "append" /\ MovesTo(t, "set_tail") /\ KeepsArgs(t) /\ KeepsPlace(t)
  BY AppendNodeMoves
<1>2. \A u \in Threads : u # t => th[u].pc \notin Holding
  BY <1>1, Apart DEF Holding
<1>3. th[t].op = "create" /\ n \in live /\ n \in Nodes /\ owner[n] = t /\ next[n] = NULL /\ Hidden(n)
  BY <1>1 DEF OpFits, Created, TypeOK, Hidden
<1>4. ~InList(L, m, n) /\ n # NULL
  BY <1>3, NullAssumption DEF ListInv, Members
<1>5. /\ m \in Nat /\ L \in [1..m -> Nodes]
      /\ \A i, j \in 1..m : L[i] = L[j] => i = j
      /\ head = IF m = 0 THEN NULL ELSE L[1]
      /\ \A i \in 1..m : next[L[i]] = IF i = m THEN NULL ELSE L[i + 1]
      /\ \A i \in 1..m : L[i] # n /\ L[i] # NULL
      /\ next \in [Nodes -> Nodes \cup {NULL}]
  BY <1>4, NullAssumption DEF ListInv, Linked, InList, TypeOK
<1>6. m # 0 => tail = L[m] /\ head # NULL /\ m \in 1..m
  <2>1. \A u \in Threads : th[u].pc \notin {"set_tail", "fix_tail"}
    BY <1>1, <1>2 DEF Holding
  <2>2. tail = LastOf(L, m)
    BY <2>1 DEF ListInv, TailFits
  <2> QED
    BY <1>5, <2>2 DEF LastOf
<1>7. /\ UNCHANGED live
      /\ m = 0 => head' = n /\ next' = next
      /\ m # 0 => head' = head /\ next' = [next EXCEPT ![L[m]] = n]
  BY <1>5, <1>6 DEF AppendNode
<1>8. /\ K \in [1..(m + 1) -> Nodes] /\ K[m + 1] = n
      /\ \A i \in 1..m : i \in 1..(m + 1) /\ K[i] = L[i]
      /\ \A i \in 1..(m + 1) : i = m + 1 \/ i \in 1..m
      /\ m + 1 \in Nat /\ m + 1 \in 1..(m + 1)
  BY <1>3, <1>5 DEF Longer
<1> HIDE DEF K
<1>9. \A i, j \in 1..(m + 1) : K[i] = K[j] => i = j
  BY <1>5, <1>8
<1>10. head' = K[1]
  BY <1>5, <1>7, <1>8
<1>11. \A i \in 1..(m + 1) : next'[K[i]] = IF i = m + 1 THEN NULL ELSE K[i + 1]
  <2>1. ASSUME NEW i \in 1..m, i # m
        PROVE  next'[K[i]] = K[i + 1]
    <3>1. i + 1 \in 1..m /\ m # 0 /\ K[i] = L[i] /\ L[i] # L[m] /\ L[i] \in Nodes
      BY <1>5, <1>8, <2>1
    <3> QED
      BY <1>5, <1>7, <1>8, <2>1, <3>1
  <2>2. m # 0 => next'[K[m]] = K[m + 1]
    <3>1. m # 0 => m \in 1..m /\ K[m] = L[m] /\ L[m] \in Nodes
      BY <1>5, <1>8
    <3> QED
      BY <1>5, <1>7, <1>8, <3>1
  <2>3. next'[K[m + 1]] = NULL
    <3>1. m # 0 => L[m] # n
      BY <1>5
    <3> QED
      BY <1>3, <1>5, <1>7, <1>8, <3>1
  <2> QED
    BY <1>5, <1>8, <2>1, <2>2, <2>3
<1>12. Linked(K, m + 1)'
  BY <1>5, <1>8, <1>9, <1>10, <1>11 DEF Linked
<1>13. \A k \in Nodes : Hidden(k)' <=> Hidden(k) /\ k # n
  <2>1. \A u \in Threads : u # t /\ th[u].op = "create" /\ th[u].pc \in {"lock_gm", "append"} => th[u].curr # n
    BY <1>3 DEF Created
  <2>2. \A u \in Threads : th[u].pc \notin Removing
    BY <1>1, <1>2 DEF Removing, Holding
  <2>3. /\ \A u \in Threads : u # t => th'[u] = th[u]
        /\ th'[t].pc = "set_tail" /\ th[t].pc = "append" /\ th[t].op = "create" /\ th[t].curr = n
    BY <1>1, <1>3 DEF MovesTo
  <2>4. ASSUME NEW k \in Nodes, Hidden(k)'
        PROVE  Hidden(k) /\ k # n
    <3>1. PICK u \in Threads : th'[u].curr = k /\ (\/ th'[u].op = "create" /\ th'[u].pc \in {"lock_gm", "append"}
                                                  \/ th'[u].pc \in Removing)
      BY <2>4 DEF Hidden
    <3>2. u # t
      BY <2>3, <3>1 DEF Removing
    <3> QED
      BY <2>1, <2>2, <2>3, <3>1, <3>2 DEF Hidden
  <2>5. ASSUME NEW k \in Nodes, Hidden(k), k # n
        PROVE  Hidden(k)'
    <3>1. PICK u \in Threads : th[u].curr = k /\ (\/ th[u].op = "create" /\ th[u].pc \in {"lock_gm", "append"}
                                                 \/ th[u].pc \in Removing)
      BY <2>5 DEF Hidden
    <3>2. u # t
      BY <2>3, <2>5, <3>1
    <3> QED
      BY <2>3, <3>1, <3>2 DEF Hidden
  <2> QED
    BY <2>4, <2>5
<1>14. Members(K, m + 1)'
  <2>1. \A k \in Nodes : InList(K, m + 1, k) <=> InList(L, m, k) \/ k = n
    BY <1>8 DEF InList
  <2>2. \A k \in Nodes : InList(L, m, k) <=> k \in live /\ ~Hidden(k)
    BY DEF ListInv, Members
  <2>3. n \in live
    BY <1>3
  <2>4. \A k \in Nodes : InList(K, m + 1, k) <=> (k \in live' /\ ~Hidden(k)')
    BY <1>4, <1>7, <1>13, <2>1, <2>2, <2>3
  <2> QED
    BY <2>4 DEF Members, InList
<1>15. TailFits(K, m + 1)'
  <2>1. th'[t].pc = "set_tail" /\ th'[t].curr = n /\ \A u \in Threads : u # t => th'[u].pc \notin Holding
    BY <1>1, <1>2 DEF MovesTo, KeepsPlace
  <2> QED
    BY <1>5, <1>8, <2>1 DEF TailFits, Holding
<1>16. Placed(K, m + 1)'
  <2>1. ASSUME NEW u \in Threads
        PROVE  PlacedAt(K, m + 1, u)'
    <3>1. CASE u = t
      BY <1>1, <3>1 DEF PlacedAt, MovesTo
    <3>2. CASE u # t
      <4>1. th'[u] = th[u] /\ th[u].pc \notin Holding /\ PlacedAt(L, m, u)
        BY <1>1, <1>2, <3>2 DEF MovesTo, ListInv, Placed
      <4>2. th[u].pc \in {"change", "unlock_g"} => InList(K, m + 1, th[u].curr)
        BY <1>8, <4>1 DEF PlacedAt, InList
      <4> QED
        BY <4>1, <4>2 DEF PlacedAt, Holding, InList
    <3> QED
      BY <3>1, <3>2
  <2> QED
    BY <2>1 DEF Placed
<1> QED
  BY <1>12, <1>14, <1>15, <1>16 DEF ListInv, K

\* The list without its i-th node.
Shorter(L, m, i) == [k \in 1..(m - 1) |-> IF k < i THEN L[k] ELSE L[k + 1]]

(* Unlinking takes out the game at the thread's position. *)
LEMMA UnlinkShortens ==
  ASSUME NEW L, NEW m, Base, ListInv(L, m), NEW t \in Threads, Unlink(t),
         NEW i \in 1..m, L[i] = th[t].curr
  PROVE  ListInv(Shorter(L, m, i), m - 1)'
<1> DEFINE n == th[t].curr
           K == Shorter(L, m, i)
<1> USE DEF Base
<1>1. th[t].pc = "unlink" /\ MovesTo(t, "fix_tail") /\ KeepsArgs(t) /\ KeepsPlace(t)
  BY UnlinkMoves
<1>2. \A u \in Threads : u # t => th[u].pc \notin Holding /\ (th[u].pc \in Locking => th[u].curr # n)
  BY <1>1, Apart DEF Holding, Locking
<1>3. /\ m \in Nat /\ L \in [1..m -> Nodes]
      /\ \A j, k \in 1..m : L[j] = L[k] => j = k
      /\ head = IF m = 0 THEN NULL ELSE L[1]
      /\ \A j \in 1..m : next[L[j]] = IF j = m THEN NULL ELSE L[j + 1]
      /\ \A j \in 1..m : L[j] \in Nodes /\ L[j] # NULL
      /\ next \in [Nodes -> Nodes \cup {NULL}]
  BY NullAssumption DEF ListInv, Linked, TypeOK
<1>4. th[t].op = "leave"
  BY <1>1 DEF OpFits, Leaving
<1>5. th[t].prev = IF i = 1 THEN NULL ELSE L[i - 1]
  <2>1. IF th[t].prev = NULL THEN L[i] = head
        ELSE InList(L, m, th[t].prev) /\ next[th[t].prev] = L[i]
    BY <1>1, <1>4 DEF ListInv, Placed, PlacedAt, Lookups
  <2>2. CASE th[t].prev = NULL
    BY <1>3, <2>1, <2>2
  <2>3. CASE th[t].prev # NULL
    <3>1. PICK j \in 1..m : L[j] = th[t].prev
      BY <2>1, <2>3 DEF InList
    <3>2. next[L[j]] = L[i]
      BY <2>1, <2>3, <3>1
    <3>3. j # m /\ j + 1 \in 1..m /\ L[j + 1] = L[i]
      BY <1>3, <3>2
    <3>4. j + 1 = i
      BY <1>3, <3>3
    <3> QED
      BY <1>3, <3>1, <3>4
  <2> QED
    BY <2>2, <2>3
<1>6. tail = L[m] /\ m \in 1..m /\ m # 0
  <2>1. \A u \in Threads : th[u].pc \notin {"set_tail", "fix_tail"}
    BY <1>1, <1>2 DEF Holding
  <2>2. tail = LastOf(L, m)
    BY <2>1 DEF ListInv, TailFits
  <2> QED
    BY <1>3, <2>2 DEF LastOf
<1>7. /\ UNCHANGED <<live, tail>>
      /\ i = 1 => head' = next[L[1]] /\ next' = next
      /\ i # 1 => head' = head /\ next' = [next EXCEPT ![L[i - 1]] = next[L[i]]]
  <2>1. i # 1 => i - 1 \in 1..m
    BY <1>3
  <2> QED
    BY <1>3, <1>5, <2>1 DEF Unlink
<1>8. /\ m - 1 \in Nat /\ K \in [1..(m - 1) -> Nodes]
      /\ \A k \in 1..(m - 1) : k \in 1..m /\ k + 1 \in 1..m /\ K[k] = IF k < i THEN L[k] ELSE L[k + 1]
  BY <1>3, <1>6 DEF Shorter
<1> HIDE DEF n, K
<1>9. \A j, k \in 1..(m - 1) : K[j] = K[k] => j = k
  <2>1. ASSUME NEW j \in 1..(m - 1), NEW k \in 1..(m - 1), K[j] = K[k]
        PROVE  j = k
    <3>1. (IF j < i THEN j ELSE j + 1) = (IF k < i THEN k ELSE k + 1)
      BY <1>3, <1>8, <2>1
    <3> QED
      BY <1>3, <3>1
  <2> QED
    BY <2>1
<1>10. head' = IF m - 1 = 0 THEN NULL ELSE K[1]
  <2>1. CASE m = 1
    BY <1>3, <1>7, <2>1
  <2>2. CASE m # 1
    <3>1. 1 \in 1..(m - 1) /\ 1 \in 1..m
      BY <1>3, <1>6, <2>2
    <3>2. K[1] = IF 1 < i THEN L[1] ELSE L[2]
      BY <1>8, <3>1
    <3> QED
      BY <1>3, <1>6, <1>7, <2>2, <3>1, <3>2
  <2> QED
    BY <2>1, <2>2
<1>11. \A k \in 1..(m - 1) : next'[K[k]] = IF k = m - 1 THEN NULL ELSE K[k + 1]
  <2> SUFFICES ASSUME NEW k \in 1..(m - 1)
               PROVE  next'[K[k]] = IF k = m - 1 THEN NULL ELSE K[k + 1]
    OBVIOUS
  <2>1. k # m - 1 => k + 1 \in 1..(m - 1) /\ K[k + 1] = IF k + 1 < i THEN L[k + 1] ELSE L[k + 2]
    BY <1>3, <1>8
  <2>2. CASE k + 1 = i
    <3>1. i # 1 /\ i - 1 = k /\ K[k] = L[k] /\ k \in 1..m
      BY <1>3, <1>8, <2>2
    <3>2. next'[L[k]] = next[L[i]]
      BY <1>3, <1>7, <3>1
    <3> QED
      BY <1>3, <2>1, <2>2, <3>1, <3>2
  <2>3. CASE k + 1 # i
    <3>1. K[k] = IF k < i THEN L[k] ELSE L[k + 1]
      BY <1>8
    <3>2. k \in 1..m /\ k + 1 \in 1..m
      BY <1>8
    <3>3. i # 1 => i - 1 \in 1..m /\ K[k] # L[i - 1]
      BY <1>3, <2>3, <3>1, <3>2
    <3>4. next'[K[k]] = next[K[k]]
      BY <1>3, <1>7, <3>1, <3>2, <3>3
    <3> QED
      BY <1>3, <2>1, <2>3, <3>1, <3>2, <3>4
  <2> QED
    BY <2>2, <2>3
<1>12. Linked(K, m - 1)'
  BY <1>8, <1>9, <1>10, <1>11 DEF Linked
<1>13. \A k \in Nodes : Hidden(k)' <=> Hidden(k) \/ k = n
  <2>1. /\ \A u \in Threads : u # t => th'[u] = th[u]
        /\ th'[t].pc = "fix_tail" /\ th[t].pc = "unlink" /\ th'[t].curr = n
    BY <1>1 DEF MovesTo, KeepsPlace, n
  <2> QED
    BY <2>1 DEF Hidden, Removing
<1>14. Members(K, m - 1)'
  <2>1. ASSUME NEW k \in Nodes, InList(L, m, k), k # n
        PROVE  InList(K, m - 1, k)
    <3>1. PICK j \in 1..m : L[j] = k
      BY <2>1 DEF InList
    <3>2. j # i
      BY <2>1, <3>1 DEF n
    <3>3. CASE j < i
      <4>1. j \in 1..(m - 1) /\ K[j] = L[j]
        BY <1>3, <1>8, <3>3
      <4> QED
        BY <3>1, <4>1 DEF InList
    <3>4. CASE i < j
      <4>1. j - 1 \in 1..(m - 1) /\ ~(j - 1 < i) /\ (j - 1) + 1 = j
        BY <1>3, <3>4
      <4>2. K[j - 1] = L[j]
        BY <1>8, <4>1
      <4> QED
        BY <3>1, <4>1, <4>2 DEF InList
    <3> QED
      BY <1>3, <3>2, <3>3, <3>4
  <2>2. ASSUME NEW k \in Nodes, InList(K, m - 1, k)
        PROVE  InList(L, m, k) /\ k # n
    <3>1. PICK j \in 1..(m - 1) : K[j] = k
      BY <2>2 DEF InList
    <3>2. j \in 1..m /\ j + 1 \in 1..m /\ k = IF j < i THEN L[j] ELSE L[j + 1]
      BY <1>8, <3>1
    <3> QED
      BY <1>3, <3>2 DEF InList, n
  <2>3. \A k \in Nodes : InList(L, m, k) <=> k \in live /\ ~Hidden(k)
    BY DEF ListInv, Members
  <2>4. \A k \in Nodes : InList(K, m - 1, k) <=> (k \in live' /\ ~Hidden(k)')
    BY <1>7, <1>13, <2>1, <2>2, <2>3
  <2> QED
    BY <2>4 DEF Members, InList
<1>15. TailFits(K, m - 1)'
  <2>1. th'[t].pc = "fix_tail" /\ th'[t].curr = n /\ th'[t].prev = th[t].prev
        /\ \A u \in Threads : u # t => th'[u].pc \notin Holding
    BY <1>1, <1>2 DEF MovesTo, KeepsPlace, n
  <2>2. LastOf(K, m - 1) = IF tail = n THEN th[t].prev ELSE tail
    <3>1. tail = n <=> i = m
      BY <1>3, <1>6 DEF n
    <3>2. m # 1 => m - 1 \in 1..(m - 1) /\ K[m - 1] = IF m - 1 < i THEN L[m - 1] ELSE L[m]
      BY <1>3, <1>6, <1>8
    <3> QED
      BY <1>3, <1>5, <1>6, <3>1, <3>2 DEF LastOf
  <2>3. tail' = tail
    BY <1>7
  <2>4. \A u \in Threads : th'[u].pc # "set_tail" /\ (th'[u].pc = "fix_tail" => u = t)
    BY <2>1 DEF Holding
  <2> QED
    BY <2>1, <2>2, <2>3, <2>4 DEF TailFits, LastOf
<1>16. Placed(K, m - 1)'
  <2>1. ASSUME NEW u \in Threads
        PROVE  PlacedAt(K, m - 1, u)'
    <3>1. CASE u = t
      BY <1>1, <3>1 DEF PlacedAt, MovesTo
    <3>2. CASE u # t
      <4>1. th'[u] = th[u] /\ th[u].pc \notin Holding /\ PlacedAt(L, m, u)
            /\ (th[u].pc \in Locking => th[u].curr # n)
        BY <1>1, <1>2, <3>2 DEF MovesTo, ListInv, Placed
      <4>2. th[u].pc \in {"change", "unlock_g"} => InList(K, m - 1, th[u].curr)
        <5>1. SUFFICES ASSUME th[u].pc \in {"change", "unlock_g"}
                       PROVE  InList(K, m - 1, th[u].curr)
          OBVIOUS
        <5>2. InList(L, m, th[u].curr) /\ th[u].curr # n
          BY <4>1, <5>1 DEF PlacedAt, Locking
        <5>3. PICK j \in 1..m : L[j] = th[u].curr
          BY <5>2 DEF InList
        <5>4. j # i
          BY <5>2, <5>3 DEF n
        <5>5. CASE j < i
          <6>1. j \in 1..(m - 1) /\ K[j] = L[j]
            BY <1>3, <1>8, <5>5
          <6> QED
            BY <5>3, <6>1 DEF InList
        <5>6. CASE i < j
          <6>1. j - 1 \in 1..(m - 1) /\ ~(j - 1 < i) /\ (j - 1) + 1 = j
            BY <1>3, <5>6
          <6>2. K[j - 1] = L[j]
            BY <1>8, <6>1
          <6> QED
            BY <5>3, <6>1, <6>2 DEF InList
        <5> QED
          BY <1>3, <5>4, <5>5, <5>6
      <4> QED
        BY <4>1, <4>2 DEF PlacedAt, Holding, InList
    <3> QED
      BY <3>1, <3>2
  <2> QED
    BY <2>1 DEF Placed
<1> QED
  BY <1>12, <1>14, <1>15, <1>16 DEF ListInv, K, n

-----------------------------------------------------------------------------
(* Listings. *)

(* The number of open games among the first j, from one to the next. *)
LEMMA UptoNext ==
  ASSUME NEW L, NEW j \in Nat
  PROVE  /\ Upto(L, j) \in Nat
         /\ Upto(L, 0) = 0
         /\ Upto(L, j + 1) = IF guest[L[j + 1]] = NULL THEN Upto(L, j) + 1 ELSE Upto(L, j)
<1> DEFINE S(k) == {i \in 1..k : guest[L[i]] = NULL}
<1>1. \A k \in Nat : IsFiniteSet(1..k)
  BY FS_Interval
<1>2. IsFiniteSet(S(j)) /\ Cardinality(S(j)) \in Nat
  <2>1. S(j) \subseteq 1..j
    OBVIOUS
  <2> QED
    BY <1>1, <2>1, FS_Subset, FS_CardinalityType, Zenon
<1>3. S(0) = {}
  OBVIOUS
<1>4. guest[L[j + 1]] = NULL => S(j + 1) = S(j) \cup {j + 1} /\ j + 1 \notin S(j)
  OBVIOUS
<1>5. guest[L[j + 1]] # NULL => S(j + 1) = S(j)
  OBVIOUS
<1>6. guest[L[j + 1]] = NULL => Cardinality(S(j + 1)) = Cardinality(S(j)) + 1
  BY <1>2, <1>4, FS_AddElement
<1> QED
  BY <1>2, <1>3, <1>5, <1>6, FS_EmptySet DEF Upto

(* It depends on nothing but the guests of those games. *)
LEMMA UptoSame ==
  ASSUME NEW L, NEW j \in Nat, \A k \in 1..j : guest'[L[k]] = guest[L[k]]
  PROVE  \A k \in 0..j : Upto(L, k)' = Upto(L, k)
<1> SUFFICES ASSUME NEW k \in 0..j
             PROVE  Upto(L, k)' = Upto(L, k)
  OBVIOUS
<1>1. {i \in 1..k : guest'[L[i]] = NULL} = {i \in 1..k : guest[L[i]] = NULL}
  OBVIOUS
<1> QED
  BY <1>1 DEF Upto

(* Another thread does nothing to a game that a listing has passed. *)
LEMMA PassedKept ==
  ASSUME NEW L, NEW m, Base, ListInv(L, m),
         NEW t \in Threads, NEW u \in Threads, th[u].pc \in Holding, NEW x, InList(L, m, x), lock[x] = NULL, u # t, Elsewhere(t)
  PROVE  lock'[x] = NULL /\ guest'[x] = guest[x] /\ id'[x] = id[x]
<1>0. /\ id \in [Nodes -> Ids] /\ guest \in [Nodes -> Threads \cup {NULL}]
      /\ lock \in [Nodes -> Threads \cup {NULL}]
      /\ x \in live /\ x \in Nodes /\ t # NULL /\ th[t].pc \notin Holding
  BY CurrentNodes, Apart, NullAssumption DEF InList, Base, TypeOK
<1>1. CASE Allocate(t)
  <2>1. PICK n \in Nodes \ live :
          /\ id' = [id EXCEPT ![n] = next_game_id] /\ guest' = [guest EXCEPT ![n] = NULL]
          /\ lock' = [lock EXCEPT ![n] = NULL]
    BY <1>1 DEF Allocate
  <2>2. x # n
    BY <1>0, <2>1
  <2> QED
    BY <1>0, <2>1, <2>2
<1>2. CASE Call(t)
  <2>1. UNCHANGED <<lock, guest, id>>
    BY <1>2 DEF Call, heap
  <2> QED
    BY <2>1
<1>3. CASE LockManager(t)
  <2>1. UNCHANGED <<lock, guest, id>>
    BY <1>3 DEF LockManager, heap
  <2> QED
    BY <2>1
<1>4. CASE UnlockManager(t)
  <2>1. UNCHANGED <<lock, guest, id>>
    BY <1>4 DEF UnlockManager, heap
  <2> QED
    BY <2>1
<1>5. CASE ReadId(t)
  <2>1. UNCHANGED <<lock, guest, id>>
    BY <1>5 DEF ReadId, heap
  <2> QED
    BY <2>1
<1>6. CASE SetTail(t)
  <2>1. UNCHANGED <<lock, guest, id>>
    BY <1>6 DEF SetTail, heap
  <2> QED
    BY <2>1
<1>7. CASE WalkLookup(t)
  <2>1. UNCHANGED <<lock, guest, id>>
    BY <1>7 DEF WalkLookup, heap
  <2> QED
    BY <2>1
<1>8. CASE WalkList(t)
  <2>1. UNCHANGED <<lock, guest, id>>
    BY <1>8 DEF WalkList, heap
  <2> QED
    BY <2>1
<1>9. CASE WalkScan(t)
  <2>1. UNCHANGED <<lock, guest, id>>
    BY <1>9 DEF WalkScan, heap
  <2> QED
    BY <2>1
<1>10. CASE LockGame(t)
  <2>1. th[t].pc \in Holding
    BY <1>10 DEF LockGame, At, Holding
  <2> QED
    BY <1>0, <2>1
<1>11. CASE Handoff(t)
  <2>1. UNCHANGED <<lock, guest, id>>
    BY <1>11 DEF Handoff, heap
  <2> QED
    BY <2>1
<1>12. CASE Change(t)
  <2>1. UNCHANGED <<lock, id>> /\ \A n \in Nodes : n # th[t].curr => guest'[n] = guest[n]
    BY <1>0, <1>12 DEF Change, JoinSeats, DecisionSeats, PostGameSeats
  <2>2. th[t].pc = "change"
    BY <1>12 DEF Change, JoinSeats, DecisionSeats, PostGameSeats, At
  <2>3. lock[th[t].curr] = t
    BY <2>2 DEF Base, LocksHeld, Locking
  <2> QED
    BY <1>0, <2>1, <2>3
<1>13. CASE UnlockGame(t)
  <2>1. UNCHANGED <<guest, id>> /\ lock' = [lock EXCEPT ![th[t].curr] = NULL]
    BY <1>13 DEF UnlockGame
  <2> QED
    BY <1>0, <2>1
<1>14. CASE Read(t)
  <2>1. th[t].pc \in Holding
    BY <1>14 DEF Read, At, Holding
  <2> QED
    BY <1>0, <2>1
<1>15. CASE Vacate(t)
  <2>1. th[t].pc \in Holding
    BY <1>15 DEF Vacate, At, Holding
  <2> QED
    BY <1>0, <2>1
<1>16. CASE ReleaseGame(t)
  <2>1. th[t].pc \in Holding
    BY <1>16 DEF ReleaseGame, At, Holding
  <2> QED
    BY <1>0, <2>1
<1>17. CASE FixTail(t)
  <2>1. UNCHANGED <<lock, guest, id>>
    BY <1>17 DEF FixTail, heap
  <2> QED
    BY <2>1
<1>18. CASE UnlockFreed(t)
  <2>1. th[t].pc \in Holding
    BY <1>18 DEF UnlockFreed, At, Holding
  <2> QED
    BY <1>0, <2>1
<1>19. CASE Free(t)
  <2>1. th[t].pc \in Holding
    BY <1>19 DEF Free, At, Holding
  <2> QED
    BY <1>0, <2>1
<1> QED
  BY <1>1, <1>2, <1>3, <1>4, <1>5, <1>6, <1>7, <1>8, <1>9, <1>10, <1>11, <1>12, <1>13, <1>14, <1>15, <1>16, <1>17, <1>18, <1>19 DEF Elsewhere

(* A listing keeps what it has collected while the games it has passed stay as they are. *)
LEMMA CollectedKept ==
  ASSUME NEW L, NEW m \in Nat, NEW t \in Threads, NEW i \in 1..(m + 1), Collected(L, m, t, i),
         \A j \in 1..(i - 1) : lock'[L[j]] = NULL /\ guest'[L[j]] = guest[L[j]] /\ id'[L[j]] = id[L[j]],
         th'[t].curr = th[t].curr, th'[t].found = th[t].found,
         th'[t].pc \in {"lock_g", "read"} => Len(th[t].found) < ListMax,
         th'[t].pc = "unlock_gm" => i = m + 1 \/ Len(th[t].found) = ListMax
  PROVE  Collected(L, m, t, i)'
<1>1. i - 1 \in Nat
  OBVIOUS
<1>2. \A k \in 0..(i - 1) : Upto(L, k)' = Upto(L, k)
  BY <1>1, UptoSame
<1>3. Len(th'[t].found) = Upto(L, i - 1)'
  BY <1>1, <1>2 DEF Collected
<1>4. ASSUME NEW k \in 1..Len(th'[t].found)
      PROVE  \E j \in 1..(i - 1) : guest'[L[j]] = NULL /\ Upto(L, j)' = k /\ th'[t].found[k] = id'[L[j]]
  <2>1. PICK j \in 1..(i - 1) : guest[L[j]] = NULL /\ Upto(L, j) = k /\ th[t].found[k] = id[L[j]]
    BY DEF Collected
  <2>2. Upto(L, j)' = k
    BY <1>1, <1>2, <2>1
  <2> QED
    BY <2>1, <2>2
<1> QED
  BY <1>3, <1>4 DEF Collected

(* The step of a thread that lists takes it to its next position. *)
LEMMA OwnListing ==
  ASSUME NEW L, NEW m, Base, ListInv(L, m), Listings(L, m), NEW t \in Threads, Elsewhere(t),
         th'[t].op = "list", th'[t].pc \in {"walk", "lock_g", "read", "unlock_gm"}
  PROVE  \E i \in 1..(m + 1) : Collected(L, m, t, i)'
<1> USE DEF Base
<1>0. /\ m \in Nat /\ L \in [1..m -> Nodes]
      /\ \A i, j \in 1..m : L[i] = L[j] => i = j
      /\ head = IF m = 0 THEN NULL ELSE L[1]
      /\ \A i \in 1..m : next[L[i]] = IF i = m THEN NULL ELSE L[i + 1]
      /\ \A i \in 1..m : L[i] \in Nodes /\ L[i] # NULL
      /\ lock \in [Nodes -> Threads \cup {NULL}] /\ id \in [Nodes -> Ids]
      /\ th[t].found \in Seq(Ids) /\ ListMax \in Nat /\ Len(th[t].found) \in Nat
  <2>1. ListMax \in Nat
    BY BoundAssumption
  <2>2. lock \in [Nodes -> Threads \cup {NULL}] /\ id \in [Nodes -> Ids]
    BY DEF TypeOK
  <2>3. th[t].found \in Seq(Ids)
    BY DEF TypeOK, Local
  <2>4. Len(th[t].found) \in Nat
    BY <2>3
  <2>5. Linked(L, m)
    BY DEF ListInv
  <2>6. m \in Nat /\ L \in [1..m -> Nodes] /\ \A i \in 1..m : L[i] \in Nodes /\ L[i] # NULL
    BY <2>5, NullAssumption DEF Linked
  <2> QED
    BY <2>1, <2>2, <2>3, <2>4, <2>5, <2>6 DEF Linked
<1>1. CASE LockManager(t)
  <2>1. /\ th[t].pc = "lock_gm" /\ th'[t].pc = "walk" /\ th'[t].op = th[t].op
        /\ th'[t].found = th[t].found /\ th'[t].curr = head
    BY <1>1, LockManagerMoves DEF MovesTo, KeepsArgs
  <2>2. th'[t].found = <<>>
    BY <2>1 DEF OpFits
  <2>3. 1 \in 1..(m + 1) /\ head = IF 1 = m + 1 THEN NULL ELSE L[1]
    BY <1>0
  <2>4. Len(th'[t].found) = 0
    BY <2>2
  <2>5. Upto(L, 0)' = 0
    <3>1. {i \in 1..0 : guest'[L[i]] = NULL} = {}
      OBVIOUS
    <3> QED
      BY <3>1, FS_EmptySet DEF Upto
  <2>6. Collected(L, m, t, 1)'
    BY <1>0, <2>1, <2>3, <2>4, <2>5 DEF Collected
  <2> QED
    BY <2>3, <2>6
<1>2. CASE WalkList(t)
  <2>1. /\ th[t].pc = "walk" /\ th[t].op = "list" /\ KeepsArgs(t) /\ KeepsPlace(t)
        /\ \/ th'[t].pc = "unlock_gm" /\ (th[t].curr = NULL \/ Len(th[t].found) >= ListMax)
           \/ th'[t].pc = "lock_g" /\ ~(Len(th[t].found) >= ListMax)
    BY <1>2, WalkListMoves DEF MovesTo
  <2>2. PICK i \in 1..(m + 1) : Collected(L, m, t, i)
    BY <2>1 DEF Listings
  <2>3. UNCHANGED <<lock, guest, id>>
    BY <1>2 DEF WalkList, heap
  <2>4. th[t].curr = NULL => i = m + 1
    BY <1>0, <2>2 DEF Collected
  <2>5. Len(th[t].found) >= ListMax => Len(th[t].found) = ListMax
    BY <1>0, <2>2 DEF Collected
  <2>6. \A j \in 1..(i - 1) : lock'[L[j]] = NULL /\ guest'[L[j]] = guest[L[j]] /\ id'[L[j]] = id[L[j]]
    BY <2>2, <2>3 DEF Collected
  <2>7. Collected(L, m, t, i)'
    BY <1>0, <2>1, <2>2, <2>4, <2>5, <2>6, CollectedKept, SMTT(40) DEF KeepsArgs, KeepsPlace
  <2> QED
    BY <2>7
<1>3. CASE LockGame(t)
  <2>1. th[t].pc = "lock_g" /\ KeepsArgs(t) /\ KeepsPlace(t) /\ th'[t].pc # "unlock_gm"
    BY <1>3, LockGameMoves DEF MovesTo
  <2>2. PICK i \in 1..(m + 1) : Collected(L, m, t, i)
    BY <2>1 DEF Listings, KeepsArgs
  <2>3. UNCHANGED <<guest, id>> /\ lock' = [lock EXCEPT ![th[t].curr] = t]
    BY <1>3 DEF LockGame
  <2>4. i \in 1..m /\ th[t].curr = L[i]
    <3>1. th[t].curr \in Nodes
      BY <2>1, CurrentNodes DEF TypeOK
    <3> QED
      BY <1>0, <2>2, <3>1, NullAssumption DEF Collected
  <2>5. \A j \in 1..(i - 1) : j \in 1..m /\ L[j] # L[i]
    BY <1>0, <2>4
  <2>6. \A j \in 1..(i - 1) : lock'[L[j]] = NULL /\ guest'[L[j]] = guest[L[j]] /\ id'[L[j]] = id[L[j]]
    BY <1>0, <2>2, <2>3, <2>4, <2>5 DEF Collected
  <2>7. Len(th[t].found) < ListMax
    BY <2>1, <2>2 DEF Collected
  <2>8. Collected(L, m, t, i)'
    BY <1>0, <2>1, <2>2, <2>6, <2>7, CollectedKept DEF KeepsArgs, KeepsPlace
  <2> QED
    BY <2>8
<1>4. CASE Read(t)
  <2>0. th[t].curr \in Nodes
    BY <1>4 DEF Read, At, LocksHeld, Locking
  <2>1. /\ th[t].pc = "read" /\ th'[t].pc = "walk" /\ th'[t].op = th[t].op
        /\ th'[t].curr = next[th[t].curr]
        /\ th'[t].found = IF guest[th[t].curr] = NULL
                          THEN Append(th[t].found, id[th[t].curr]) ELSE th[t].found
    BY <1>4, <2>0, ReadMoves DEF MovesTo
  <2>2. PICK i \in 1..(m + 1) : Collected(L, m, t, i)
    BY <2>1 DEF Listings
  <2>3. UNCHANGED <<guest, id>> /\ lock' = [lock EXCEPT ![th[t].curr] = NULL]
    BY <1>4 DEF Read
  <2>4. i \in 1..m /\ th[t].curr = L[i] /\ i + 1 \in 1..(m + 1) /\ i - 1 \in Nat /\ (i - 1) + 1 = i
    BY <1>0, <2>0, <2>2, NullAssumption DEF Collected
  <2>5. th'[t].curr = IF i + 1 = m + 1 THEN NULL ELSE L[i + 1]
    BY <1>0, <2>1, <2>4
  <2>6. \A j \in 1..((i + 1) - 1) : lock'[L[j]] = NULL
    <3>1. \A j \in 1..((i + 1) - 1) : j \in 1..m /\ (j = i \/ j \in 1..(i - 1))
      BY <1>0, <2>4
    <3> QED
      BY <1>0, <2>2, <2>3, <2>4, <3>1 DEF Collected
  <2>7. \A k : Upto(L, k)' = Upto(L, k)
    BY <2>3 DEF Upto
  <2>8. /\ Upto(L, i - 1) \in Nat /\ Len(th[t].found) = Upto(L, i - 1)
        /\ Upto(L, i) = IF guest[L[i]] = NULL THEN Upto(L, i - 1) + 1 ELSE Upto(L, i - 1)
    BY <2>2, <2>4, UptoNext DEF Collected
  <2>9. Len(th[t].found) < ListMax
    BY <2>1, <2>2 DEF Collected
  <2>10. id[L[i]] \in Ids
    BY <1>0, <2>4
  <2>11. Len(th'[t].found) = Upto(L, (i + 1) - 1)' /\ Len(th'[t].found) <= ListMax
    <3>1. (i + 1) - 1 = i
      BY <2>4
    <3>2. CASE guest[L[i]] = NULL
      <4>1. Len(th'[t].found) = Len(th[t].found) + 1
        BY <1>0, <2>1, <2>4, <2>10, <3>2
      <4> QED
        BY <1>0, <2>7, <2>8, <2>9, <3>1, <3>2, <4>1
    <3>3. CASE guest[L[i]] # NULL
      BY <1>0, <2>1, <2>4, <2>7, <2>8, <2>9, <3>1, <3>3
    <3> QED
      BY <3>2, <3>3
  <2>12. ASSUME NEW k \in 1..Len(th'[t].found)
         PROVE  \E j \in 1..((i + 1) - 1) :
                  guest'[L[j]] = NULL /\ Upto(L, j)' = k /\ th'[t].found[k] = id'[L[j]]
    <3>1. CASE k \in 1..Len(th[t].found)
      <4>1. PICK j \in 1..(i - 1) : guest[L[j]] = NULL /\ Upto(L, j) = k /\ th[t].found[k] = id[L[j]]
        BY <2>2, <3>1 DEF Collected
      <4>2. th'[t].found[k] = th[t].found[k]
        BY <1>0, <2>1, <2>4, <2>10, <3>1
      <4>3. j \in 1..((i + 1) - 1)
        BY <2>4
      <4> QED
        BY <2>3, <2>7, <4>1, <4>2, <4>3
    <3>2. CASE k \notin 1..Len(th[t].found)
      <4>1. guest[L[i]] = NULL
        BY <2>1, <2>4, <2>12, <3>2
      <4>2. th'[t].found = Append(th[t].found, id[L[i]])
        BY <2>1, <2>4, <4>1
      <4>3. Len(th'[t].found) = Len(th[t].found) + 1
            /\ th'[t].found[Len(th[t].found) + 1] = id[L[i]]
        BY <1>0, <2>10, <4>2
      <4>4. k = Len(th[t].found) + 1
        BY <1>0, <2>12, <3>2, <4>3
      <4>5. i \in 1..((i + 1) - 1)
        BY <2>4
      <4>6. Upto(L, i)' = k
        BY <2>7, <2>8, <4>1, <4>4
      <4> QED
        BY <2>3, <4>1, <4>3, <4>4, <4>5, <4>6
    <3> QED
      BY <3>1, <3>2
  <2>13. Collected(L, m, t, i + 1)'
    BY <2>1, <2>5, <2>6, <2>11, <2>12 DEF Collected
  <2> QED
    BY <2>4, <2>13
<1>5. ASSUME ~LockManager(t), ~WalkList(t), ~LockGame(t), ~Read(t)
      PROVE  FALSE
  <2>1. ASSUME Allocate(t) \/ Call(t) \/ UnlockManager(t) \/ ReadId(t) \/ UnlockGame(t)
        PROVE  FALSE
    BY <2>1, AllocateMoves, CallMovesTo, UnlockManagerMoves, ReadIdMoves, UnlockGameMoves DEF MovesTo, KeepsArgs
  <2>2. ASSUME SetTail(t) \/ WalkLookup(t) \/ WalkScan(t)
        PROVE  FALSE
    BY <2>2, SetTailMoves, WalkLookupMoves, WalkScanMoves DEF MovesTo, KeepsArgs, OpFits, Lookups
  <2>3. ASSUME Handoff(t) \/ Change(t)
        PROVE  FALSE
    BY <2>3, HandoffMoves, ChangeMoves DEF MovesTo
  <2>4. ASSUME Vacate(t)
        PROVE  FALSE
    <3>1. th[t].curr \in Nodes
      BY <2>4 DEF Vacate, At, LocksHeld, Locking
    <3> QED
      BY <2>4, <3>1, VacateMoves DEF MovesTo
  <2>5. ASSUME ReleaseGame(t) \/ FixTail(t) \/ UnlockFreed(t) \/ Free(t)
        PROVE  FALSE
    BY <2>5, ReleaseGameMoves, FixTailMoves, UnlockFreedMoves, FreeMoves
       DEF MovesTo, KeepsArgs, OpFits, Leaving, Removing
  <2> QED
    BY <1>5, <2>1, <2>2, <2>3, <2>4, <2>5 DEF Elsewhere
<1> QED
  BY <1>1, <1>2, <1>3, <1>4, <1>5

(* Listings survive every step that leaves the list as it is. *)
LEMMA ListingsKept ==
  ASSUME NEW L, NEW m, Base, ListInv(L, m), Listings(L, m), NEW t \in Threads, Elsewhere(t),
         \A u \in Threads : u # t => th'[u] = th[u]
  PROVE  Listings(L, m)'
<1> SUFFICES ASSUME NEW u \in Threads, th'[u].op = "list",
                    th'[u].pc \in {"walk", "lock_g", "read", "unlock_gm"}
             PROVE  \E i \in 1..(m + 1) : Collected(L, m, u, i)'
  BY DEF Listings
<1>1. CASE u = t
  BY <1>1, OwnListing
<1>2. CASE u # t
  <2>1. th'[u] = th[u]
    BY <1>2
  <2>2. PICK i \in 1..(m + 1) : Collected(L, m, u, i)
    BY <2>1 DEF Listings
  <2>3. m \in Nat
    BY DEF ListInv, Linked
  <2>4. th[u].pc \in Holding
    BY <2>1 DEF Holding
  <2>5. ASSUME NEW j \in 1..(i - 1)
        PROVE  lock'[L[j]] = NULL /\ guest'[L[j]] = guest[L[j]] /\ id'[L[j]] = id[L[j]]
    <3>1. InList(L, m, L[j]) /\ lock[L[j]] = NULL
      BY <2>2, <2>3 DEF Collected, InList
    <3> QED
      BY <1>2, <2>4, <3>1, PassedKept
  <2>6. Collected(L, m, u, i)'
    <3>1. /\ th[u].pc \in {"lock_g", "read"} => Len(th[u].found) < ListMax
          /\ th[u].pc = "unlock_gm" => i = m + 1 \/ Len(th[u].found) = ListMax
      BY <2>2 DEF Collected
    <3> QED
      BY <2>1, <2>2, <2>3, <2>5, <3>1, CollectedKept
  <2> QED
    BY <2>6
<1> QED
  BY <1>1, <1>2

-----------------------------------------------------------------------------
(* The invariant as a whole. *)
IInv == Base /\ \E L, m : ListInv(L, m) /\ Listings(L, m)

(* A step moves one thread only. *)
LEMMA OthersStay ==
  ASSUME Base, NEW t \in Threads, Allocate(t) \/ Call(t) \/ Continue(t)
  PROVE  \A u \in Threads : u # t => th'[u] = th[u]
<1> USE DEF Base, TypeOK
<1>1. ASSUME NEW p, Goto(t, p)
      PROVE  \A u \in Threads : u # t => th'[u] = th[u]
  BY <1>1 DEF Goto
<1>2. CASE Allocate(t) \/ Call(t) \/ LockManager(t) \/ ReadId(t) \/ UnlockGame(t) \/ Read(t)
  BY <1>2 DEF Allocate, Call, LockManager, ReadId, UnlockGame, Read
<1>3. CASE UnlockManager(t)
  BY <1>3, UnlockManagerMoves DEF MovesTo
<1>4. CASE AppendNode(t) \/ SetTail(t) \/ WalkList(t) \/ LockGame(t) \/ Handoff(t) \/ Change(t)
           \/ Vacate(t) \/ ReleaseGame(t) \/ Unlink(t) \/ FixTail(t) \/ UnlockFreed(t) \/ Free(t)
  BY <1>1, <1>4 DEF AppendNode, SetTail, WalkList, LockGame, Handoff, Change, JoinSeats, DecisionSeats, PostGameSeats, Vacate, ReleaseGame,
                    Unlink, FixTail, UnlockFreed, Free
<1>5. CASE WalkLookup(t) \/ WalkScan(t)
  BY <1>5, WalkLookupMoves, WalkScanMoves DEF MovesTo
<1> QED
  BY <1>2, <1>3, <1>4, <1>5 DEF Continue

(* Every step keeps the invariant. *)
LEMMA IInvStep == IInv /\ [Next]_vars => IInv'
<1> SUFFICES ASSUME IInv, [Next]_vars
             PROVE  IInv'
  OBVIOUS
<1>1. Base
  BY DEF IInv
<1>2. PICK L, m : ListInv(L, m) /\ Listings(L, m)
  BY DEF IInv
<1>3. Base'
  BY <1>1, <1>2, TypesStep, OpFitsStep, LocksHeldStep, IdsDrawnStep, CreatedStep, AbandonedStep
     DEF Base
<1>4. ASSUME NEW t \in Threads, Allocate(t) \/ Call(t) \/ Continue(t)
      PROVE  \E K, k : ListInv(K, k)' /\ Listings(K, k)'
  <2>1. \A u \in Threads : u # t => th'[u] = th[u]
    BY <1>1, <1>4, OthersStay
  <2>2. CASE Elsewhere(t)
    <3>1. ListInv(L, m)'
      BY <1>1, <1>2, <2>1, <2>2, ListKept
    <3>2. Listings(L, m)'
      BY <1>1, <1>2, <2>1, <2>2, ListingsKept
    <3> QED
      BY <3>1, <3>2
  <2>3. ASSUME th[t].pc \in Holding, th'[t].op # "list", NEW K, NEW k
        PROVE  Listings(K, k)'
    BY <1>1, <1>2, <2>1, <2>3, Apart DEF Listings, Holding
  <2>4. CASE AppendNode(t)
    <3>1. PICK n : n = th[t].curr
      OBVIOUS
    <3>2. ListInv(Longer(L, m, n), m + 1)'
      BY <1>1, <1>2, <2>4, <3>1, AppendExtends
    <3>3. th[t].pc \in Holding /\ th'[t].op # "list"
      BY <1>1, <2>4, AppendNodeMoves DEF Base, OpFits, KeepsArgs, Holding
    <3> QED
      BY <2>3, <3>2, <3>3
  <2>5. CASE Unlink(t)
    <3>1. th[t].pc = "unlink" /\ th'[t].op # "list"
      BY <1>1, <2>5, UnlinkMoves DEF Base, OpFits, KeepsArgs, Leaving
    <3>2. PICK i \in 1..m : L[i] = th[t].curr
      BY <1>2, <3>1 DEF ListInv, Placed, PlacedAt, InList
    <3>3. ListInv(Shorter(L, m, i), m - 1)'
      BY <1>1, <1>2, <2>5, <3>2, UnlinkShortens
    <3> QED
      BY <2>3, <3>1, <3>3 DEF Holding
  <2> QED
    BY <1>4, <2>2, <2>4, <2>5 DEF Continue, Elsewhere
<1>5. CASE UNCHANGED vars
  <2>1. ListInv(L, m)'
    BY <1>2, <1>5 DEF vars, ListInv, Linked, Members, Hidden, InList, TailFits, LastOf, Placed, PlacedAt
  <2>2. Listings(L, m)'
    <3>1. \A j : Upto(L, j)' = Upto(L, j)
      BY <1>5 DEF vars, Upto
    <3> QED
      BY <1>2, <1>5, <3>1 DEF vars, Listings, Collected
  <2> QED
    BY <1>3, <2>1, <2>2 DEF IInv
<1> QED
  BY <1>3, <1>4, <1>5 DEF Next, IInv

(* Nothing is allocated, linked or locked at first. *)
LEMMA IInvInit == Init => IInv
<1> SUFFICES ASSUME Init
             PROVE  IInv
  OBVIOUS
<1>1. \A t \in Threads : th[t] = Idle
  BY DEF Init
<1>2. Idle \in Local
  <2>1. 0 \in Ids /\ <<>> \in Seq(Ids)
    BY BoundAssumption DEF Ids
  <2> QED
    BY <2>1 DEF Local, Idle, Ops
<1>3. TypeOK
  <2>1. 0 \in Ids /\ 0 \in 0..MaxId
    BY BoundAssumption DEF Ids
  <2> QED
    BY <1>2, <2>1 DEF Init, TypeOK
<1>4. \A t \in Threads : th[t].pc = "idle" /\ th[t].op = "list" /\ t # NULL
  BY <1>1, NullAssumption DEF Idle
<1>5. OpFits /\ LocksHeld /\ IdsDrawn /\ Created /\ Abandoned
  BY <1>4 DEF OpFits, LocksHeld, IdsDrawn, Created, Abandoned, Holding, Locking, Leaving, Removing,
              Init
<1>6. ListInv(<<>>, 0)
  <2>1. <<>> \in [1..0 -> Nodes] /\ 0 \in Nat /\ 1..0 = {}
    OBVIOUS
  <2>2. Linked(<<>>, 0)
    BY <2>1 DEF Linked, Init
  <2>3. Members(<<>>, 0)
    BY <2>1 DEF Members, InList, Init
  <2>4. TailFits(<<>>, 0) /\ Placed(<<>>, 0)
    BY <1>4 DEF TailFits, Placed, PlacedAt, LastOf, Init
  <2> QED
    BY <2>2, <2>3, <2>4 DEF ListInv
<1>7. Listings(<<>>, 0)
  BY <1>4 DEF Listings
<1> QED
  BY <1>3, <1>5, <1>6, <1>7 DEF IInv, Base

(* The inductive invariant holds of the list with its locks. *)
THEOREM ListInvariance == Spec => []IInv
<1>1. Init => IInv
  BY IInvInit
<1>2. IInv /\ [Next]_vars => IInv'
  BY IInvStep
<1> QED
  BY <1>1, <1>2, PTL DEF Spec

(* Type correctness of the list, for any number of threads and games. *)
THEOREM ListTypeCorrect == Spec => []TypeOK
<1>1. IInv => TypeOK
  BY DEF IInv, Base
<1> QED
  BY <1>1, ListInvariance, PTL

(* No thread uses a freed game: whoever reaches a game holds the manager's lock or the *)
(* game's, and a game is freed by a thread that holds, or held, both.  Excepted is the *)
(* creator's last access (game.c:240), for which it holds neither.                     *)
THEOREM NoUseAfterFreeProved == Spec => []NoUseAfterFree
<1>1. IInv => NoUseAfterFree
  <2> SUFFICES ASSUME IInv, NEW t \in Threads, NEW n \in Touches(t),
                      th[t].pc # "read_id"
               PROVE  n \in live
    BY DEF NoUseAfterFree, At
  <2>1. Base
    BY DEF IInv
  <2>2. PICK L, m : ListInv(L, m)
    BY DEF IInv
  <2>3. n \in Nodes /\ n # NULL
    BY NullAssumption DEF Touches
  <2>4. CASE n = th[t].curr /\ th[t].pc \in {"walk", "lock_g", "change", "unlock_g", "read", "vacate",
                                             "release_g", "unlink", "unlock_freed"}
    BY <2>1, <2>2, <2>3, <2>4, CurrentNodes DEF Locking
  <2>5. CASE n = th[t].curr /\ th[t].pc = "free"
    BY <2>1, <2>5 DEF Base, Abandoned, Removing
  <2>6. CASE n = th[t].prev /\ th[t].pc = "unlink"
    <3>1. th[t].op \in Lookups
      BY <2>1, <2>6 DEF Base, OpFits, Leaving, Lookups
    <3>2. InList(L, m, n)
      BY <2>2, <2>3, <2>6, <3>1 DEF ListInv, Placed, PlacedAt
    <3> QED
      BY <2>1, <2>2, <3>2, CurrentNodes DEF InList
  <2>7. CASE n = tail /\ th[t].pc = "append" /\ head # NULL
    <3>1. \A u \in Threads : th[u].pc \notin {"set_tail", "fix_tail"}
      BY <2>1, <2>2, <2>7, Apart DEF Holding
    <3>2. tail = LastOf(L, m) /\ m \in Nat
      BY <2>2, <3>1 DEF ListInv, TailFits, Linked
    <3>3. m \in 1..m /\ tail = L[m]
      BY <2>3, <2>7, <3>2 DEF LastOf
    <3> QED
      BY <2>1, <2>2, <2>7, <3>3, CurrentNodes
  <2> QED
    BY <2>4, <2>5, <2>6, <2>7 DEF Touches
<1> QED
  BY <1>1, ListInvariance, PTL

(* The seats of a game are used in turn, except by the scan for a departing   *)
(* client's games.                                                            *)
THEOREM OnlyScanRacesProved == Spec => []OnlyScanRaces
<1>1. IInv => OnlyScanRaces
  <2> SUFFICES ASSUME IInv, NEW t \in Threads, NEW u \in Threads, NEW n \in Nodes,
                      t # u, Writes(t, n), Writes(u, n) \/ Reads(u, n)
               PROVE  Scans(u, n) /\ At(t, "change")
    BY DEF OnlyScanRaces
  <2>1. Base
    BY DEF IInv
  <2>2. LocksHeld
    BY <2>1 DEF Base
  <2>3. th[t].curr = n /\ th[t].pc \in {"change", "vacate"} /\ lock[n] = t
    BY <2>2 DEF Writes, LocksHeld, Locking
  <2>4. ~(th[u].curr = n /\ th[u].pc \in {"change", "vacate", "read"})
    BY <2>2, <2>3 DEF LocksHeld, Locking
  <2>5. Scans(u, n)
    BY <2>4 DEF Writes, Reads, At
  <2>6. th[t].pc # "vacate"
    BY <2>2, <2>5 DEF Scans, At, LocksHeld, Holding
  <2> QED
    BY <2>3, <2>5, <2>6 DEF At
<1> QED
  BY <1>1, ListInvariance, PTL

-----------------------------------------------------------------------------
(* No deadlock: a lock is only held by a thread that will release it. *)

\* The lock of a game is held by a thread that is working on that game.
LocksReleased == \A n \in Nodes : lock[n] # NULL =>
  lock[n] \in Threads /\ th[lock[n]].pc \in Locking /\ th[lock[n]].curr = n

(* What the steps do to the locks of the games: the step of thread t takes none and *)
(* needs none, keeps the one it has, or gives it back.                              *)
LEMMA GameLocks ==
  ASSUME Base, NEW t \in Threads, Call(t) \/ Continue(t), ~LockGame(t)
  PROVE  \/ lock' = lock /\ th[t].pc \notin Locking
         \/ /\ lock' = lock /\ th[t].pc \in Locking
            /\ th'[t].pc \in Locking /\ th'[t].curr = th[t].curr
         \/ th[t].curr \in Nodes /\ th[t].pc \in Locking /\ lock' = [lock EXCEPT ![th[t].curr] = NULL]
<1>1. CASE Call(t) \/ LockManager(t) \/ UnlockManager(t) \/ ReadId(t) \/ AppendNode(t) \/ SetTail(t)
           \/ WalkLookup(t) \/ WalkList(t) \/ WalkScan(t) \/ Free(t)
  BY <1>1 DEF Call, LockManager, UnlockManager, ReadId, AppendNode, SetTail, WalkLookup, WalkList,
              WalkScan, Free, At, heap, Locking
<1>2. CASE Handoff(t) \/ Change(t) \/ Unlink(t) \/ FixTail(t)
  <2>1. lock' = lock
    BY <1>2 DEF Handoff, Change, JoinSeats, DecisionSeats, PostGameSeats, Unlink, FixTail, heap
  <2> QED
    BY <1>2, <2>1, HandoffMoves, ChangeMoves, UnlinkMoves, FixTailMoves
       DEF Base, MovesTo, KeepsPlace, Locking
<1>3. CASE Vacate(t)
  <2>1. lock' = lock
    BY <1>3 DEF Vacate
  <2>2. th[t].curr \in Nodes
    BY <1>3 DEF Vacate, At, Base, LocksHeld, Locking
  <2> QED
    BY <1>3, <2>1, <2>2, VacateMoves DEF Base, MovesTo, KeepsPlace, Locking
<1>4. CASE UnlockGame(t) \/ Read(t) \/ ReleaseGame(t) \/ UnlockFreed(t)
  <2>1. th[t].pc \in Locking
    BY <1>4 DEF UnlockGame, Read, ReleaseGame, UnlockFreed, At, Locking
  <2>2. lock' = [lock EXCEPT ![th[t].curr] = NULL]
    BY <1>4 DEF UnlockGame, Read, ReleaseGame, UnlockFreed
  <2> QED
    BY <2>1, <2>2 DEF Base, LocksHeld
<1> QED
  BY <1>1, <1>2, <1>3, <1>4 DEF Continue

(* No function returns, or waits again for the manager, with a game locked. *)
LEMMA LocksReleasedStep == IInv /\ LocksReleased /\ [Next]_vars => LocksReleased'
<1> SUFFICES ASSUME IInv, LocksReleased, [Next]_vars
             PROVE  LocksReleased'
  OBVIOUS
<1>1. Base
  BY DEF IInv
<1>2. /\ lock \in [Nodes -> Threads \cup {NULL}]
      /\ \A t \in Threads : t # NULL
  BY <1>1, NullAssumption DEF Base, TypeOK
<1>3. ASSUME NEW t \in Threads, Allocate(t) \/ Call(t) \/ Continue(t)
      PROVE  LocksReleased'
  <2>1. \A u \in Threads : u # t => th'[u] = th[u]
    BY <1>1, <1>3, OthersStay
  <2>2. CASE Allocate(t)
    <3>1. PICK n \in Nodes : lock' = [lock EXCEPT ![n] = NULL]
      BY <1>1, <2>2, AllocateMoves DEF Base
    <3>2. th[t].pc \notin Locking
      BY <1>1, <2>2, AllocateMoves DEF Base, Locking
    <3> QED
      BY <1>2, <2>1, <3>1, <3>2 DEF LocksReleased
  <2>3. CASE LockGame(t)
    <3>1. lock' = [lock EXCEPT ![th[t].curr] = t] /\ th[t].pc = "lock_g"
      BY <2>3 DEF LockGame, At
    <3>2. th'[t].pc \in Locking /\ th'[t].curr = th[t].curr
      BY <1>1, <2>3, LockGameMoves DEF Base, MovesTo, KeepsPlace, Locking
    <3>3. th[t].pc \notin Locking
      BY <3>1 DEF Locking
    <3> QED
      BY <1>2, <2>1, <3>1, <3>2, <3>3 DEF LocksReleased
  <2>4. CASE lock' = lock /\ th[t].pc \notin Locking
    BY <2>1, <2>4 DEF LocksReleased
  <2>5. CASE lock' = lock /\ th[t].pc \in Locking /\ th'[t].pc \in Locking /\ th'[t].curr = th[t].curr
    BY <2>1, <2>5 DEF LocksReleased
  <2>6. CASE th[t].curr \in Nodes /\ th[t].pc \in Locking /\ lock' = [lock EXCEPT ![th[t].curr] = NULL]
    BY <1>2, <2>1, <2>6 DEF LocksReleased
  <2> QED
    BY <1>1, <1>3, <2>2, <2>3, <2>4, <2>5, <2>6, GameLocks
<1>4. CASE UNCHANGED vars
  BY <1>4 DEF vars, LocksReleased
<1> QED
  BY <1>3, <1>4 DEF Next

(* Never does everyone wait for everyone: the holder of gm->lock waits at most for a game,   *)
(* and whoever holds the lock of a game waits for nothing.  This is the safety half of       *)
(* ManagerReleased, for any number of threads and of games.                                  *)
THEOREM NoDeadlockProved == Spec => []NoDeadlock
<1>1. Init => LocksReleased
  BY DEF Init, LocksReleased
<1>2. IInv /\ LocksReleased /\ [Next]_vars => LocksReleased'
  BY LocksReleasedStep
<1>3. IInv /\ LocksReleased => NoDeadlock
  <2> SUFFICES ASSUME IInv, LocksReleased, NEW t \in Threads, th[t].pc # "idle"
               PROVE  \E u \in Threads : th[u].pc # "idle" /\ ~Blocked(u)
    BY DEF NoDeadlock, At
  <2>1. Base
    BY DEF IInv
  <2>2. PICK L, m : ListInv(L, m)
    BY DEF IInv
  <2>3. ASSUME NEW u \in Threads, th[u].pc \notin {"idle", "lock_gm"}
        PROVE  \E v \in Threads : th[v].pc # "idle" /\ ~Blocked(v)
    <3>1. CASE ~Blocked(u)
      BY <2>3, <3>1
    <3>2. CASE Blocked(u)
      <4>1. th[u].pc = "lock_g" /\ lock[th[u].curr] # NULL
        BY <2>3, <3>2 DEF Blocked, At
      <4>2. th[u].curr \in Nodes
        BY <2>1, <2>2, <4>1, CurrentNodes DEF Base, TypeOK
      <4>3. PICK v \in Threads : v = lock[th[u].curr] /\ th[v].pc \in Locking
        BY <4>1, <4>2 DEF LocksReleased
      <4> QED
        BY <4>3 DEF Blocked, At, Locking
    <3> QED
      BY <3>1, <3>2
  <2>4. CASE th[t].pc = "lock_gm" /\ gm_lock # NULL
    <3>1. gm_lock \in Threads
      BY <2>1, <2>4 DEF Base, TypeOK
    <3>2. th[gm_lock].pc \in Holding
      BY <2>1, <3>1 DEF Base, LocksHeld
    <3> QED
      BY <2>3, <3>1, <3>2 DEF Holding
  <2>5. CASE th[t].pc = "lock_gm" /\ gm_lock = NULL
    BY <2>5 DEF Blocked, At
  <2> QED
    BY <2>3, <2>4, <2>5
<1> QED
  BY <1>1, <1>2, <1>3, ListInvariance, PTL DEF Spec

-----------------------------------------------------------------------------
(* The list as the properties see it: following next from head. *)

(* The nodes reached from head, one after the other, are those of the witness. *)
LEMMA StepSpells ==
  ASSUME NEW L, NEW m, Linked(L, m)
  PROVE  /\ Cardinality(Nodes) \in Nat /\ m <= Cardinality(Nodes)
         /\ \A k \in 0..Cardinality(Nodes) : Step[k] = IF k < m THEN L[k + 1] ELSE NULL
<1> DEFINE N == Cardinality(Nodes)
<1>1. /\ m \in Nat /\ L \in [1..m -> Nodes]
      /\ \A i, j \in 1..m : L[i] = L[j] => i = j
      /\ head = IF m = 0 THEN NULL ELSE L[1]
      /\ \A i \in 1..m : next[L[i]] = IF i = m THEN NULL ELSE L[i + 1]
      /\ \A i \in 1..m : L[i] # NULL
  BY NullAssumption DEF Linked
<1>2. N \in Nat
  BY NodesAssumption, FS_CardinalityType
<1>3. m <= N
  <2>1. L \in Injection(1..m, Nodes)
    BY <1>1 DEF Injection, IsInjective
  <2>3. Cardinality(1..m) <= Cardinality(Nodes)
    BY <2>1, NodesAssumption, FS_Injection
  <2>4. Cardinality(1..m) = m
    BY <1>1, FS_Interval
  <2> QED
    BY <2>3, <2>4
<1> HIDE DEF N
<1> DEFINE f == [k \in 0..N |-> IF k < m THEN L[k + 1] ELSE NULL]
<1>4. f = [k \in 0..N |-> IF k = 0 THEN head ELSE IF f[k - 1] = NULL THEN NULL ELSE next[f[k - 1]]]
  <2>1. ASSUME NEW k \in 0..N
        PROVE  f[k] = IF k = 0 THEN head ELSE IF f[k - 1] = NULL THEN NULL ELSE next[f[k - 1]]
    <3>1. CASE k = 0
      BY <1>1, <1>2, <3>1
    <3>2. CASE k # 0
      <4>1. k - 1 \in 0..N /\ (k - 1) + 1 = k
        BY <1>2, <3>2
      <4>2. f[k - 1] = IF k - 1 < m THEN L[k] ELSE NULL
        BY <4>1
      <4>3. CASE k - 1 < m
        <5>1. k \in 1..m /\ f[k - 1] = L[k] /\ L[k] # NULL
          BY <1>1, <1>2, <3>2, <4>2, <4>3
        <5>2. next[L[k]] = IF k = m THEN NULL ELSE L[k + 1]
          BY <1>1, <5>1
        <5>3. f[k] = IF k < m THEN L[k + 1] ELSE NULL
          OBVIOUS
        <5> QED
          BY <1>1, <1>2, <3>2, <5>1, <5>2, <5>3
      <4>4. CASE ~(k - 1 < m)
        <5>1. f[k - 1] = NULL /\ ~(k < m)
          BY <1>1, <1>2, <4>2, <4>4
        <5> QED
          BY <3>2, <5>1
      <4> QED
        BY <4>3, <4>4
    <3> QED
      BY <3>1, <3>2
  <2> QED
    BY <2>1
<1> HIDE DEF f
<1>5. Step = [k \in 0..N |-> IF k = 0 THEN head
                            ELSE IF Step[k - 1] = NULL THEN NULL ELSE next[Step[k - 1]]]
  BY <1>4, Zenon DEF Step, N
<1>6. \A k \in 0..N : Step[k] = IF k = 0 THEN head
                                ELSE IF Step[k - 1] = NULL THEN NULL ELSE next[Step[k - 1]]
  BY <1>5, Zenon
<1>7. \A k \in 0..N : f[k] = IF k = 0 THEN head
                             ELSE IF f[k - 1] = NULL THEN NULL ELSE next[f[k - 1]]
  BY <1>4, Zenon
<1>8. \A k \in 0..N : Step[k] = f[k]
  <2> DEFINE Bad == {k \in 0..N : Step[k] # f[k]}
  <2>1. SUFFICES ASSUME Bad # {}
                 PROVE  FALSE
    OBVIOUS
  <2>2. Bad \subseteq Nat
    BY <1>2
  <2>3. PICK k \in Bad : \A j \in Bad : ~(<<j, k>> \in OpToRel(<, Nat))
    BY <2>1, <2>2, NatLessThanWellFounded, WFMin, Zenon
  <2>4. k \in 0..N /\ Step[k] # f[k]
    OBVIOUS
  <2>5. k # 0
    BY <1>6, <1>7, <2>4
  <2>6. k - 1 \in 0..N /\ k - 1 \in Nat /\ k \in Nat /\ k - 1 < k
    BY <1>2, <2>4, <2>5
  <2>7. <<k - 1, k>> \in OpToRel(<, Nat)
    <3>1. <<k - 1, k>> \in Nat \X Nat
      BY <2>6
    <3>2. <<k - 1, k>>[1] = k - 1 /\ <<k - 1, k>>[2] = k
      OBVIOUS
    <3> QED
      BY <2>6, <3>1, <3>2, Zenon DEF OpToRel
  <2>8. k - 1 \notin Bad
    BY <2>3, <2>7, Zenon
  <2>9. Step[k - 1] = f[k - 1]
    BY <2>6, <2>8
  <2> QED
    BY <1>6, <1>7, <2>4, <2>5, <2>9
<1>9. \A k \in 0..N : f[k] = IF k < m THEN L[k + 1] ELSE NULL
  BY DEF f
<1> QED
  BY <1>2, <1>3, <1>8, <1>9 DEF N

(* Chain is the witness. *)
LEMMA ChainSpells ==
  \A L, m : Linked(L, m) => Chain = L /\ Len(L) = m /\ Step[Cardinality(Nodes)] = NULL
<1> SUFFICES ASSUME NEW L, NEW m, Linked(L, m)
             PROVE  Chain = L /\ Len(L) = m /\ Step[Cardinality(Nodes)] = NULL
  OBVIOUS
<1> DEFINE N == Cardinality(Nodes)
           S == {k \in 1..N : Step[k - 1] # NULL}
<1>1. m \in Nat /\ L \in [1..m -> Nodes] /\ \A i \in 1..m : L[i] # NULL
  BY NullAssumption DEF Linked
<1>2. N \in Nat /\ m <= N /\ \A k \in 0..N : Step[k] = IF k < m THEN L[k + 1] ELSE NULL
  BY StepSpells
<1>3. ASSUME NEW k \in 1..N
      PROVE  Step[k - 1] = IF k <= m THEN L[k] ELSE NULL
  <2>1. k - 1 \in 0..N /\ (k - 1) + 1 = k /\ (k - 1 < m <=> k <= m)
    BY <1>1, <1>2
  <2> QED
    BY <1>2, <2>1
<1>4. S = 1..m
  BY <1>1, <1>2, <1>3
<1>5. Cardinality(S) = m
  <2>1. Cardinality(1..m) = m
    BY <1>1, FS_Interval
  <2> HIDE DEF S
  <2> QED
    BY <1>4, <2>1
<1>6. Chain = [k \in 1..m |-> Step[k - 1]]
  BY <1>5 DEF Chain
<1>7. \A k \in 1..m : Step[k - 1] = L[k]
  BY <1>1, <1>2, <1>3
<1>8. Chain = L
  BY <1>1, <1>6, <1>7
<1>9. L \in Seq(Nodes) /\ Len(L) = m
  BY <1>1
<1>10. Step[N] = NULL
  BY <1>1, <1>2
<1> QED
  BY <1>8, <1>9, <1>10

(* Whenever the manager's lock is free, the list is intact. *)
THEOREM ListWellFormedProved == Spec => []ListWellFormed
<1>1. IInv => ListWellFormed
  <2> SUFFICES ASSUME IInv, gm_lock = NULL
               PROVE  /\ Step[Cardinality(Nodes)] = NULL
                      /\ Elements(Chain) = live \ Private
                      /\ tail = IF Chain = <<>> THEN NULL ELSE Chain[Len(Chain)]
                      /\ \A j, n \in live : j # n => id[j] # id[n]
    BY DEF ListWellFormed
  <2>1. Base
    BY DEF IInv
  <2>2. PICK L, m : ListInv(L, m)
    BY DEF IInv
  <2>3. Chain = L /\ Len(L) = m /\ Step[Cardinality(Nodes)] = NULL
    BY <2>2, ChainSpells DEF ListInv
  <2>4. m \in Nat /\ L \in [1..m -> Nodes] /\ live \subseteq Nodes
    BY <2>1, <2>2 DEF ListInv, Linked, Base, TypeOK
  <2>5. \A t \in Threads : th[t].pc \notin Holding
    BY <2>1, NullAssumption DEF Base, LocksHeld
  <2>6. \A n \in Nodes : Hidden(n) <=> n \in Private
    BY <2>5 DEF Hidden, Private, Removing, Holding
  <2>7. Elements(L) = live \ Private
    <3>1. \A n : n \in Elements(L) <=> \E i \in 1..m : L[i] = n
      BY <2>3 DEF Elements
    <3>2. \A n \in Nodes : n \in Elements(L) <=> n \in live /\ n \notin Private
      BY <2>2, <2>6, <3>1 DEF ListInv, Members, InList
    <3>3. Elements(L) \subseteq Nodes
      BY <2>4, <3>1
    <3> QED
      BY <2>4, <3>2, <3>3
  <2>8. tail = IF L = <<>> THEN NULL ELSE L[Len(L)]
    <3>1. tail = IF m = 0 THEN NULL ELSE L[m]
      BY <2>2, <2>5 DEF ListInv, TailFits, LastOf, Holding
    <3>2. L = <<>> <=> m = 0
      BY <2>3, <2>4
    <3> QED
      BY <2>3, <3>1, <3>2
  <2>9. \A j, n \in live : j # n => id[j] # id[n]
    BY <2>1 DEF Base, IdsDrawn
  <2> QED
    BY <2>3, <2>7, <2>8, <2>9
<1> QED
  BY <1>1, ListInvariance, PTL

-----------------------------------------------------------------------------
(* What a listing holds when it releases the manager. *)

(* The number of open games among the first j grows with j, and at every open game. *)
LEMMA UptoGrows ==
  ASSUME NEW L, NEW i \in Nat, NEW j \in Nat, i <= j
  PROVE  /\ Upto(L, i) <= Upto(L, j)
         /\ i < j /\ guest[L[j]] = NULL => Upto(L, i) < Upto(L, j)
<1> DEFINE S(k) == {n \in 1..k : guest[L[n]] = NULL}
<1>1. ASSUME NEW h \in Nat, NEW k \in Nat, h <= k
      PROVE  Upto(L, h) <= Upto(L, k)
  <2>1. S(k) \subseteq 1..k /\ S(h) \subseteq S(k) /\ IsFiniteSet(1..k)
    BY <1>1, FS_Interval
  <2>2. IsFiniteSet(S(k))
    BY <2>1, FS_Subset, Zenon
  <2>3. Cardinality(S(h)) <= Cardinality(S(k))
    BY <2>1, <2>2, FS_Subset, Zenon
  <2> QED
    BY <2>3 DEF Upto
<1>2. ASSUME i < j, guest[L[j]] = NULL
      PROVE  Upto(L, i) < Upto(L, j)
  <2>1. j - 1 \in Nat /\ i <= j - 1 /\ (j - 1) + 1 = j
    BY <1>2
  <2>2. Upto(L, i) <= Upto(L, j - 1)
    BY <1>1, <2>1
  <2>3. Upto(L, j - 1) \in Nat /\ Upto(L, j) = Upto(L, j - 1) + 1 /\ Upto(L, i) \in Nat
    BY <1>2, <2>1, UptoNext
  <2> QED
    BY <2>2, <2>3
<1> QED
  BY <1>1, <1>2

(* A listing is exact: the games it has passed stay as they were, and a count of the *)
(* open games names each of them once.                                               *)
THEOREM SnapshotIsExactProved == Spec => []SnapshotIsExact
<1>1. IInv => SnapshotIsExact
  <2> SUFFICES ASSUME IInv, NEW t \in Threads, At(t, "unlock_gm"), th[t].op = "list"
               PROVE  th[t].found = OpenIds
    BY DEF SnapshotIsExact
  <2>1. Base
    BY DEF IInv
  <2>2. PICK L, m : ListInv(L, m) /\ Listings(L, m)
    BY DEF IInv
  <2>3. Chain = L /\ Len(Chain) = m /\ m \in Nat
    <3>1. Linked(L, m)
      BY <2>2 DEF ListInv
    <3>2. m \in Nat
      BY <3>1 DEF Linked
    <3> QED
      BY <3>1, <3>2, ChainSpells
  <2>4. PICK i \in 1..(m + 1) : Collected(Chain, m, t, i)
    BY <2>2, <2>3 DEF Listings, At
  <2> DEFINE found == th[t].found
             open == OpenUpTo(Len(Chain))
             nth(k) == CHOOSE j \in 1..Len(Chain) : guest[Chain[j]] = NULL /\ OpenUpTo(j) = k
  <2>5. \A j : OpenUpTo(j) = Upto(Chain, j)
    BY DEF OpenUpTo, Upto
  <2>6. /\ found \in Seq(Ids) /\ Len(found) \in Nat
        /\ Len(found) = Upto(Chain, i - 1) /\ Len(found) <= ListMax
        /\ i = m + 1 \/ Len(found) = ListMax
        /\ \A k \in 1..Len(found) : \E j \in 1..(i - 1) :
             guest[Chain[j]] = NULL /\ Upto(Chain, j) = k /\ found[k] = id[Chain[j]]
    <3>1. found \in Seq(Ids)
      BY <2>1 DEF Base, TypeOK, Local
    <3> QED
      BY <2>4, <3>1 DEF Collected, At
  <2>7. Upto(Chain, i - 1) <= open /\ open \in Nat
    <3>1. i - 1 \in Nat /\ i - 1 <= m
      BY <2>3
    <3>2. Upto(Chain, i - 1) <= Upto(Chain, m) /\ Upto(Chain, m) \in Nat
      BY <2>3, <3>1, UptoGrows, UptoNext
    <3> QED
      BY <2>3, <2>5, <3>2
  <2>8. Len(found) = IF open < ListMax THEN open ELSE ListMax
    <3>1. i = m + 1 => i - 1 = m /\ open = Upto(Chain, i - 1)
      BY <2>3, <2>5
    <3> HIDE DEF open, found
    <3> QED
      BY <2>6, <2>7, <3>1, BoundAssumption
  <2>9. ASSUME NEW k \in 1..Len(found)
        PROVE  found[k] = id[Chain[nth(k)]]
    <3>1. PICK j \in 1..(i - 1) :
            guest[Chain[j]] = NULL /\ Upto(Chain, j) = k /\ found[k] = id[Chain[j]]
      BY <2>6
    <3>2. j \in 1..m
      BY <2>3, <3>1
    <3>3. ASSUME NEW h \in 1..m, guest[Chain[h]] = NULL, Upto(Chain, h) = k
          PROVE  h = j
      <4>1. h \in Nat /\ j \in Nat /\ k \in Nat
        BY <2>3, <2>6
      <4>2. ~(h < j) /\ ~(j < h)
        BY <3>1, <3>3, <4>1, UptoGrows
      <4> QED
        BY <4>1, <4>2
    <3>4. \A h \in 1..Len(Chain) : guest[Chain[h]] = NULL /\ OpenUpTo(h) = k <=> h = j
      BY <2>3, <2>5, <3>1, <3>2, <3>3
    <3>5. nth(k) = j
      BY <2>3, <3>2, <3>4, Zenon
    <3> QED
      BY <3>1, <3>5
  <2>10. OpenIds = [k \in 1..Len(found) |-> id[Chain[nth(k)]]]
    BY <2>8 DEF OpenIds
  <2> HIDE DEF nth, found
  <2>11. found = [k \in 1..Len(found) |-> found[k]]
    BY <2>6
  <2> QED
    BY <2>9, <2>10, <2>11 DEF found
<1> QED
  BY <1>1, ListInvariance, PTL

-----------------------------------------------------------------------------
(* The list implements the table. *)

\* An entry of the table, and the table that lists the nodes of K.
Row(n) == [id |-> id[n], owner |-> owner[n], guest |-> guest[n]]
Rows(K) == [i \in 1..Len(K) |-> Row(K[i])]

(* No game is on its way out: the table shows the whole list. *)
LEMMA KeptWhole ==
  \A L, m : Linked(L, m) /\ (\A t \in Threads : th[t].pc # "unlink") => Kept = L
<1> SUFFICES ASSUME NEW L, NEW m, Linked(L, m), \A t \in Threads : th[t].pc # "unlink"
             PROVE  Kept = L
  OBVIOUS
<1>1. Chain = L
  BY ChainSpells
<1>2. {i \in 1..Len(Chain) : Departing(Chain[i])} = {}
  BY DEF Departing, At
<1> QED
  BY <1>1, <1>2, Zenon DEF Kept

(* A deserted game is still linked: the table shows the list without it. *)
LEMMA KeptWithout ==
  \A L, m : \A t \in Threads : \A i \in 1..m :
    /\ Linked(L, m) /\ L[i] = th[t].curr /\ th[t].pc = "unlink"
    /\ \A u \in Threads : th[u].pc = "unlink" => u = t
    => Kept = Shorter(L, m, i)
<1> SUFFICES ASSUME NEW L, NEW m, NEW t \in Threads, NEW i \in 1..m,
                    Linked(L, m), L[i] = th[t].curr, th[t].pc = "unlink",
                    \A u \in Threads : th[u].pc = "unlink" => u = t
             PROVE  Kept = Shorter(L, m, i)
  OBVIOUS
<1> DEFINE gone == {k \in 1..Len(Chain) : Departing(Chain[k])}
<1>1. Chain = L /\ Len(Chain) = m
  BY ChainSpells
<1>2. m \in Nat /\ \A k, j \in 1..m : L[k] = L[j] => k = j
  BY DEF Linked
<1>3. \A k \in 1..m : Departing(L[k]) <=> k = i
  BY <1>2 DEF Departing, At
<1>4. gone = {i}
  BY <1>1, <1>3
<1>5. (CHOOSE k \in gone : TRUE) = i /\ gone # {}
  BY <1>4
<1> HIDE DEF gone
<1>6. Kept = [k \in 1..(Len(Chain) - 1) |-> IF k < i THEN Chain[k] ELSE Chain[k + 1]]
  BY <1>5, Zenon DEF Kept, gone
<1> QED
  BY <1>1, <1>6 DEF Shorter

(* The nodes the table shows: those of the list that are not on their way out. *)
LEMMA KeptNodes ==
  ASSUME NEW L, NEW m, Base, ListInv(L, m)
  PROVE  /\ Kept \in Seq(Nodes)
         /\ \A i, j \in 1..Len(Kept) : Kept[i] = Kept[j] => i = j
         /\ \A i \in 1..Len(Kept) : InList(L, m, Kept[i]) /\ ~Departing(Kept[i])
         /\ \A n : InList(L, m, n) /\ ~Departing(n) => \E i \in 1..Len(Kept) : Kept[i] = n
<1>1. /\ m \in Nat /\ L \in [1..m -> Nodes] /\ Linked(L, m)
      /\ \A i, j \in 1..m : L[i] = L[j] => i = j
  BY DEF ListInv, Linked
<1>2. CASE \A t \in Threads : th[t].pc # "unlink"
  <2>1. Kept = L /\ L \in Seq(Nodes) /\ Len(L) = m
    BY <1>1, <1>2, KeptWhole
  <2>2. \A n : ~Departing(n)
    BY <1>2 DEF Departing, At
  <2> QED
    BY <1>1, <2>1, <2>2 DEF InList
<1>3. CASE \E t \in Threads : th[t].pc = "unlink"
  <2>1. PICK t \in Threads : th[t].pc = "unlink"
    BY <1>3
  <2>2. \A u \in Threads : th[u].pc = "unlink" => u = t
    BY <2>1, Apart DEF Holding
  <2>3. PICK i \in 1..m : L[i] = th[t].curr
    BY <2>1 DEF ListInv, Placed, PlacedAt, InList
  <2> DEFINE K == Shorter(L, m, i)
  <2>4. Kept = K
    BY <1>1, <2>1, <2>2, <2>3, KeptWithout
  <2>5. \A n : Departing(n) <=> n = L[i]
    BY <2>1, <2>2, <2>3 DEF Departing, At
  <2>6. /\ m - 1 \in Nat /\ K \in [1..(m - 1) -> Nodes]
        /\ \A k \in 1..(m - 1) : K[k] = IF k < i THEN L[k] ELSE L[k + 1]
    BY <1>1 DEF Shorter
  <2>7. K \in Seq(Nodes) /\ Len(K) = m - 1
    BY <2>6
  <2> HIDE DEF K
  <2>8. \A h, j \in 1..(m - 1) : K[h] = K[j] => h = j
    BY <1>1, <2>6
  <2>9. \A k \in 1..(m - 1) : InList(L, m, K[k]) /\ K[k] # L[i]
    BY <1>1, <2>6 DEF InList
  <2>10. ASSUME NEW n, InList(L, m, n), n # L[i]
         PROVE  \E k \in 1..(m - 1) : K[k] = n
    <3>1. PICK k \in 1..m : L[k] = n
      BY <2>10 DEF InList
    <3>2. CASE k < i
      <4>1. k \in 1..(m - 1) /\ K[k] = n
        BY <1>1, <2>6, <3>1, <3>2
      <4> QED
        BY <4>1
    <3>3. CASE k > i
      <4>1. k - 1 \in 1..(m - 1) /\ ~(k - 1 < i) /\ (k - 1) + 1 = k
        BY <1>1, <3>3
      <4>2. K[k - 1] = n
        BY <2>6, <3>1, <4>1
      <4> QED
        BY <4>1, <4>2
    <3> QED
      BY <1>1, <2>10, <3>1, <3>2, <3>3
  <2> QED
    BY <2>4, <2>5, <2>7, <2>8, <2>9, <2>10
<1> QED
  BY <1>2, <1>3

(* The list shows the same table when neither its nodes nor their contents nor the *)
(* game on its way out change.                                                     *)
LEMMA RowsStay ==
  ASSUME NEW L, NEW m, Base, ListInv(L, m), Kept' = Kept,
         \A i \in 1..m : Row(L[i])' = Row(L[i])
  PROVE  AbstractTable' = AbstractTable
<1>1. \A i \in 1..Len(Kept) : \E j \in 1..m : Kept[i] = L[j]
  BY KeptNodes DEF InList
<1>2. \A i \in 1..Len(Kept) : Row(Kept[i])' = Row(Kept[i])
  BY <1>1 DEF Row
<1> QED
  BY <1>2 DEF AbstractTable, Row

(* Of the steps that leave the list as it is, only Vacate has to do with a game on its *)
(* way out.                                                                            *)
LEMMA NotUnlinking ==
  ASSUME Base, NEW t \in Threads, Elsewhere(t), ~Vacate(t)
  PROVE  th[t].pc # "unlink" /\ th'[t].pc # "unlink"
<1> USE DEF Base
<1>1. CASE Allocate(t)
  BY <1>1, AllocateMoves DEF MovesTo
<1>2. CASE Call(t)
  BY <1>2, CallMovesTo DEF MovesTo
<1>3. CASE LockManager(t)
  BY <1>3, LockManagerMoves DEF MovesTo
<1>4. CASE UnlockManager(t)
  BY <1>4, UnlockManagerMoves DEF MovesTo
<1>5. CASE ReadId(t)
  BY <1>5, ReadIdMoves DEF MovesTo
<1>6. CASE SetTail(t)
  BY <1>6, SetTailMoves DEF MovesTo
<1>7. CASE WalkLookup(t)
  BY <1>7, WalkLookupMoves DEF MovesTo
<1>8. CASE WalkList(t)
  BY <1>8, WalkListMoves DEF MovesTo
<1>9. CASE WalkScan(t)
  BY <1>9, WalkScanMoves DEF MovesTo
<1>10. CASE LockGame(t)
  BY <1>10, LockGameMoves DEF MovesTo
<1>11. CASE Handoff(t)
  BY <1>11, HandoffMoves DEF MovesTo
<1>12. CASE Change(t)
  BY <1>12, ChangeMoves DEF MovesTo
<1>13. CASE UnlockGame(t)
  BY <1>13, UnlockGameMoves DEF MovesTo
<1>14. CASE Read(t)
  BY <1>14, ReadMoves DEF MovesTo, Read, At, LocksHeld, Locking
<1>15. CASE ReleaseGame(t)
  BY <1>15, ReleaseGameMoves DEF MovesTo
<1>16. CASE FixTail(t)
  BY <1>16, FixTailMoves DEF MovesTo
<1>17. CASE UnlockFreed(t)
  BY <1>17, UnlockFreedMoves DEF MovesTo
<1>18. CASE Free(t)
  BY <1>18, FreeMoves DEF MovesTo
<1> QED
  BY <1>1, <1>2, <1>3, <1>4, <1>5, <1>6, <1>7, <1>8, <1>9, <1>10, <1>11, <1>12, <1>13, <1>14, <1>15, <1>16, <1>17, <1>18 DEF Elsewhere

(* What Chain and Kept are holds after a step as well as before it. *)
LEMMA ChainSpellsNext ==
  (\A L, m : Linked(L, m) => Chain = L /\ Len(L) = m /\ Step[Cardinality(Nodes)] = NULL)'
BY ChainSpells, PTL

(* As ChainSpellsNext. *)
LEMMA KeptWholeNext ==
  (\A L, m : Linked(L, m) /\ (\A t \in Threads : th[t].pc # "unlink") => Kept = L)'
BY KeptWhole, PTL

(* As ChainSpellsNext. *)
LEMMA KeptWithoutNext ==
  (\A L, m : \A t \in Threads : \A i \in 1..m :
    /\ Linked(L, m) /\ L[i] = th[t].curr /\ th[t].pc = "unlink"
    /\ \A u \in Threads : th[u].pc = "unlink" => u = t
    => Kept = Shorter(L, m, i))'
BY KeptWithout, PTL

(* Such a step shows the nodes that were shown before. *)
LEMMA KeptStays ==
  ASSUME NEW L, NEW m, Base, ListInv(L, m), NEW t \in Threads, Elsewhere(t), ~Vacate(t),
         \A u \in Threads : u # t => th'[u] = th[u]
  PROVE  Kept' = Kept
<1>2. Linked(L, m) /\ Linked(L, m)'
  BY ListKept DEF ListInv
<1>3. Chain = L /\ Chain' = L
  BY <1>2, ChainSpells, ChainSpellsNext
<1>4. th[t].pc # "unlink" /\ th'[t].pc # "unlink"
  BY NotUnlinking
<1>5. \A n : Departing(n)' <=> Departing(n)
  BY <1>4 DEF Departing, At
<1>6. {i \in 1..Len(Chain) : Departing(Chain[i])}' = {i \in 1..Len(Chain) : Departing(Chain[i])}
  BY <1>3, <1>5
<1> QED
  BY <1>3, <1>6, Zenon DEF Kept

(* And the contents of those nodes, unless it changes the seats of a game. *)
LEMMA SeatsStay ==
  ASSUME NEW L, NEW m, Base, ListInv(L, m), NEW t \in Threads, Elsewhere(t),
         ~Vacate(t), ~Change(t)
  PROVE  \A i \in 1..m : Row(L[i])' = Row(L[i])
<1>0. /\ id \in [Nodes -> Ids] /\ owner \in [Nodes -> Threads \cup {NULL}]
      /\ guest \in [Nodes -> Threads \cup {NULL}]
      /\ \A i \in 1..m : L[i] \in Nodes /\ L[i] \in live /\ ~Hidden(L[i])
  BY CurrentNodes DEF Base, TypeOK, ListInv, Linked
<1>1. CASE Allocate(t)
  <2>1. PICK n \in Nodes \ live :
          /\ id' = [id EXCEPT ![n] = next_game_id] /\ owner' = [owner EXCEPT ![n] = t]
          /\ guest' = [guest EXCEPT ![n] = NULL]
    BY <1>1 DEF Allocate
  <2> QED
    BY <1>0, <2>1 DEF Row
<1>2. CASE Call(t)
  BY <1>2 DEF Call, Row, heap
<1>3. CASE LockManager(t)
  BY <1>3 DEF LockManager, Row, heap
<1>4. CASE UnlockManager(t)
  BY <1>4 DEF UnlockManager, Row, heap
<1>5. CASE ReadId(t)
  BY <1>5 DEF ReadId, Row, heap
<1>6. CASE SetTail(t)
  BY <1>6 DEF SetTail, Row, heap
<1>7. CASE WalkLookup(t)
  BY <1>7 DEF WalkLookup, Row, heap
<1>8. CASE WalkList(t)
  BY <1>8 DEF WalkList, Row, heap
<1>9. CASE WalkScan(t)
  BY <1>9 DEF WalkScan, Row, heap
<1>10. CASE LockGame(t)
  BY <1>10 DEF LockGame, Row
<1>11. CASE Handoff(t)
  BY <1>11 DEF Handoff, Row, heap
<1>12. CASE UnlockGame(t)
  BY <1>12 DEF UnlockGame, Row
<1>13. CASE Read(t)
  BY <1>13 DEF Read, Row
<1>14. CASE ReleaseGame(t)
  BY <1>14 DEF ReleaseGame, Row
<1>15. CASE FixTail(t)
  BY <1>15 DEF FixTail, Row, heap
<1>16. CASE UnlockFreed(t)
  BY <1>16 DEF UnlockFreed, Row
<1>17. CASE Free(t)
  <2>1. id' = [id EXCEPT ![th[t].curr] = 0] /\ UNCHANGED <<owner, guest>> /\ th[t].pc = "free"
    BY <1>17 DEF Free, At
  <2>2. Hidden(th[t].curr)
    BY <2>1 DEF Hidden, Removing
  <2> QED
    BY <1>0, <2>1, <2>2 DEF Row
<1> QED
  BY <1>1, <1>2, <1>3, <1>4, <1>5, <1>6, <1>7, <1>8, <1>9, <1>10, <1>11, <1>12, <1>13, <1>14, <1>15, <1>16, <1>17 DEF Elsewhere

(* Changing one node that is shown changes one row. *)
LEMMA RowChanges ==
  ASSUME Kept \in Seq(Nodes), Kept' = Kept, NEW p \in 1..Len(Kept), NEW r,
         Row(Kept[p])' = r,
         \A j \in 1..Len(Kept) : j # p => Row(Kept[j])' = Row(Kept[j])
  PROVE  /\ p \in 1..Len(AbstractTable) /\ AbstractTable[p] = Row(Kept[p])
         /\ AbstractTable' = [AbstractTable EXCEPT ![p] = r]
         /\ r # Row(Kept[p]) => AbstractTable' # AbstractTable
<1>1. AbstractTable = [j \in 1..Len(Kept) |-> Row(Kept[j])] /\ Len(Kept) \in Nat
  BY DEF AbstractTable, Row
<1>2. AbstractTable' = [j \in 1..Len(Kept) |-> Row(Kept[j])']
  BY DEF AbstractTable, Row
<1>3. Len(AbstractTable) = Len(Kept) /\ AbstractTable[p] = Row(Kept[p])
  BY <1>1
<1>4. \A j \in 1..Len(Kept) : AbstractTable'[j] = IF j = p THEN r ELSE AbstractTable[j]
  BY <1>1, <1>2
<1>5. AbstractTable' = [AbstractTable EXCEPT ![p] = r]
  BY <1>1, <1>2, <1>4
<1> QED
  BY <1>3, <1>4, <1>5

(* Changing the seats of a game is a step of the table, or none. *)
LEMMA ChangeRefines ==
  ASSUME NEW L, NEW m, Base, ListInv(L, m), NEW t \in Threads, Change(t),
         \A u \in Threads : u # t => th'[u] = th[u]
  PROVE  [Table!Next]_AbstractTable
<1>1. PICK n : n = th[t].curr
  OBVIOUS
<1>2. th[t].pc = "change" /\ n \in Nodes /\ InList(L, m, n) /\ t # NULL
  BY <1>1, NullAssumption DEF Change, JoinSeats, DecisionSeats, PostGameSeats, At, Base, LocksHeld, Locking, ListInv, Placed, PlacedAt
<1>3. ~Departing(n)
  BY <1>1, <1>2, Apart DEF Departing, At, Locking, Removing
<1>4. ~Vacate(t) /\ Elsewhere(t)
  BY <1>2 DEF Vacate, At, Elsewhere
<1>5. Kept' = Kept
  BY <1>4, KeptStays
<1>6. /\ Kept \in Seq(Nodes)
      /\ \A i, j \in 1..Len(Kept) : Kept[i] = Kept[j] => i = j
      /\ \A i \in 1..Len(Kept) : Kept[i] \in Nodes
  BY KeptNodes
<1>7. PICK p \in 1..Len(Kept) : Kept[p] = n
  BY <1>2, <1>3, KeptNodes
<1>8. /\ owner \in [Nodes -> Threads \cup {NULL}] /\ guest \in [Nodes -> Threads \cup {NULL}]
      /\ id' = id
  BY DEF Base, TypeOK, Change, JoinSeats, DecisionSeats, PostGameSeats
<1> DEFINE T == AbstractTable
<1>9. ASSUME NEW o, NEW g, owner' = [owner EXCEPT ![n] = o], guest' = [guest EXCEPT ![n] = g]
      PROVE  /\ p \in 1..Len(T) /\ T[p] = [id |-> id[n], owner |-> owner[n], guest |-> guest[n]]
             /\ T' = [T EXCEPT ![p] = [id |-> id[n], owner |-> o, guest |-> g]]
             /\ guest[n] # g => T' # T
  <2> DEFINE r == [id |-> id[n], owner |-> o, guest |-> g]
  <2>1. Row(Kept[p])' = r
    BY <1>5, <1>7, <1>8, <1>9, <1>2 DEF Row
  <2>2. \A j \in 1..Len(Kept) : j # p => Row(Kept[j])' = Row(Kept[j])
    BY <1>5, <1>6, <1>7, <1>8, <1>9 DEF Row
  <2>3. Row(Kept[p]) = [id |-> id[n], owner |-> owner[n], guest |-> guest[n]]
    BY <1>7 DEF Row
  <2>4. guest[n] # g => r # Row(Kept[p])
    <3>1. r.guest = g /\ Row(Kept[p]).guest = guest[n]
      BY <2>3
    <3> QED
      BY <3>1
  <2> HIDE DEF r
  <2>5. /\ p \in 1..Len(T) /\ T[p] = Row(Kept[p]) /\ T' = [T EXCEPT ![p] = r]
        /\ r # Row(Kept[p]) => T' # T
    BY <1>5, <1>6, <2>1, <2>2, RowChanges
  <2> QED
    BY <2>3, <2>4, <2>5 DEF r
<1>10. CASE /\ th[t].op = "join" /\ guest[n] = NULL
            /\ guest' = [guest EXCEPT ![n] = t] /\ UNCHANGED owner
  <2>1. owner' = [owner EXCEPT ![n] = owner[n]]
    BY <1>8, <1>10
  <2>2. /\ p \in 1..Len(T) /\ T[p] = [id |-> id[n], owner |-> owner[n], guest |-> NULL]
        /\ T' = [T EXCEPT ![p] = [id |-> id[n], owner |-> owner[n], guest |-> t]] /\ T' # T
    BY <1>2, <1>9, <1>10, <2>1, ZenonT(60)
  <2> HIDE DEF T
  <2>3. T' = [T EXCEPT ![p].guest = t] /\ T[p].guest = NULL
    <3>1. [T[p] EXCEPT !.guest = t] = [id |-> id[n], owner |-> owner[n], guest |-> t] /\ T[p].guest = NULL
      BY <2>2
    <3> QED
      BY <2>2, <3>1, Zenon
  <2>4. Table!Join(t)
    BY <2>2, <2>3 DEF T, Table!Join
  <2> QED
    BY <2>2, <2>4 DEF T, Table!Next
<1>11. CASE /\ th[t].op = "join_decision" /\ guest[n] # NULL
            /\ guest' = [guest EXCEPT ![n] = NULL] /\ UNCHANGED owner
  <2>1. owner' = [owner EXCEPT ![n] = owner[n]]
    BY <1>8, <1>11
  <2>2. /\ p \in 1..Len(T) /\ T[p] = [id |-> id[n], owner |-> owner[n], guest |-> guest[n]]
        /\ T' = [T EXCEPT ![p] = [id |-> id[n], owner |-> owner[n], guest |-> NULL]] /\ T' # T
    BY <1>9, <1>11, <2>1
  <2> HIDE DEF T
  <2>3. T' = [T EXCEPT ![p].guest = NULL] /\ T[p].guest # NULL
    <3>1. [T[p] EXCEPT !.guest = NULL] = [id |-> id[n], owner |-> owner[n], guest |-> NULL] /\ T[p].guest # NULL
      BY <1>11, <2>2
    <3> QED
      BY <2>2, <3>1, Zenon
  <2>4. Table!Reject
    BY <2>2, <2>3 DEF T, Table!Reject
  <2> QED
    BY <2>2, <2>4 DEF T, Table!Next
<1>12. CASE /\ th[t].op = "post_game" /\ t \in {owner[n], guest[n]}
            /\ \E s \in {owner[n], guest[n]} : owner' = [owner EXCEPT ![n] = s]
            /\ guest' = [guest EXCEPT ![n] = NULL]
  <2>1. PICK s \in {owner[n], guest[n]} : owner' = [owner EXCEPT ![n] = s]
    BY <1>12
  <2>2. /\ p \in 1..Len(T) /\ T[p] = [id |-> id[n], owner |-> owner[n], guest |-> guest[n]]
        /\ T' = [T EXCEPT ![p] = [id |-> id[n], owner |-> s, guest |-> NULL]]
    BY <1>9, <1>12, <2>1
  <2> HIDE DEF T
  <2>3. T[p].owner = owner[n] /\ T[p].guest = guest[n]
    BY <2>2
  <2>4. T' = [T EXCEPT ![p].owner = s, ![p].guest = NULL]
    <3>1. [T[p] EXCEPT !.owner = s, !.guest = NULL] = [id |-> id[n], owner |-> s, guest |-> NULL]
      <4>1. [T[p] EXCEPT !.owner = s] = [id |-> id[n], owner |-> s, guest |-> guest[n]]
        BY <2>2
      <4>2. [[id |-> id[n], owner |-> s, guest |-> guest[n]] EXCEPT !.guest = NULL]
              = [id |-> id[n], owner |-> s, guest |-> NULL]
        OBVIOUS
      <4>3. [T[p] EXCEPT !.owner = s, !.guest = NULL]
              = [[T[p] EXCEPT !.owner = s] EXCEPT !.guest = NULL]
        OBVIOUS
      <4> QED
        BY <4>1, <4>2, <4>3, Zenon
    <3> QED
      BY <2>2, <3>1
  <2>5. s \in {T[p].owner, T[p].guest} /\ t \in {T[p].owner, T[p].guest}
    BY <1>12, <2>3
  <2>6. Table!PostGame(t)
    BY <2>2, <2>4, <2>5 DEF T, Table!PostGame
  <2> QED
    BY <2>6 DEF T, Table!Next
<1>13. CASE UNCHANGED <<owner, guest>>
  <2>1. \A i \in 1..m : Row(L[i])' = Row(L[i])
    BY <1>8, <1>13 DEF Row
  <2> QED
    BY <1>5, <2>1, RowsStay
<1> QED
  BY <1>1, <1>10, <1>11, <1>12, <1>13 DEF Change, JoinSeats, DecisionSeats, PostGameSeats

(* Linking a new game creates it. *)
LEMMA AppendRefines ==
  ASSUME NEW L, NEW m, Base, ListInv(L, m), NEW t \in Threads, AppendNode(t)
  PROVE  [Table!Next]_AbstractTable
<1>1. PICK n : n = th[t].curr
  OBVIOUS
<1>2. PICK K : K = Longer(L, m, n)
  OBVIOUS
<1>3. th[t].pc = "append" /\ MovesTo(t, "set_tail")
  BY AppendNodeMoves DEF Base
<1>4. /\ n \in Nodes /\ n \in live /\ owner[n] = t /\ guest[n] = NULL /\ ~InList(L, m, n)
  BY <1>1, <1>3 DEF Base, OpFits, Created, TypeOK, ListInv, Members, Hidden
<1>5. \A u \in Threads : th[u].pc # "unlink" /\ th'[u].pc # "unlink"
  BY <1>3, Apart DEF MovesTo, Holding
<1>6. Linked(L, m) /\ m \in Nat /\ L \in [1..m -> Nodes] /\ L \in Seq(Nodes) /\ Len(L) = m
  BY DEF ListInv, Linked
<1>7. Linked(K, m + 1)'
  BY <1>1, <1>2, AppendExtends DEF ListInv
<1>8. Kept = L
  BY <1>5, <1>6, KeptWhole
<1>9. Kept' = K
  BY <1>5, <1>7, KeptWholeNext
<1>10. /\ K = [i \in 1..(m + 1) |-> IF i = m + 1 THEN n ELSE L[i]] /\ Len(K) = m + 1
  BY <1>2, <1>6 DEF Longer
<1>11. UNCHANGED <<id, owner, guest>>
  BY DEF AppendNode
<1> DEFINE T == AbstractTable
           r == [id |-> id[n], owner |-> t, guest |-> NULL]
<1>12. T = [i \in 1..m |-> Row(L[i])]
  BY <1>6, <1>8 DEF AbstractTable, Row
<1>13. T' = [i \in 1..(m + 1) |-> Row(K[i])]
  BY <1>9, <1>10, <1>11 DEF AbstractTable, Row
<1>14. Row(n) = r
  BY <1>4 DEF Row
<1>15. T' = [i \in 1..(m + 1) |-> IF i = m + 1 THEN r ELSE T[i]]
  BY <1>6, <1>10, <1>12, <1>13, <1>14
<1>16. Len(T) = m /\ Len(T') = m + 1
  BY <1>6, <1>12, <1>13
<1> HIDE DEF T, r
<1>17. T' = Append(T, r) /\ T' # T
  BY <1>6, <1>12, <1>15, <1>16
<1>18. \A i \in 1..Len(T) : T[i].id # id[n]
  <2>1. ASSUME NEW i \in 1..m
        PROVE  T[i].id = id[L[i]] /\ L[i] \in live /\ L[i] # n
    <3>1. InList(L, m, L[i]) /\ L[i] \in Nodes
      BY <1>6 DEF InList
    <3>2. L[i] \in live
      BY <3>1 DEF ListInv, Members
    <3> QED
      BY <1>4, <1>12, <3>1, <3>2 DEF Row
  <2> QED
    BY <1>4, <1>16, <2>1 DEF Base, IdsDrawn
<1>19. id[n] \in Ids
  BY <1>4 DEF Base, TypeOK
<1>20. Table!Create(t)
  BY <1>17, <1>18, <1>19 DEF T, r, Table!Create, Table!Ids, Ids
<1> QED
  BY <1>17, <1>20 DEF T, Table!Next

(* Unlinking a game that was already deserted changes nothing. *)
LEMMA UnlinkRefines ==
  ASSUME NEW L, NEW m, Base, ListInv(L, m), NEW t \in Threads, Unlink(t)
  PROVE  AbstractTable' = AbstractTable
<1>1. th[t].pc = "unlink" /\ MovesTo(t, "fix_tail")
  BY UnlinkMoves DEF Base
<1>2. PICK i \in 1..m : L[i] = th[t].curr
  BY <1>1 DEF ListInv, Placed, PlacedAt, InList
<1>3. PICK K : K = Shorter(L, m, i)
  OBVIOUS
<1>4. Linked(K, m - 1)'
  BY <1>2, <1>3, UnlinkShortens DEF ListInv
<1>5. \A u \in Threads : u # t => th[u].pc # "unlink"
  BY <1>1, Apart DEF Holding
<1>6. \A u \in Threads : th'[u].pc # "unlink"
  BY <1>1, <1>5 DEF MovesTo
<1>7. Linked(L, m)
  BY DEF ListInv
<1>8. Kept = K
  BY <1>1, <1>2, <1>3, <1>5, <1>7, KeptWithout
<1>9. Kept' = K
  BY <1>4, <1>6, KeptWholeNext
<1>10. UNCHANGED <<id, owner, guest>>
  BY DEF Unlink
<1> QED
  BY <1>8, <1>9, <1>10 DEF AbstractTable

(* Vacating a seat is leaving, at once also when the game is unlinked only later. *)
LEMMA VacateRefines ==
  ASSUME NEW L, NEW m, Base, ListInv(L, m), NEW t \in Threads, Vacate(t),
         \A u \in Threads : u # t => th'[u] = th[u]
  PROVE  [Table!Next]_AbstractTable
<1>1. PICK n, o, g : /\ n = th[t].curr
                     /\ o = IF owner[n] = t THEN NULL ELSE owner[n]
                     /\ g = IF owner[n] # t /\ guest[n] = t THEN NULL ELSE guest[n]
  OBVIOUS
<1>2. /\ th[t].pc = "vacate" /\ KeepsPlace(t)
      /\ owner' = [owner EXCEPT ![n] = o] /\ guest' = [guest EXCEPT ![n] = g] /\ id' = id
      /\ th'[t].pc = IF t \in {owner[n], guest[n]} /\ o = NULL /\ g = NULL
                     THEN "unlink" ELSE "release_g"
  <2> DEFINE p == IF t \in {owner[n], guest[n]} /\ o = NULL /\ g = NULL
                  THEN "unlink" ELSE "release_g"
  <2>1. /\ th[t].pc = "vacate" /\ Goto(t, p)
        /\ owner' = [owner EXCEPT ![n] = o] /\ guest' = [guest EXCEPT ![n] = g] /\ id' = id
    BY <1>1 DEF Vacate, At
  <2>2. p \in Points
    BY DEF Points, Holding
  <2> HIDE DEF p
  <2>3. MovesTo(t, p) /\ KeepsPlace(t)
    BY <2>1, <2>2, GotoMoves DEF Base
  <2> QED
    BY <2>1, <2>3 DEF p, MovesTo
<1>3. n \in Nodes /\ t # NULL /\ InList(L, m, n)
  BY <1>1, <1>2, NullAssumption DEF Base, LocksHeld, Locking, ListInv, Placed, PlacedAt
<1>4. PICK i \in 1..m : L[i] = n
  BY <1>3 DEF InList
<1>5. \A u \in Threads : th[u].pc # "unlink" /\ (u # t => th'[u].pc # "unlink")
  BY <1>2, Apart DEF Holding
<1>6. /\ Linked(L, m) /\ m \in Nat /\ L \in [1..m -> Nodes] /\ L \in Seq(Nodes) /\ Len(L) = m
      /\ \A j, k \in 1..m : L[j] = L[k] => j = k
  BY DEF ListInv, Linked
<1>7. Linked(L, m)'
  BY ListKept DEF ListInv, Elsewhere
<1>8. Kept = L
  BY <1>5, <1>6, KeptWhole
<1>9. /\ owner \in [Nodes -> Threads \cup {NULL}] /\ guest \in [Nodes -> Threads \cup {NULL}]
  BY DEF Base, TypeOK
<1> DEFINE T == AbstractTable
           e == [id |-> id[n], owner |-> owner[n], guest |-> guest[n]]
           left == IF e.owner = t THEN [e EXCEPT !.owner = NULL] ELSE [e EXCEPT !.guest = NULL]
           r == [id |-> id[n], owner |-> o, guest |-> g]
<1>10. /\ Row(L[i]) = e /\ Row(L[i])' = r
       /\ \A j \in 1..m : j # i => Row(L[j])' = Row(L[j])
  BY <1>2, <1>3, <1>4, <1>6, <1>9 DEF Row
<1>11. T = [k \in 1..m |-> Row(L[k])]
  BY <1>6, <1>8 DEF AbstractTable, Row
<1>12. Len(T) = m /\ T[i] = e
  BY <1>6, <1>10, <1>11
<1>13. t \in {owner[n], guest[n]} => left = r
  BY <1>1
<1>14. r.owner = o /\ r.guest = g /\ e.owner = owner[n] /\ e.guest = guest[n]
  OBVIOUS
<1>15. CASE t \notin {owner[n], guest[n]}
  <2>1. th'[t].pc = "release_g" /\ r = e
    BY <1>1, <1>2, <1>15
  <2>2. Kept' = L
    BY <1>5, <1>7, <2>1, KeptWholeNext
  <2>3. \A j \in 1..m : Row(L[j])' = Row(L[j])
    BY <1>10, <2>1
  <2> QED
    BY <1>8, <2>2, <2>3, RowsStay
<1>16. CASE t \in {owner[n], guest[n]} /\ ~(o = NULL /\ g = NULL)
  <2>1. th'[t].pc = "release_g"
    BY <1>2, <1>16
  <2>2. Kept' = L
    BY <1>5, <1>7, <2>1, KeptWholeNext
  <2>3. r # e
    BY <1>1, <1>3, <1>14, <1>16
  <2> HIDE DEF r, e
  <2>4. T' = [T EXCEPT ![i] = r] /\ T' # T
    BY <1>6, <1>8, <1>10, <2>2, <2>3, RowChanges
  <2>5. left = r
    BY <1>13, <1>16
  <2>6. T[i] = e /\ i \in 1..Len(T) /\ t \in {e.owner, e.guest}
    BY <1>12, <1>14, <1>16
  <2>7. ~(left.owner = NULL /\ left.guest = NULL)
    BY <1>14, <1>16, <2>5
  <2> HIDE DEF T
  <2>8. Table!Leave(t)
    BY <2>4, <2>5, <2>6, <2>7 DEF T, Table!Leave
  <2> QED
    BY <2>4, <2>8 DEF T, Table!Next
<1>17. CASE t \in {owner[n], guest[n]} /\ o = NULL /\ g = NULL
  <2>1. th'[t].pc = "unlink" /\ th'[t].curr = n
    BY <1>1, <1>2, <1>17 DEF KeepsPlace
  <2>2. Kept' = Shorter(L, m, i)
    BY <1>4, <1>5, <1>7, <2>1, KeptWithoutNext
  <2>3. /\ Shorter(L, m, i) = [k \in 1..(m - 1) |-> IF k < i THEN L[k] ELSE L[k + 1]]
        /\ Len(Shorter(L, m, i)) = m - 1 /\ m - 1 \in Nat
    BY <1>6 DEF Shorter
  <2>4. T' = [k \in 1..(m - 1) |-> Row(IF k < i THEN L[k] ELSE L[k + 1])']
    BY <2>2, <2>3 DEF AbstractTable, Row
  <2>5. \A k \in 1..(m - 1) : Row(IF k < i THEN L[k] ELSE L[k + 1])' = IF k < i THEN T[k] ELSE T[k + 1]
    BY <1>6, <1>10, <1>11
  <2>6. T' = [k \in 1..(m - 1) |-> IF k < i THEN T[k] ELSE T[k + 1]]
    BY <2>4, <2>5
  <2>7. Len(T') = m - 1
    BY <2>3, <2>6
  <2> HIDE DEF r, e, T
  <2>8. T' # T
    BY <1>6, <1>12, <2>7
  <2>9. left.owner = NULL /\ left.guest = NULL
    BY <1>13, <1>14, <1>17
  <2>10. T' = Table!RemoveAt(i)
    BY <1>12, <2>6 DEF T, Table!RemoveAt
  <2>11. T[i] = e /\ i \in 1..Len(T) /\ t \in {e.owner, e.guest}
    BY <1>12, <1>14, <1>17
  <2>12. Table!Leave(t)
    BY <2>9, <2>10, <2>11 DEF T, Table!Leave
  <2> QED
    BY <2>8, <2>12 DEF T, Table!Next
<1> QED
  BY <1>15, <1>16, <1>17

(* Every step of the list is a step of the table, or none. *)
LEMMA StepRefines == IInv /\ [Next]_vars => [Table!Next]_AbstractTable
<1> SUFFICES ASSUME IInv, [Next]_vars
             PROVE  [Table!Next]_AbstractTable
  OBVIOUS
<1>1. Base
  BY DEF IInv
<1>2. PICK L, m : ListInv(L, m)
  BY DEF IInv
<1>3. ASSUME NEW t \in Threads, Allocate(t) \/ Call(t) \/ Continue(t)
      PROVE  [Table!Next]_AbstractTable
  <2>1. \A u \in Threads : u # t => th'[u] = th[u]
    BY <1>1, <1>3, OthersStay
  <2>2. CASE AppendNode(t)
    BY <1>1, <1>2, <2>2, AppendRefines
  <2>3. CASE Unlink(t)
    BY <1>1, <1>2, <2>3, UnlinkRefines
  <2>4. CASE Vacate(t)
    BY <1>1, <1>2, <2>1, <2>4, VacateRefines
  <2>5. CASE Change(t)
    BY <1>1, <1>2, <2>1, <2>5, ChangeRefines
  <2>6. CASE Elsewhere(t) /\ ~Vacate(t) /\ ~Change(t)
    <3>1. Kept' = Kept
      BY <1>1, <1>2, <2>1, <2>6, KeptStays
    <3>2. \A i \in 1..m : Row(L[i])' = Row(L[i])
      BY <1>1, <1>2, <2>6, SeatsStay
    <3> QED
      BY <1>1, <1>2, <3>1, <3>2, RowsStay
  <2> QED
    BY <1>3, <2>2, <2>3, <2>4, <2>5, <2>6 DEF Continue, Elsewhere
<1>4. CASE UNCHANGED vars
  <2>1. Linked(L, m) /\ Linked(L, m)'
    BY <1>2, <1>4 DEF ListInv, Linked, vars
  <2>2. Chain = L /\ Chain' = L
    BY <2>1, ChainSpells, ChainSpellsNext
  <2>3. \A n : Departing(n)' <=> Departing(n)
    BY <1>4 DEF vars, Departing, At
  <2>4. {i \in 1..Len(Chain) : Departing(Chain[i])}' = {i \in 1..Len(Chain) : Departing(Chain[i])}
    BY <2>2, <2>3
  <2>5. Kept' = Kept
    BY <2>2, <2>4, Zenon DEF Kept
  <2> QED
    BY <1>4, <2>5 DEF vars, AbstractTable
<1> QED
  BY <1>3, <1>4 DEF Next

(* The list with its locks implements the table on which every function of the manager is *)
(* one indivisible step, for any number of threads and of games.                          *)
THEOREM ListImplementsTable == Spec => ImplementsTable
<1>1. Init => Table!Init
  <2> SUFFICES ASSUME Init
               PROVE  AbstractTable = <<>>
    BY DEF Table!Init
  <2>1. <<>> \in [1..0 -> Nodes] /\ 0 \in Nat /\ 1..0 = {}
    OBVIOUS
  <2>2. Linked(<<>>, 0)
    BY <2>1 DEF Linked, Init
  <2>3. \A t \in Threads : th[t].pc # "unlink"
    BY DEF Init, Idle
  <2>4. Kept = <<>>
    BY <2>2, <2>3, KeptWhole
  <2> QED
    BY <2>4 DEF AbstractTable
<1>2. IInv /\ [Next]_vars => [Table!Next]_AbstractTable
  BY StepRefines
<1> QED
  BY <1>1, <1>2, ListInvariance, PTL DEF Spec, ImplementsTable, Table!Spec
=============================================================================
