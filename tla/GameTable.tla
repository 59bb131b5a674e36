----------------------------- MODULE GameTable -----------------------------
(***************************************************************************)
(* What the game manager's list of games promises to its callers: an       *)
(* ordered table on which creation, the changes of seats and the departure *)
(* of a client are single indivisible steps.  A game is reduced to its id  *)
(* and the two seats that decide whether it is kept and whether it is      *)
(* listed: its owner (player_x_socket) and its guest (player_o_socket or   *)
(* waiting_player_socket).                                                 *)
(***************************************************************************)
EXTENDS Integers, Sequences

CONSTANTS Threads, None, MaxId

VARIABLE table  \* sequence of [id, owner, guest], in list order

Ids == 0..(MaxId - 1)
Seat == Threads \cup {None}
Entry == [id : Ids, owner : Seat, guest : Seat]

Init == table = <<>>

\* The table without its i-th entry.
RemoveAt(i) == [k \in 1..(Len(table) - 1) |-> IF k < i THEN table[k] ELSE table[k + 1]]

Create(t) ==
  \E id \in Ids :
    /\ \A i \in 1..Len(table) : table[i].id # id
    /\ table' = Append(table, [id |-> id, owner |-> t, guest |-> None])

Join(t) == \E i \in 1..Len(table) :
  /\ table[i].guest = None
  /\ table' = [table EXCEPT ![i].guest = t]

Reject == \E i \in 1..Len(table) :
  /\ table[i].guest # None
  /\ table' = [table EXCEPT ![i].guest = None]

\* The caller's answer settles that only one of the two seats goes on, as the owner's.
PostGame(t) == \E i \in 1..Len(table) : \E s \in {table[i].owner, table[i].guest} :
  /\ t \in {table[i].owner, table[i].guest}
  /\ table' = [table EXCEPT ![i].owner = s, ![i].guest = None]

\* The caller's seat is vacated and a deserted game disappears, in one step.
Leave(t) == \E i \in 1..Len(table) :
  LET e == table[i]
      left == IF e.owner = t THEN [e EXCEPT !.owner = None] ELSE [e EXCEPT !.guest = None]
  IN  /\ t \in {e.owner, e.guest}
      /\ table' = IF left.owner = None /\ left.guest = None
                  THEN RemoveAt(i) ELSE [table EXCEPT ![i] = left]

\* Every call that succeeds changes the table.
Next == /\ table' # table
        /\ \/ Reject
           \/ \E t \in Threads : Create(t) \/ Join(t) \/ PostGame(t) \/ Leave(t)

Spec == Init /\ [][Next]_table
=============================================================================
