--------------------------- MODULE ShutdownProofs ---------------------------
(***************************************************************************)
(* Proofs about Shutdown for every number of connections, descriptors,     *)
(* rows and naps.                                                          *)
(***************************************************************************)
EXTENDS Shutdown, TLAPS, FiniteSetTheorems, WellFoundedInduction

(* The lowest element of a set of naturals is one of its elements. *)
LEMMA MinIsMember ==
  ASSUME NEW S \in SUBSET Nat, S # {}
  PROVE  Min(S) \in S
<1>1. PICK i \in S : \A j \in S : ~(<<j, i>> \in OpToRel(<, Nat))
  BY NatLessThanWellFounded, WFMin, Zenon
<1>2. ASSUME NEW j \in S
      PROVE  i =< j
  <2>1. i \in Nat /\ j \in Nat
    OBVIOUS
  <2>2. ~(j < i)
    <3>1. <<j, i>> \in Nat \X Nat
      BY <2>1
    <3>2. <<j, i>>[1] = j /\ <<j, i>>[2] = i
      OBVIOUS
    <3> QED BY <1>1, <3>1, <3>2, Zenon DEF OpToRel
  <2> QED BY <2>1, <2>2
<1> QED
  BY <1>2 DEF Min

-----------------------------------------------------------------------------
(* The inductive invariant, in parts. *)

MainPoints == {"check", "call_accept", "accept", "close_server", "close_clients", "wait", "destroy",
               "destroyed", "exited"}
Points == {"none", "new", "register", "recv", "blocked", "handle", "collect", "send",
           "remove", "leave", "collect_last", "send_last", "close", "count_out", "done"}

\* Values; every thread there is has been given a descriptor.
Types ==
  /\ keep_running \in BOOLEAN /\ mpc \in MainPoints /\ waited \in 0..MaxWait
  /\ pc \in [Threads -> Points]
  /\ fd \in [Threads -> Fds \cup {0}]
  /\ conn \in [Fds -> Threads \cup {None}]
  /\ clients \in [Slots -> [socket : Fds \cup {0}, is_active : BOOLEAN]]
  /\ active_clients_count \in Int /\ active_thread_count \in Int
  /\ \A t \in Alive : fd[t] \in Fds

\* Threads that have counted themselves in and not out, and rows in use.
Counted == {t \in Alive : pc[t] # "new"}
InUse == {i \in Slots : clients[i].is_active}

\* The counters; closing the clients empties rows without counting.
Counts ==
  /\ active_thread_count = Cardinality(Counted)
  /\ Cardinality(InUse) <= active_clients_count
  /\ active_clients_count <= MAX_CLIENTS

\* main has closed the clients; nothing is accepted any more.
Late == mpc \in {"wait", "destroy", "destroyed", "exited"}

\* Until main closes them, descriptors belong to the threads that use them.
Owned ==
  \A t \in Alive : pc[t] # "count_out" => conn[fd[t]] = t \/ (conn[fd[t]] = None /\ Late)

\* Each thread that has not closed its descriptor has one of its own.
Distinct ==
  \A t, u \in Alive :
    t # u /\ pc[t] # "count_out" /\ pc[u] # "count_out" => fd[t] # fd[u]

\* Every row in use is that of a thread being served, and no two are of the same.
Served == {"recv", "blocked", "handle", "collect", "send", "remove"}
Rows ==
  /\ \A i \in Slots : clients[i].is_active =>
       \E t \in Threads : pc[t] \in Served /\ fd[t] = clients[i].socket
  /\ \A i, j \in Slots : clients[i].is_active /\ clients[j].is_active /\ i # j =>
       clients[i].socket # clients[j].socket

\* What a thread has collected for a broadcast.
Targets == targets \in [Threads -> SUBSET [to : Fds, meant : Threads \cup {None}]]

\* A collected descriptor is still that of the client it stands for, or that client was
\* dismissed by its thread, or main has closed the clients.
Meant(m) ==
  \/ m.meant # None /\ conn[m.to] = m.meant
  \/ m.meant # None /\ pc[m.meant] \in {"count_out", "done"}
  \/ conn[m.to] = None /\ Late
Sent == \A t \in Threads : \A m \in targets[t] : Meant(m)

\* What main knows of the threads once it has stopped waiting.
Waited ==
  mpc \in {"destroy", "destroyed", "exited"} => waited = MaxWait \/ Alive \subseteq unseen

-----------------------------------------------------------------------------
(* Every step of main or of a thread keeps the values in their types. *)
LEMMA TypesStep == Types /\ [ShutdownNext]_mvars => Types'
<1> SUFFICES ASSUME Types, [ShutdownNext]_mvars PROVE Types'
  OBVIOUS
<1> USE ShutdownAssumption DEF Types, MainPoints, Points, Alive, Threads, None
<1>1. CASE UNCHANGED mvars
  BY <1>1 DEF mvars
<1>2. CASE handle_signal
  BY <1>2 DEF handle_signal, table
<1>3. CASE check_running \/ call_accept
  BY <1>3 DEF check_running, call_accept, MainGoto, table
<1>4. CASE accept
  <2>1. CASE UNCHANGED <<pc, fd, peer, conn>>
    BY <1>4, <2>1 DEF accept, MainGoto, table
  <2>2. CASE ~UNCHANGED <<pc, fd, peer, conn>>
    <3> DEFINE free == {s \in Fds : conn[s] = None}
    <3>1. PICK t \in Threads : /\ free # {}
                               /\ conn' = [conn EXCEPT ![Min(free)] = t]
                               /\ fd' = [fd EXCEPT ![t] = Min(free)]
                               /\ pc' = [pc EXCEPT ![t] = "new"]
      BY <1>4, <2>2 DEF accept
    <3>2. free \in SUBSET Nat
      OBVIOUS
    <3>3. Min(free) \in free
      BY <3>1, <3>2, MinIsMember
    <3>4. Min(free) \in Fds
      BY <3>3
    <3> HIDE DEF free
    <3> QED BY <1>4, <3>1, <3>4 DEF accept, MainGoto, table
  <2> QED BY <2>1, <2>2
<1>5. CASE close_server_socket
  BY <1>5 DEF close_server_socket, MainGoto, table
<1>6. CASE close_clients
  <2>1. clients' \in [Slots -> [socket : Fds \cup {0}, is_active : BOOLEAN]]
    BY <1>6 DEF close_clients
  <2> QED BY <1>6, <2>1 DEF close_clients, MainGoto
<1>7. CASE wait_for_threads
  BY <1>7 DEF wait_for_threads, table
<1>8. CASE cleanup_server \/ exit
  BY <1>8 DEF cleanup_server, exit, MainGoto, table
<1>9. ASSUME NEW t \in Threads, Thread(t)
      PROVE  Types'
  <2> USE DEF At, To, main, table
  <2>1. CASE count_in(t) \/ count_out(t)
    <3>1. CASE count_in(t)
      BY <3>1 DEF count_in
    <3>2. CASE count_out(t)
      BY <3>2 DEF count_out
    <3> QED BY <2>1, <3>1, <3>2
  <2>2. CASE add_client(t)
    <3> DEFINE free == {i \in Slots : ~clients[i].is_active}
    <3>1. fd[t] \in Fds
      BY <2>2 DEF add_client
    <3>2. free \in SUBSET Nat
      BY DEF Slots
    <3>3. free # {} => Min(free) \in free
      BY <3>2, MinIsMember
    <3>4. free # {} => Min(free) \in Slots
      BY <3>3
    <3>5. \/ UNCHANGED clients
          \/ /\ free # {}
             /\ clients' = [clients EXCEPT ![Min(free)] = [socket |-> fd[t], is_active |-> TRUE]]
      BY <2>2 DEF add_client
    <3> HIDE DEF free
    <3>6. clients' \in [Slots -> [socket : Fds \cup {0}, is_active : BOOLEAN]]
      <4> DEFINE row == [socket |-> fd[t], is_active |-> TRUE]
      <4>1. row \in [socket : Fds \cup {0}, is_active : BOOLEAN]
        BY <3>1
      <4> HIDE DEF row
      <4>2. clients' = clients \/ clients' = [clients EXCEPT ![Min(free)] = row]
        BY <3>5 DEF row
      <4> QED BY <4>1, <4>2
    <3> QED BY <2>2, <3>6 DEF add_client
  <2>3. CASE call_recv(t) \/ recv(t) \/ handle_message(t) \/ leave_games(t)
    BY <2>3 DEF call_recv, recv, handle_message, leave_games
  <2>4. CASE remove_client(t)
    <3>1. RowsOf(fd[t]) \in SUBSET Slots /\ RowsOf(fd[t]) \in SUBSET Nat
      BY DEF Slots, RowsOf
    <3>2. RowsOf(fd[t]) # {} => Min(RowsOf(fd[t])) \in Slots
      BY <3>1, MinIsMember
    <3>3. clients' \in [Slots -> [socket : Fds \cup {0}, is_active : BOOLEAN]]
      BY <2>4, <3>2, ZenonT(40) DEF remove_client
    <3> QED BY <2>4, <3>3 DEF remove_client
  <2>5. CASE close_socket(t)
    BY <2>5 DEF close_socket
  <2>6. CASE broadcast_collect(t) \/ broadcast_send(t)
    BY <2>6 DEF broadcast_collect, broadcast_send
  <2> QED BY <1>9, <2>1, <2>2, <2>3, <2>4, <2>5, <2>6 DEF Thread
<1>10. ASSUME NEW t \in Threads, PeerGoes(t)
       PROVE  Types'
  BY <1>10 DEF PeerGoes, main, table
<1> QED
  BY <1>1, <1>2, <1>3, <1>4, <1>5, <1>6, <1>7, <1>8, <1>9, <1>10 DEF ShutdownNext, Proceed

(* The threads and the rows can be counted. *)
LEMMA CountedFinite == /\ IsFiniteSet(Counted) /\ Cardinality(Counted) \in Nat
                       /\ IsFiniteSet(InUse) /\ Cardinality(InUse) \in Nat
<1>1. IsFiniteSet(Threads) /\ IsFiniteSet(Slots)
  BY ShutdownAssumption, FS_Interval DEF Threads, Slots
<1>2. Counted \in SUBSET Threads /\ InUse \in SUBSET Slots
  BY DEF Counted, Alive, InUse
<1> QED
  BY <1>1, <1>2, FS_Subset, FS_CardinalityType

(* The two counters follow the threads and the rows through every step. *)
LEMMA CountsStep == Types /\ Counts /\ [ShutdownNext]_mvars => Counts'
<1> SUFFICES ASSUME Types, Counts, [ShutdownNext]_mvars PROVE Counts'
  OBVIOUS
<1> USE CountedFinite
<1>1. ASSUME UNCHANGED <<pc, clients, active_clients_count, active_thread_count>>
      PROVE  Counts'
  BY <1>1 DEF Counts, Counted, Alive, InUse
<1>2. CASE UNCHANGED mvars
  BY <1>1, <1>2 DEF mvars
<1>3. CASE handle_signal \/ check_running \/ call_accept \/ close_server_socket \/ wait_for_threads
             \/ cleanup_server \/ exit
  BY <1>1, <1>3 DEF handle_signal, check_running, call_accept, close_server_socket, wait_for_threads,
                    cleanup_server, exit, table
<1>4. CASE accept
  <2>1. UNCHANGED <<clients, active_clients_count, active_thread_count>>
    BY <1>4 DEF accept, table
  <2>2. Counted' = Counted
    BY <1>4 DEF accept, Counted, Alive, Types
  <2> QED BY <2>1, <2>2 DEF Counts, InUse
<1>5. CASE close_clients
  <2>1. UNCHANGED <<pc, active_clients_count, active_thread_count>>
    BY <1>5 DEF close_clients
  <2>2. InUse' = {}
    <3>1. \A i \in Slots : ~clients'[i].is_active
      BY <1>5 DEF close_clients, Types
    <3> QED BY <3>1 DEF InUse
  <2> QED BY <2>1, <2>2, FS_EmptySet DEF Counts, Counted, Alive, Types
<1>6. ASSUME NEW t \in Threads, Thread(t)
      PROVE  Counts'
  <2> USE DEF At, To, table
  <2>1. CASE count_in(t)
    <3>1. Counted' = Counted \cup {t} /\ t \notin Counted
      BY <2>1 DEF count_in, Counted, Alive, Types
    <3>2. Cardinality(Counted') = Cardinality(Counted) + 1
      BY <3>1, FS_AddElement
    <3> QED BY <2>1, <3>2 DEF count_in, Counts, InUse
  <2>2. CASE count_out(t)
    <3>1. Counted' = Counted \ {t} /\ t \in Counted
      BY <2>2 DEF count_out, Counted, Alive, Types
    <3>2. Cardinality(Counted') = Cardinality(Counted) - 1
      BY <3>1, FS_RemoveElement
    <3> QED BY <2>2, <3>2 DEF count_out, Counts, InUse
  <2>3. CASE \/ call_recv(t) \/ recv(t) \/ handle_message(t) \/ leave_games(t) \/ close_socket(t)
             \/ broadcast_collect(t) \/ broadcast_send(t)
    <3>1. Counted' = Counted
      BY <2>3 DEF call_recv, recv, handle_message, leave_games, close_socket, broadcast_collect,
                  broadcast_send, Counted, Alive, Types
    <3>2. UNCHANGED <<clients, active_clients_count, active_thread_count>>
      BY <2>3 DEF call_recv, recv, handle_message, leave_games, close_socket, broadcast_collect,
                  broadcast_send
    <3> QED BY <3>1, <3>2 DEF Counts, InUse
  <2>4. CASE add_client(t)
    <3> DEFINE free == {i \in Slots : ~clients[i].is_active}
    <3>1. Counted' = Counted /\ UNCHANGED active_thread_count
      BY <2>4 DEF add_client, Counted, Alive, Types
    <3>2. CASE UNCHANGED table
      BY <3>1, <3>2 DEF Counts, InUse
    <3>3. CASE /\ active_clients_count < MAX_CLIENTS /\ free # {}
               /\ clients' = [clients EXCEPT ![Min(free)] = [socket |-> fd[t], is_active |-> TRUE]]
               /\ active_clients_count' = active_clients_count + 1
      <4>1. free \in SUBSET Nat
        BY ShutdownAssumption DEF Slots
      <4>2. Min(free) \in free
        BY <3>3, <4>1, MinIsMember
      <4>3. Min(free) \in Slots /\ ~clients[Min(free)].is_active
        BY <4>2
      <4> HIDE DEF free
      <4>4. InUse' = InUse \cup {Min(free)} /\ Min(free) \notin InUse
        BY <3>3, <4>3 DEF InUse, Types
      <4>5. Cardinality(InUse') = Cardinality(InUse) + 1
        BY <4>4, FS_AddElement
      <4> QED BY <3>1, <3>3, <4>5, ShutdownAssumption DEF Counts, Types
    <3> QED BY <2>4, <3>2, <3>3, ShutdownAssumption DEF add_client, Types
  <2>5. CASE remove_client(t)
    <3> DEFINE rows == RowsOf(fd[t])
    <3>1. Counted' = Counted /\ UNCHANGED active_thread_count
      BY <2>5 DEF remove_client, Counted, Alive, Types
    <3>2. CASE UNCHANGED table
      BY <3>1, <3>2 DEF Counts, InUse
    <3>3. CASE /\ rows # {}
               /\ clients' = [clients EXCEPT ![Min(rows)].is_active = FALSE]
               /\ active_clients_count' = active_clients_count - 1
      <4>1. rows \in SUBSET Nat
        BY ShutdownAssumption DEF RowsOf, Slots
      <4>2. Min(rows) \in rows
        BY <3>3, <4>1, MinIsMember
      <4>3. Min(rows) \in Slots /\ clients[Min(rows)].is_active
        BY <4>2 DEF RowsOf
      <4> HIDE DEF rows
      <4>4. InUse' = InUse \ {Min(rows)} /\ Min(rows) \in InUse
        BY <3>3, <4>3 DEF InUse, Types
      <4>5. Cardinality(InUse') = Cardinality(InUse) - 1
        BY <4>4, FS_RemoveElement
      <4> QED BY <3>1, <3>3, <4>5, ShutdownAssumption DEF Counts, Types
    <3> QED BY <2>5, <3>2, <3>3 DEF remove_client
  <2> QED BY <1>6, <2>1, <2>2, <2>3, <2>4, <2>5 DEF Thread
<1>7. ASSUME NEW t \in Threads, PeerGoes(t)
      PROVE  Counts'
  BY <1>1, <1>7 DEF PeerGoes, table
<1> QED
  BY <1>2, <1>3, <1>4, <1>5, <1>6, <1>7 DEF ShutdownNext, Proceed

(* A thread keeps its descriptor to itself: until main closes the clients'  *)
(* descriptors only the thread itself gives its own back, and accept() only *)
(* gives out one that nobody has; after that none is given out.             *)
LEMMA OwnedStep == Types /\ Owned /\ [ShutdownNext]_mvars => Owned'
<1> SUFFICES ASSUME Types, Owned, [ShutdownNext]_mvars PROVE Owned'
  OBVIOUS
<1> USE DEF Late
<1>1. ASSUME UNCHANGED <<pc, fd, conn>>, Late => Late'
      PROVE  Owned'
  BY <1>1 DEF Owned, Alive
<1>2. CASE UNCHANGED mvars
  BY <1>1, <1>2 DEF mvars
<1>3. CASE handle_signal \/ check_running \/ call_accept \/ close_server_socket \/ wait_for_threads
             \/ cleanup_server \/ exit
  BY <1>1, <1>3 DEF handle_signal, check_running, call_accept, close_server_socket, wait_for_threads,
                    cleanup_server, exit, MainGoto
<1>4. CASE accept
  <2>1. mpc = "accept" /\ mpc' = "check"
    BY <1>4 DEF accept, MainGoto
  <2>2. CASE UNCHANGED <<pc, fd, conn>>
    BY <1>1, <2>1, <2>2
  <2>3. CASE ~UNCHANGED <<pc, fd, conn>>
    <3> DEFINE free == {s \in Fds : conn[s] = None}
    <3>1. PICK t \in Threads : /\ free # {} /\ pc[t] = "none"
                               /\ conn' = [conn EXCEPT ![Min(free)] = t]
                               /\ fd' = [fd EXCEPT ![t] = Min(free)]
                               /\ pc' = [pc EXCEPT ![t] = "new"]
      BY <1>4, <2>3 DEF accept
    <3>2. free \in SUBSET Nat
      BY ShutdownAssumption
    <3>3. Min(free) \in free
      BY <3>1, <3>2, MinIsMember
    <3>4. Min(free) \in Fds /\ conn[Min(free)] = None
      BY <3>3
    <3> HIDE DEF free
    <3>5. conn'[fd'[t]] = t
      BY <3>1, <3>4 DEF Types
    <3>6. ASSUME NEW u \in Threads, u # t, u \in Alive, pc[u] # "count_out"
          PROVE  conn'[fd'[u]] = u
      <4>1. conn[fd[u]] = u /\ fd[u] \in Fds /\ fd'[u] = fd[u]
        BY <2>1, <3>1, <3>6 DEF Owned, Types
      <4>2. fd[u] # Min(free)
        BY <3>4, <4>1, ShutdownAssumption DEF None, Threads
      <4> QED BY <3>1, <3>4, <4>1, <4>2 DEF Types
    <3>7. \A u \in Alive' : u # t => u \in Alive /\ pc'[u] = pc[u]
      BY <3>1 DEF Alive, Types
    <3> QED BY <3>5, <3>6, <3>7 DEF Owned, Alive
  <2> QED BY <2>2, <2>3
<1>5. CASE close_clients
  <2>1. mpc' = "wait" /\ UNCHANGED <<pc, fd>>
    BY <1>5 DEF close_clients, MainGoto
  <2>2. \A s \in Fds : conn'[s] \in {conn[s], None}
    BY <1>5 DEF close_clients
  <2>3. Alive' = Alive /\ \A t \in Alive : fd[t] \in Fds
    BY <2>1 DEF Alive, Types
  <2> QED BY <2>1, <2>2, <2>3 DEF Owned
<1>6. ASSUME NEW t \in Threads, Thread(t)
      PROVE  Owned'
  <2> USE DEF At, To, main
  <2>1. UNCHANGED <<fd, mpc>> /\ t \in Alive
    BY <1>6 DEF Thread, count_in, add_client, call_recv, recv, handle_message, broadcast_collect,
                broadcast_send, remove_client,
                leave_games, close_socket, count_out, Alive
  <2>2. \A u \in Threads : u # t => pc'[u] = pc[u]
    BY <1>6 DEF Thread, count_in, add_client, call_recv, recv, handle_message, broadcast_collect,
                broadcast_send, remove_client,
                leave_games, close_socket, count_out, Types
  <2>3. CASE close_socket(t)
    <3>1. conn' = [conn EXCEPT ![fd[t]] = None] /\ pc'[t] = "count_out"
      BY <2>3 DEF close_socket, Types
    <3>2. fd[t] \in Fds /\ (conn[fd[t]] = t \/ Late)
      BY <2>1, <2>3 DEF close_socket, Owned, Types
    <3>3. ASSUME NEW u \in Threads, u # t, u \in Alive, pc[u] # "count_out"
          PROVE  conn'[fd[u]] = u \/ (conn'[fd[u]] = None /\ Late)
      <4>1. fd[u] \in Fds /\ (conn[fd[u]] = u \/ (conn[fd[u]] = None /\ Late))
        BY <3>3 DEF Owned, Types
      <4> QED BY <3>1, <3>2, <3>3, <4>1 DEF Types
    <3>4. \A u \in Alive' : u = t \/ (u \in Alive /\ pc'[u] = pc[u])
      BY <2>2 DEF Alive
    <3> QED BY <2>1, <3>1, <3>3, <3>4 DEF Owned, Alive
  <2>4. CASE ~close_socket(t)
    <3>1. /\ UNCHANGED conn
          /\ pc[t] = "count_out" => pc'[t] = "done"
      BY <1>6, <2>4 DEF Thread, count_in, add_client, call_recv, recv, handle_message,
                        broadcast_collect, broadcast_send, remove_client, leave_games, count_out, Types
    <3>2. \A u \in Alive' : u \in Alive /\ (pc'[u] # "count_out" => pc[u] # "count_out")
      BY <2>1, <2>2, <3>1 DEF Alive
    <3> QED BY <2>1, <3>1, <3>2 DEF Owned
  <2> QED BY <2>3, <2>4
<1>7. ASSUME NEW t \in Threads, PeerGoes(t)
      PROVE  Owned'
  BY <1>1, <1>7 DEF PeerGoes, main
<1> QED
  BY <1>2, <1>3, <1>4, <1>5, <1>6, <1>7 DEF ShutdownNext, Proceed

(* What every step leaves of the descriptors: a thread other than the one   *)
(* accepted keeps its own, and only accepting and registering leave "none"   *)
(* and enter Served.                                                         *)
LEMMA DistinctStep == Types /\ Owned /\ Distinct /\ [ShutdownNext]_mvars => Distinct'
<1> SUFFICES ASSUME Types, Owned, Distinct, [ShutdownNext]_mvars PROVE Distinct'
  OBVIOUS
<1>1. ASSUME UNCHANGED fd,
             \A t \in Alive' : t \in Alive /\ (pc[t] = "count_out" => pc'[t] = "count_out")
      PROVE  Distinct'
  BY <1>1 DEF Distinct
<1>2. CASE UNCHANGED mvars
  BY <1>1, <1>2 DEF mvars, Alive
<1>3. CASE handle_signal \/ Proceed
  BY <1>1, <1>3 DEF handle_signal, Proceed, check_running, call_accept, close_server_socket,
                    close_clients, wait_for_threads, cleanup_server, exit, Alive
<1>4. CASE accept
  <2>1. CASE UNCHANGED <<pc, fd>>
    BY <1>1, <2>1 DEF Alive
  <2>2. CASE ~UNCHANGED <<pc, fd>>
    <3> DEFINE free == {s \in Fds : conn[s] = None}
    <3>1. PICK t \in Threads : /\ free # {} /\ pc[t] = "none"
                               /\ fd' = [fd EXCEPT ![t] = Min(free)]
                               /\ pc' = [pc EXCEPT ![t] = "new"]
      BY <1>4, <2>2 DEF accept
    <3>2. free \in SUBSET Nat
      BY ShutdownAssumption
    <3>3. Min(free) \in free
      BY <3>1, <3>2, MinIsMember
    <3>4. conn[Min(free)] = None
      BY <3>3
    <3> HIDE DEF free
    <3>5. ASSUME NEW u \in Alive, pc[u] # "count_out"
          PROVE  fd[u] # Min(free)
      <4>1. conn[fd[u]] = u /\ u # None
        BY <1>4, <3>5, ShutdownAssumption DEF accept, Owned, Late, Alive, None, Threads
      <4> QED BY <3>4, <4>1
    <3>6. \A u \in Alive' : u # t => u \in Alive /\ pc'[u] = pc[u] /\ fd'[u] = fd[u]
      BY <3>1 DEF Alive, Types
    <3>7. fd'[t] = Min(free)
      BY <3>1 DEF Types
    <3> QED BY <3>5, <3>6, <3>7 DEF Distinct
  <2> QED BY <2>1, <2>2
<1>5. ASSUME NEW t \in Threads, Thread(t)
      PROVE  Distinct'
  <2>1. UNCHANGED fd /\ t \in Alive /\ (pc[t] = "count_out" => pc'[t] = "done")
    BY <1>5 DEF Thread, count_in, add_client, call_recv, recv, handle_message, broadcast_collect,
                broadcast_send, remove_client, leave_games, close_socket, count_out, At, To, Alive,
                Types
  <2>2. \A u \in Threads : u # t => pc'[u] = pc[u]
    BY <1>5 DEF Thread, count_in, add_client, call_recv, recv, handle_message, broadcast_collect,
                broadcast_send, remove_client, leave_games, close_socket, count_out, At, To, Types
  <2>3. \A u \in Alive' : u \in Alive /\ (pc[u] = "count_out" => pc'[u] = "count_out")
    BY <2>1, <2>2 DEF Alive
  <2> QED BY <1>1, <2>1, <2>3
<1>6. ASSUME NEW t \in Threads, PeerGoes(t)
      PROVE  Distinct'
  BY <1>1, <1>6 DEF PeerGoes, Alive
<1> QED
  BY <1>2, <1>3, <1>4, <1>5, <1>6 DEF ShutdownNext

(* Rows come and go with the service of their threads; closing the clients  *)
(* empties them all.                                                        *)
LEMMA RowsStep == Types /\ Distinct /\ Rows /\ [ShutdownNext]_mvars => Rows'
<1> SUFFICES ASSUME Types, Distinct, Rows, [ShutdownNext]_mvars PROVE Rows'
  OBVIOUS
<1>1. ASSUME UNCHANGED clients,
             \A t \in Threads : pc[t] \in Served => pc'[t] \in Served /\ fd'[t] = fd[t]
      PROVE  Rows'
  BY <1>1 DEF Rows
<1>2. CASE UNCHANGED mvars
  BY <1>1, <1>2 DEF mvars, table
<1>3. CASE handle_signal \/ check_running \/ call_accept \/ close_server_socket
             \/ wait_for_threads \/ cleanup_server \/ exit
  BY <1>1, <1>3 DEF handle_signal, check_running, call_accept, close_server_socket,
                    wait_for_threads, cleanup_server, exit, table
<1>4. CASE accept
  <2>1. UNCHANGED clients /\ \A t \in Threads : pc[t] # "none" => pc'[t] = pc[t] /\ fd'[t] = fd[t]
    BY <1>4 DEF accept, table, Types
  <2> QED BY <1>1, <2>1 DEF Served
<1>5. CASE close_clients
  <2>1. \A i \in Slots : ~clients'[i].is_active
    BY <1>5 DEF close_clients, Types
  <2> QED BY <2>1 DEF Rows
<1>6. ASSUME NEW t \in Threads, Thread(t)
      PROVE  Rows'
  <2> USE DEF At, To, table
  <2>1. UNCHANGED fd /\ \A u \in Threads : u # t => pc'[u] = pc[u]
    BY <1>6 DEF Thread, count_in, add_client, call_recv, recv, handle_message, broadcast_collect,
                broadcast_send, remove_client, leave_games, close_socket, count_out, Types
  <2>2. CASE add_client(t)
    <3> DEFINE free == {i \in Slots : ~clients[i].is_active}
    <3>1. pc[t] = "register" /\ t \in Alive
      BY <2>2 DEF add_client, Alive
    <3>2. CASE UNCHANGED clients
      <4>1. \A u \in Threads : pc[u] \in Served => pc'[u] \in Served
        BY <2>1, <3>1 DEF Served
      <4> QED BY <1>1, <2>1, <3>2, <4>1
    <3>3. CASE /\ free # {} /\ pc' = [pc EXCEPT ![t] = "recv"]
               /\ clients' = [clients EXCEPT ![Min(free)] = [socket |-> fd[t], is_active |-> TRUE]]
      <4>1. free \in SUBSET Nat
        BY ShutdownAssumption DEF Slots
      <4>2. Min(free) \in free
        BY <3>3, <4>1, MinIsMember
      <4>3. PICK k \in Slots : k = Min(free)
        BY <4>2
      <4> HIDE DEF free
      <4>4. /\ clients'[k].socket = fd[t] /\ clients'[k].is_active /\ pc'[t] = "recv"
            /\ \A i \in Slots : i # k => clients'[i] = clients[i]
        BY <3>3, <4>3 DEF Types
      <4>5. ASSUME NEW i \in Slots, i # k, clients'[i].is_active
            PROVE  /\ \E u \in Threads : pc'[u] \in Served /\ fd'[u] = clients'[i].socket
                   /\ clients'[i].socket # fd[t]
        <5>1. PICK u \in Threads : pc[u] \in Served /\ fd[u] = clients[i].socket
          BY <4>4, <4>5 DEF Rows
        <5>2. u # t /\ u \in Alive /\ pc[u] # "count_out" /\ pc[t] # "count_out"
          BY <3>1, <5>1 DEF Served, Alive
        <5>3. fd[u] # fd[t]
          BY <3>1, <5>2 DEF Distinct
        <5> QED BY <2>1, <4>4, <4>5, <5>1, <5>2, <5>3
      <4>6. \A i \in Slots : clients'[i].is_active =>
              \E u \in Threads : pc'[u] \in Served /\ fd'[u] = clients'[i].socket
        BY <2>1, <4>4, <4>5 DEF Served
      <4>7. ASSUME NEW i \in Slots, NEW j \in Slots, i # j, clients'[i].is_active, clients'[j].is_active
            PROVE  clients'[i].socket # clients'[j].socket
        BY <4>4, <4>5, <4>7 DEF Rows
      <4> QED BY <4>6, <4>7 DEF Rows
    <3> QED BY <2>2, <3>2, <3>3 DEF add_client
  <2>3. CASE remove_client(t)
    <3> DEFINE rows == RowsOf(fd[t])
    <3>1. pc[t] = "remove" /\ t \in Alive /\ rows \in SUBSET Nat
      BY <2>3, ShutdownAssumption DEF remove_client, Alive, RowsOf, Slots
    <3>2. PICK k : rows # {} => k = Min(rows)
      OBVIOUS
    <3>3. rows # {} => k \in rows
      BY <3>1, <3>2, MinIsMember
    <3>4. /\ \A i \in Slots : clients'[i].is_active =>
                clients[i].is_active /\ clients'[i].socket = clients[i].socket
          /\ rows # {} => ~clients'[k].is_active
      <4>1. CASE rows = {}
        BY <2>3, <4>1 DEF remove_client
      <4>2. CASE rows # {}
        <5>1. clients' = [clients EXCEPT ![k].is_active = FALSE] /\ k \in Slots
          BY <2>3, <3>2, <3>3, <4>2 DEF remove_client, RowsOf
        <5> QED BY <5>1 DEF Types
      <4> QED BY <4>1, <4>2
    <3>5. ASSUME NEW i \in Slots, clients'[i].is_active
          PROVE  \E u \in Threads : pc'[u] \in Served /\ fd'[u] = clients'[i].socket
      <4>1. clients[i].is_active /\ clients'[i].socket = clients[i].socket
        BY <3>4, <3>5
      <4>2. PICK u \in Threads : pc[u] \in Served /\ fd[u] = clients[i].socket
        BY <4>1 DEF Rows
      <4>3. u # t
        <5>1. ASSUME u = t PROVE FALSE
          <6>1. i \in rows /\ k \in rows /\ i # k
            BY <3>3, <3>4, <3>5, <4>1, <4>2, <5>1 DEF RowsOf
          <6>2. /\ k \in Slots /\ clients[k].is_active
                /\ clients[k].socket = fd[t] /\ clients[i].socket = fd[t]
            BY <6>1 DEF RowsOf
          <6> QED BY <4>1, <6>1, <6>2 DEF Rows
        <5> QED BY <5>1
      <4> QED BY <2>1, <4>1, <4>2, <4>3
    <3>6. ASSUME NEW i \in Slots, NEW j \in Slots, i # j, clients'[i].is_active, clients'[j].is_active
          PROVE  clients'[i].socket # clients'[j].socket
      BY <3>4, <3>6 DEF Rows
    <3> QED BY <3>5, <3>6 DEF Rows
  <2>4. CASE ~add_client(t) /\ ~remove_client(t)
    <3>1. UNCHANGED clients /\ (pc[t] \in Served => pc'[t] \in Served)
      BY <1>6, <2>4 DEF Thread, count_in, call_recv, recv, handle_message, broadcast_collect,
                        broadcast_send, leave_games, close_socket, count_out, Types, Served
    <3> QED BY <1>1, <2>1, <3>1
  <2> QED BY <2>2, <2>3, <2>4
<1>7. ASSUME NEW t \in Threads, PeerGoes(t)
      PROVE  Rows'
  BY <1>1, <1>7 DEF PeerGoes, table
<1> QED
  BY <1>2, <1>3, <1>4, <1>5, <1>6, <1>7 DEF ShutdownNext, Proceed

(* The descriptors a thread collects are those of rows in use, which are    *)
(* descriptors of threads.                                                  *)
LEMMA TargetsStep == Types /\ Rows /\ Targets /\ [ShutdownNext]_mvars => Targets'
<1> SUFFICES ASSUME Types, Rows, Targets, [ShutdownNext]_mvars PROVE Targets'
  OBVIOUS
<1>1. CASE UNCHANGED targets
  BY <1>1 DEF Targets
<1>2. ASSUME NEW t \in Threads, broadcast_collect(t)
      PROVE  Targets'
  <2>1. PICK idle \in SUBSET {i \in Slots : clients[i].is_active} :
          targets' = [targets EXCEPT ![t] = {[to |-> clients[i].socket,
                                              meant |-> conn[clients[i].socket]] : i \in idle}]
    BY <1>2 DEF broadcast_collect
  <2>2. ASSUME NEW i \in idle
        PROVE  [to |-> clients[i].socket, meant |-> conn[clients[i].socket]]
                 \in [to : Fds, meant : Threads \cup {None}]
    <3>1. PICK u \in Threads : pc[u] \in Served /\ fd[u] = clients[i].socket
      BY DEF Rows
    <3>2. clients[i].socket \in Fds
      BY <3>1 DEF Types, Alive, Served
    <3> QED BY <3>2 DEF Types
  <2> DEFINE new == {[to |-> clients[i].socket, meant |-> conn[clients[i].socket]] : i \in idle}
  <2>3. new \in SUBSET [to : Fds, meant : Threads \cup {None}]
    BY <2>2, Zenon
  <2>4. targets' = [targets EXCEPT ![t] = new]
    BY <2>1
  <2> HIDE DEF new
  <2> QED BY <2>3, <2>4 DEF Targets
<1>3. ASSUME NEW t \in Threads, broadcast_send(t)
      PROVE  Targets'
  <2>1. UNCHANGED targets \/ \E m \in targets[t] : targets' = [targets EXCEPT ![t] = @ \ {m}]
    BY <1>3 DEF broadcast_send
  <2> QED BY <2>1 DEF Targets
<1>4. ASSUME ~UNCHANGED targets
      PROVE  \E t \in Threads : broadcast_collect(t) \/ broadcast_send(t)
  BY <1>4 DEF ShutdownNext, Proceed, Thread, check_running, call_accept, close_server_socket,
              close_clients, wait_for_threads, cleanup_server, exit, accept, handle_signal,
              count_in, add_client, call_recv, recv, handle_message, remove_client, leave_games,
              close_socket, count_out, PeerGoes, mvars
<1> QED
  BY <1>1, <1>2, <1>3, <1>4, Zenon

(* A descriptor collected for a broadcast stays that of its client until    *)
(* the client's own thread closes it or main closes them all.               *)
LEMMA SentStep == Types /\ Owned /\ Rows /\ Targets /\ Sent /\ [ShutdownNext]_mvars => Sent'
<1> SUFFICES ASSUME Types, Owned, Rows, Targets, Sent, [ShutdownNext]_mvars PROVE Sent'
  OBVIOUS
<1>0. \A t \in Threads : \A m \in targets[t] : m.to \in Fds /\ m.meant \in Threads \cup {None}
  BY DEF Targets
<1>1. ASSUME UNCHANGED <<targets, conn>>, Late => Late',
             \A t \in Threads : pc[t] \in {"count_out", "done"} => pc'[t] \in {"count_out", "done"}
      PROVE  Sent'
  BY <1>0, <1>1 DEF Sent, Meant
<1>2. CASE UNCHANGED mvars
  BY <1>1, <1>2 DEF mvars, Late
<1>3. CASE handle_signal \/ check_running \/ call_accept \/ close_server_socket
             \/ wait_for_threads \/ cleanup_server \/ exit
  BY <1>1, <1>3 DEF handle_signal, check_running, call_accept, close_server_socket,
                    wait_for_threads, cleanup_server, exit, MainGoto, Late
<1>4. CASE accept
  <2>1. ~Late /\ UNCHANGED targets
    BY <1>4 DEF accept, Late
  <2>2. CASE UNCHANGED <<pc, conn>>
    BY <1>1, <2>1, <2>2
  <2>3. CASE ~UNCHANGED <<pc, conn>>
    <3> DEFINE free == {s \in Fds : conn[s] = None}
    <3>1. PICK t \in Threads : /\ free # {} /\ pc[t] = "none"
                               /\ conn' = [conn EXCEPT ![Min(free)] = t]
                               /\ pc' = [pc EXCEPT ![t] = "new"]
      BY <1>4, <2>3 DEF accept
    <3>2. free \in SUBSET Nat
      BY ShutdownAssumption
    <3>3. Min(free) \in free
      BY <3>1, <3>2, MinIsMember
    <3>4. conn[Min(free)] = None
      BY <3>3
    <3> HIDE DEF free
    <3>5. ASSUME NEW u \in Threads, NEW m \in targets[u]
          PROVE  Meant(m)'
      <4>1. Meant(m) /\ m.to \in Fds /\ m.meant \in Threads \cup {None}
        BY <1>0 DEF Sent
      <4>2. CASE m.meant # None /\ conn[m.to] = m.meant
        BY <3>1, <3>4, <4>1, <4>2 DEF Meant, Types
      <4>3. CASE m.meant # None /\ pc[m.meant] \in {"count_out", "done"}
        BY <3>1, <4>1, <4>3 DEF Meant, Types
      <4> QED BY <2>1, <4>1, <4>2, <4>3 DEF Meant
    <3> QED BY <2>1, <3>5 DEF Sent
  <2> QED BY <2>2, <2>3
<1>5. CASE close_clients
  <2>1. Late' /\ UNCHANGED <<targets, pc>> /\ \A s \in Fds : conn'[s] \in {conn[s], None}
    BY <1>5 DEF close_clients, MainGoto, Late
  <2>2. ~Late
    BY <1>5 DEF close_clients, Late
  <2> QED BY <1>0, <2>1, <2>2 DEF Sent, Meant
<1>6. ASSUME NEW t \in Threads, Thread(t)
      PROVE  Sent'
  <2> USE DEF At, To, main
  <2>1. UNCHANGED mpc /\ \A u \in Threads : pc[u] \in {"count_out", "done"} => pc'[u] \in {"count_out", "done"}
    BY <1>6 DEF Thread, count_in, add_client, call_recv, recv, handle_message, broadcast_collect,
                broadcast_send, remove_client, leave_games, close_socket, count_out, Types
  <2>2. CASE close_socket(t)
    <3>1. /\ conn' = [conn EXCEPT ![fd[t]] = None] /\ pc'[t] = "count_out" /\ UNCHANGED targets
          /\ fd[t] \in Fds /\ (conn[fd[t]] = t \/ (conn[fd[t]] = None /\ Late))
      BY <2>2 DEF close_socket, Types, Owned, Alive
    <3>2. ASSUME NEW u \in Threads, NEW m \in targets[u]
          PROVE  Meant(m)'
      <4>1. Meant(m) /\ m.to \in Fds /\ m.meant \in Threads \cup {None}
        BY <1>0 DEF Sent
      <4>2. CASE m.meant # None /\ conn[m.to] = m.meant
        BY <2>1, <3>1, <4>1, <4>2 DEF Meant, Types
      <4>3. CASE m.meant # None /\ pc[m.meant] \in {"count_out", "done"}
        BY <2>1, <4>1, <4>3 DEF Meant
      <4>4. CASE conn[m.to] = None /\ Late
        BY <2>1, <3>1, <4>1, <4>4 DEF Meant, Types, Late
      <4> QED BY <4>1, <4>2, <4>3, <4>4 DEF Meant
    <3> QED BY <3>1, <3>2 DEF Sent
  <2>3. CASE broadcast_collect(t)
    <3>1. PICK idle \in SUBSET {i \in Slots : clients[i].is_active} :
            targets' = [targets EXCEPT ![t] = {[to |-> clients[i].socket,
                                                meant |-> conn[clients[i].socket]] : i \in idle}]
      BY <2>3 DEF broadcast_collect
    <3>2. UNCHANGED conn
      BY <2>3 DEF broadcast_collect
    <3>3. ASSUME NEW u \in Threads, NEW m \in targets'[u]
          PROVE  Meant(m)'
      <4>1. CASE u = t
        <5>1. PICK i \in idle : m = [to |-> clients[i].socket, meant |-> conn[clients[i].socket]]
          BY <3>1, <3>3, <4>1 DEF Targets
        <5>2. m.to = clients[i].socket /\ m.meant = conn[clients[i].socket]
          BY <5>1
        <5>3. PICK v \in Threads : pc[v] \in Served /\ fd[v] = clients[i].socket
          BY DEF Rows
        <5>4. v \in Alive /\ pc[v] # "count_out" /\ v # None
          BY <5>3, ShutdownAssumption DEF Served, Alive, Threads, None
        <5>5. conn[fd[v]] = v \/ (conn[fd[v]] = None /\ Late)
          BY <5>4 DEF Owned
        <5>6. (m.meant # None /\ conn[m.to] = m.meant) \/ (conn[m.to] = None /\ Late)
          BY <5>2, <5>3, <5>4, <5>5
        <5> QED BY <2>1, <3>2, <5>6 DEF Meant, Late
      <4>2. CASE u # t
        <5>1. m \in targets[u]
          BY <3>1, <3>3, <4>2 DEF Targets
        <5>2. Meant(m) /\ m.meant \in Threads \cup {None}
          BY <1>0, <5>1 DEF Sent
        <5> QED BY <2>1, <3>2, <5>2 DEF Meant, Late
      <4> QED BY <4>1, <4>2
    <3> QED BY <3>3 DEF Sent
  <2>4. CASE ~close_socket(t) /\ ~broadcast_collect(t)
    <3>1. UNCHANGED conn
      BY <1>6, <2>4 DEF Thread, count_in, add_client, call_recv, recv, handle_message,
                        broadcast_send, remove_client, leave_games, count_out
    <3>2. \A u \in Threads : targets'[u] \subseteq targets[u]
      BY <1>6, <2>4 DEF Thread, count_in, add_client, call_recv, recv, handle_message,
                        broadcast_send, remove_client, leave_games, count_out, Targets
    <3>3. ASSUME NEW u \in Threads, NEW m \in targets'[u]
          PROVE  Meant(m)'
      <4>1. Meant(m) /\ m.meant \in Threads \cup {None}
        BY <1>0, <3>2, <3>3 DEF Sent
      <4> QED BY <2>1, <3>1, <4>1 DEF Meant, Late
    <3> QED BY <3>3 DEF Sent
  <2> QED BY <2>2, <2>3, <2>4
<1>7. ASSUME NEW t \in Threads, PeerGoes(t)
      PROVE  Sent'
  BY <1>1, <1>7 DEF PeerGoes, main, Late
<1> QED
  BY <1>2, <1>3, <1>4, <1>5, <1>6, <1>7 DEF ShutdownNext, Proceed

(* When main stops waiting before its time is up, no thread is left but     *)
(* those that have not started; from then on there are no new ones.         *)
LEMMA WaitedStep == Types /\ Counts /\ Waited /\ [ShutdownNext]_mvars => Waited'
<1> SUFFICES ASSUME Types, Counts, Waited, [ShutdownNext]_mvars PROVE Waited'
  OBVIOUS
<1> DEFINE After == mpc \in {"destroy", "destroyed", "exited"}
<1>1. ASSUME UNCHANGED <<waited, unseen>>, After' => After, Alive' \subseteq Alive
      PROVE  Waited'
  BY <1>1 DEF Waited
<1>2. CASE UNCHANGED mvars
  BY <1>1, <1>2 DEF mvars, Alive
<1>3. CASE handle_signal \/ check_running \/ call_accept \/ close_server_socket \/ close_clients
             \/ cleanup_server \/ exit
  BY <1>1, <1>3 DEF handle_signal, check_running, call_accept, close_server_socket, close_clients,
                    cleanup_server, exit, MainGoto, Alive
<1>4. CASE accept
  BY <1>4 DEF accept, MainGoto, Waited
<1>5. CASE wait_for_threads
  <2>1. CASE active_thread_count > 0 /\ waited < MaxWait
    BY <1>5, <2>1 DEF wait_for_threads, Waited
  <2>2. CASE ~(active_thread_count > 0 /\ waited < MaxWait)
    <3>1. UNCHANGED <<pc, waited>> /\ unseen' = {t \in Threads : pc[t] = "new"}
      BY <1>5, <2>2 DEF wait_for_threads
    <3>2. waited = MaxWait \/ Counted = {}
      BY <2>2, CountedFinite, FS_EmptySet, ShutdownAssumption DEF Counts, Types
    <3>3. Counted = {} => Alive' \subseteq unseen'
      BY <3>1 DEF Counted, Alive
    <3> QED BY <3>1, <3>2, <3>3 DEF Waited
  <2> QED BY <2>1, <2>2
<1>6. ASSUME NEW t \in Threads, Thread(t)
      PROVE  Waited'
  <2>1. UNCHANGED <<waited, unseen, mpc>> /\ Alive' \subseteq Alive
    BY <1>6 DEF Thread, count_in, add_client, call_recv, recv, handle_message, broadcast_collect,
                broadcast_send, remove_client,
                leave_games, close_socket, count_out, At, To, main, Alive, Types
  <2> QED BY <1>1, <2>1
<1>7. ASSUME NEW t \in Threads, PeerGoes(t)
      PROVE  Waited'
  BY <1>1, <1>7 DEF PeerGoes, main, Alive
<1> QED
  BY <1>2, <1>3, <1>4, <1>5, <1>6, <1>7 DEF ShutdownNext, Proceed

-----------------------------------------------------------------------------
IInv == Types /\ Counts /\ Owned /\ Waited /\ Distinct /\ Rows /\ Targets /\ Sent

(* The invariant holds in every reachable state of the server process. *)
THEOREM ShutdownInvariance == ShutdownSpec => []IInv
<1>1. ShutdownInit => IInv
  <2> SUFFICES ASSUME ShutdownInit PROVE IInv
    OBVIOUS
  <2>1. Alive = {} /\ Counted = {} /\ InUse = {}
    BY DEF ShutdownInit, Alive, Counted, InUse
  <2>2. Types
    BY <2>1, ShutdownAssumption DEF ShutdownInit, Types, MainPoints, Points, None
  <2>3. Counts
    BY <2>1, FS_EmptySet, ShutdownAssumption DEF ShutdownInit, Counts
  <2>4. Rows /\ Targets /\ Sent
    BY DEF ShutdownInit, Rows, Targets, Sent
  <2> QED BY <2>1, <2>2, <2>3, <2>4 DEF ShutdownInit, IInv, Owned, Waited, Distinct
<1>2. IInv /\ [ShutdownNext]_mvars => IInv'
  BY TypesStep, CountsStep, OwnedStep, WaitedStep, DistinctStep, RowsStep, TargetsStep, SentStep DEF IInv
<1> QED
  BY <1>1, <1>2, PTL DEF ShutdownSpec

(* The counters of server.c are right for every number of connections. *)
THEOREM ShutdownTypeCorrect == ShutdownSpec => []ShutdownTypeOK
<1>1. IInv => ShutdownTypeOK
  BY CountedFinite, ShutdownAssumption DEF IInv, Types, Counts, Counted, ShutdownTypeOK
<1> QED
  BY <1>1, ShutdownInvariance, PTL

(* No thread reads or closes the descriptor of another connection, and no   *)
(* broadcast reaches a stranger before the client it was meant for has been *)
(* dismissed, although main closes descriptors under the threads and the    *)
(* kernel reuses them.                                                      *)
THEOREM DescriptorSafety == ShutdownSpec => []DescriptorsNotShared
<1>1. IInv => DescriptorsNotShared
  <2> SUFFICES ASSUME IInv PROVE DescriptorsNotShared
    OBVIOUS
  <2>1. \A t \in Alive : pc[t] # "count_out" => conn[fd[t]] \in {t, None}
    BY DEF IInv, Owned
  <2>2. \A t \in Threads : \A m \in targets[t] :
          conn[m.to] \in {m.meant, None} \/ pc[m.meant] \in {"count_out", "done"}
    BY DEF IInv, Sent, Meant
  <2> QED BY <2>1, <2>2 DEF DescriptorsNotShared
<1> QED
  BY <1>1, ShutdownInvariance, PTL

(* What the threads use is destroyed under them only when the wait ran out  *)
(* or they had not started.                                                 *)
THEOREM OrderlyShutdown == ShutdownSpec => []OrderlyDestroy
<1>1. IInv => OrderlyDestroy
  BY DEF IInv, Waited, OrderlyDestroy
<1> QED
  BY <1>1, ShutdownInvariance, PTL
=============================================================================
