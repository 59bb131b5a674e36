------------------------------ MODULE Shutdown ------------------------------
(***************************************************************************)
(* The life of the server process: main (server/src/main.c) accepts until  *)
(* it is told to stop, closes the clients' descriptors, waits a while for  *)
(* their threads (handle_client, server/src/server.c) and destroys what    *)
(* they use.                                                               *)
(*                                                                         *)
(* Requests are reduced to one step that uses the game manager and, for    *)
(* those that change the lobby, the broadcast that follows; module Server  *)
(* has their detail.  Closing a descriptor does not wake a thread          *)
(* that is blocked reading it: the connection stays up until the thread    *)
(* returns from recv, because its client sends something or goes away.     *)
(***************************************************************************)
EXTENDS Integers, FiniteSets, FiniteSetsExt

CONSTANTS
  MaxThreads,   \* bound on the number of connections ever accepted
  Fds,          \* descriptors the kernel has for them
  MAX_CLIENTS,  \* rows of the client table
  MaxWait       \* 100 ms naps of main before it gives up waiting (50)

ASSUME ShutdownAssumption == /\ MaxThreads \in Nat /\ MAX_CLIENTS \in Nat /\ MaxWait \in Nat
                             /\ Fds \subseteq Nat /\ IsFiniteSet(Fds)

Threads == 1..MaxThreads
Slots == 1..MAX_CLIENTS
None == 0

VARIABLES
  keep_running,
  mpc,                   \* where main is
  waited,                \* naps so far
  pc,                    \* thread -> where it is
  fd,                    \* thread -> its client_socket
  peer,                  \* thread -> its client is still there
  conn,                  \* descriptor -> the thread whose connection it refers to, or None
  clients,               \* row -> descriptor and is_active
  active_clients_count,
  active_thread_count,
  targets,               \* thread -> [to, meant]: descriptors it has still to send to, and
                         \* the connections they referred to when it collected them
  unseen                 \* threads that had not counted themselves when main stopped waiting

main == <<keep_running, mpc, waited, unseen>>
table == <<clients, active_clients_count>>
mvars == <<keep_running, mpc, waited, pc, fd, peer, conn, clients, active_clients_count,
           active_thread_count, targets, unseen>>

Alive == {t \in Threads : pc[t] \notin {"none", "done"}}

ShutdownInit ==
  /\ keep_running = TRUE /\ mpc = "check" /\ waited = 0 /\ unseen = {}
  /\ pc = [t \in Threads |-> "none"]
  /\ fd = [t \in Threads |-> 0]
  /\ peer = [t \in Threads |-> FALSE]
  /\ targets = [t \in Threads |-> {}]
  /\ conn = [s \in Fds |-> None]
  /\ clients = [i \in Slots |-> [socket |-> 0, is_active |-> FALSE]]
  /\ active_clients_count = 0
  /\ active_thread_count = 0

\* The process is there: main has not returned.
Running == mpc # "exited"

-----------------------------------------------------------------------------
(* main *)
MainGoto(next) == mpc' = next /\ UNCHANGED <<keep_running, waited, unseen>>

(* SIGINT or SIGTERM, delivered to the main thread: accept() returns EINTR  *)
(* if main is blocked in it.  A signal that arrives between the test and    *)
(* the call only clears the flag; another one may follow.                   *)
handle_signal ==
  /\ Running
  /\ keep_running' = FALSE
  /\ mpc' = IF mpc = "accept" THEN "close_server" ELSE mpc
  /\ UNCHANGED <<waited, unseen, pc, fd, peer, conn, targets, table, active_thread_count>>

check_running ==
  /\ mpc = "check"
  /\ MainGoto(IF keep_running THEN "call_accept" ELSE "close_server")
  /\ UNCHANGED <<pc, fd, peer, conn, targets, table, active_thread_count>>

call_accept ==
  /\ mpc = "call_accept"
  /\ MainGoto("accept")
  /\ UNCHANGED <<pc, fd, peer, conn, targets, table, active_thread_count>>

(* A connection: a new thread, which has not run yet, or, when none can be  *)
(* made, a descriptor that is closed at once.                               *)
accept ==
  /\ mpc = "accept"
  /\ \/ UNCHANGED <<pc, fd, peer, conn>>
     \/ \E t \in Threads :
          LET free == {s \in Fds : conn[s] = None} IN
          /\ pc[t] = "none" /\ \A u \in Threads : u < t => pc[u] # "none"
          /\ free # {}
          /\ conn' = [conn EXCEPT ![Min(free)] = t]
          /\ fd' = [fd EXCEPT ![t] = Min(free)]
          /\ pc' = [pc EXCEPT ![t] = "new"]
          /\ peer' = [peer EXCEPT ![t] = TRUE]
  /\ MainGoto("check")
  /\ UNCHANGED <<targets, table, active_thread_count>>

close_server_socket ==
  /\ mpc = "close_server"
  /\ MainGoto("close_clients")
  /\ UNCHANGED <<pc, fd, peer, conn, targets, table, active_thread_count>>

\* In one critical section of clients_mutex; the counter stays as it is.
close_clients ==
  LET active == {i \in Slots : clients[i].is_active}
      closed == {clients[i].socket : i \in active}
  IN
  /\ mpc = "close_clients"
  /\ conn' = [s \in Fds |-> IF s \in closed THEN None ELSE conn[s]]
  /\ clients' = [i \in Slots |-> [clients[i] EXCEPT !.is_active = FALSE]]
  /\ MainGoto("wait")
  /\ UNCHANGED <<pc, fd, peer, targets, active_clients_count, active_thread_count>>

\* Mutant: off by one, the last thread is not waited for.
WaitForMost ==
  /\ mpc = "wait"
  /\ IF active_thread_count > 1 /\ waited < MaxWait
     THEN waited' = waited + 1 /\ UNCHANGED <<mpc, unseen>>
     ELSE mpc' = "destroy" /\ unseen' = {t \in Threads : pc[t] = "new"} /\ UNCHANGED waited
  /\ UNCHANGED <<keep_running, pc, fd, peer, conn, targets, table, active_thread_count>>

\* Mutant: there is no limit to the waiting.
WaitForAll ==
  /\ mpc = "wait"
  /\ IF active_thread_count > 0
     THEN MainGoto("wait")
     ELSE /\ mpc' = "destroy"
          /\ unseen' = {t \in Threads : pc[t] = "new"}
          /\ UNCHANGED <<keep_running, waited>>
  /\ UNCHANGED <<pc, fd, peer, conn, targets, table, active_thread_count>>

wait_for_threads ==
  /\ mpc = "wait"
  /\ IF active_thread_count > 0 /\ waited < MaxWait
     THEN waited' = waited + 1 /\ UNCHANGED <<mpc, unseen>>
     ELSE mpc' = "destroy" /\ unseen' = {t \in Threads : pc[t] = "new"} /\ UNCHANGED waited
  /\ UNCHANGED <<keep_running, pc, fd, peer, conn, targets, table, active_thread_count>>

cleanup_server ==
  /\ mpc = "destroy"
  /\ MainGoto("destroyed")
  /\ UNCHANGED <<pc, fd, peer, conn, targets, table, active_thread_count>>

exit ==
  /\ mpc = "destroyed"
  /\ MainGoto("exited")
  /\ UNCHANGED <<pc, fd, peer, conn, targets, table, active_thread_count>>

\* What main does without waiting for a connection.
Proceed == check_running \/ call_accept \/ close_server_socket \/ close_clients \/ wait_for_threads
             \/ cleanup_server \/ exit

-----------------------------------------------------------------------------
(* handle_client *)
At(t, here) == Running /\ pc[t] = here
To(t, next) == pc' = [pc EXCEPT ![t] = next]

count_in(t) ==
  /\ At(t, "new") /\ To(t, "register")
  /\ active_thread_count' = active_thread_count + 1
  /\ UNCHANGED <<main, fd, peer, conn, targets, table>>

add_client(t) ==
  LET free == {i \in Slots : ~clients[i].is_active} IN
  /\ At(t, "register")
  /\ IF active_clients_count >= MAX_CLIENTS \/ free = {}
     THEN To(t, "close") /\ UNCHANGED table
     ELSE /\ clients' = [clients EXCEPT ![Min(free)] = [socket |-> fd[t], is_active |-> TRUE]]
          /\ active_clients_count' = active_clients_count + 1
          /\ To(t, "recv")
  /\ UNCHANGED <<main, fd, peer, conn, targets, active_thread_count>>

\* recv() is called: it blocks, or fails because the descriptor is closed.
call_recv(t) ==
  /\ At(t, "recv")
  /\ To(t, IF conn[fd[t]] = None THEN "remove" ELSE "blocked")
  /\ UNCHANGED <<main, fd, peer, conn, targets, table, active_thread_count>>

\* It returns a request, or the rest of it cannot be read, or the client has gone.
recv(t) ==
  /\ At(t, "blocked")
  /\ \/ peer[t] /\ To(t, "handle")
     \/ (~peer[t] \/ conn[fd[t]] = None) /\ To(t, "remove")
  /\ UNCHANGED <<main, fd, peer, conn, targets, table, active_thread_count>>

(* The request uses the game manager, and tells the lobby if it changed     *)
(* something.  Replies and what is sent to the seats of a game change       *)
(* nothing here.                                                            *)
handle_message(t) ==
  /\ At(t, "handle")
  /\ To(t, "recv") \/ To(t, "collect")
  /\ UNCHANGED <<main, fd, peer, conn, targets, table, active_thread_count>>

(* broadcast_lobby_update collects the descriptors of clients that are not   *)
(* playing in one critical section of clients_mutex ...                      *)
broadcast_collect(t) ==
  /\ \/ At(t, "collect") /\ To(t, "send")
     \/ At(t, "collect_last") /\ To(t, "send_last")
  /\ \E idle \in SUBSET {i \in Slots : clients[i].is_active} :
       targets' = [targets EXCEPT ![t] = {[to |-> clients[i].socket,
                                           meant |-> conn[clients[i].socket]] : i \in idle}]
  /\ UNCHANGED <<main, fd, peer, conn, table, active_thread_count>>

(* ... and sends to one after the other with no lock held.                   *)
broadcast_send(t) ==
  /\ \/ At(t, "send") /\ To(t, IF targets[t] = {} THEN "recv" ELSE "send")
     \/ At(t, "send_last") /\ To(t, IF targets[t] = {} THEN "close" ELSE "send_last")
  /\ IF targets[t] = {} THEN UNCHANGED targets
     ELSE \E m \in targets[t] : targets' = [targets EXCEPT ![t] = @ \ {m}]
  /\ UNCHANGED <<main, fd, peer, conn, table, active_thread_count>>

RowsOf(s) == {i \in Slots : clients[i].is_active /\ clients[i].socket = s}

\* Mutant: the descriptor is closed with the row, and again at the end.
RemoveAndClose(t) ==
  /\ At(t, "remove") /\ To(t, "leave")
  /\ clients' = [i \in Slots |-> IF i \in RowsOf(fd[t])
                                 THEN [clients[i] EXCEPT !.is_active = FALSE] ELSE clients[i]]
  /\ active_clients_count' = active_clients_count - Cardinality(RowsOf(fd[t]))
  /\ conn' = [conn EXCEPT ![fd[t]] = None]
  /\ UNCHANGED <<main, fd, peer, targets, active_thread_count>>

remove_client(t) ==
  /\ At(t, "remove") /\ To(t, "leave")
  /\ IF RowsOf(fd[t]) = {}
     THEN UNCHANGED table
     ELSE /\ clients' = [clients EXCEPT ![Min(RowsOf(fd[t]))].is_active = FALSE]
          /\ active_clients_count' = active_clients_count - 1
  /\ UNCHANGED <<main, fd, peer, conn, targets, active_thread_count>>

\* The games of the client are left; then the lobby is told.
leave_games(t) ==
  /\ At(t, "leave") /\ To(t, "collect_last")
  /\ UNCHANGED <<main, fd, peer, conn, targets, table, active_thread_count>>

close_socket(t) ==
  /\ At(t, "close") /\ To(t, "count_out")
  /\ conn' = [conn EXCEPT ![fd[t]] = None]
  /\ UNCHANGED <<main, fd, peer, targets, table, active_thread_count>>

\* Mutant: the thread does not count itself out.
CountNotOut(t) ==
  /\ At(t, "count_out") /\ To(t, "done")
  /\ UNCHANGED <<main, fd, peer, conn, targets, table, active_thread_count>>

count_out(t) ==
  /\ At(t, "count_out") /\ To(t, "done")
  /\ active_thread_count' = active_thread_count - 1
  /\ UNCHANGED <<main, fd, peer, conn, targets, table>>

\* The client of thread t quits or dies.
PeerGoes(t) ==
  /\ Running /\ peer[t]
  /\ peer' = [peer EXCEPT ![t] = FALSE]
  /\ UNCHANGED <<main, pc, fd, conn, targets, table, active_thread_count>>

Thread(t) == count_in(t) \/ add_client(t) \/ call_recv(t) \/ recv(t) \/ handle_message(t)
               \/ broadcast_collect(t) \/ broadcast_send(t)
               \/ remove_client(t) \/ leave_games(t) \/ close_socket(t) \/ count_out(t)

ShutdownNext == Proceed \/ accept \/ handle_signal \/ \E t \in Threads : Thread(t) \/ PeerGoes(t)

ShutdownSpec == ShutdownInit /\ [][ShutdownNext]_mvars

\* main is scheduled; nothing is assumed of connections, clients or threads.
FairShutdownSpec == ShutdownSpec /\ WF_mvars(Proceed)

-----------------------------------------------------------------------------
(* Type correctness; active_thread_count (server.c:134, 153, 189) is the    *)
(* number of threads between their first and their last statement.          *)
ShutdownTypeOK ==
  /\ keep_running \in BOOLEAN /\ waited \in 0..MaxWait
  /\ conn \in [Fds -> Threads \cup {None}]
  /\ clients \in [Slots -> [socket : Fds \cup {0}, is_active : BOOLEAN]]
  /\ active_clients_count \in 0..MAX_CLIENTS
  /\ active_thread_count = Cardinality({t \in Alive : pc[t] # "new"})

(* main closes descriptors that threads go on using and close once more     *)
(* (main.c:94, server.c:188).  Still no thread reads from, or closes, a     *)
(* descriptor that has been given to another connection: main closes only   *)
(* when it has stopped accepting.  A broadcast, which sends to others with   *)
(* no lock held (client_handler.c:80), can reach a stranger under an old    *)
(* descriptor, but only when the client it was collected for has been       *)
(* dismissed by its own thread since; never one that is being served.       *)
DescriptorsNotShared ==
  /\ \A t \in Alive : pc[t] # "count_out" => conn[fd[t]] \in {t, None}
  /\ \A t \in Threads : \A m \in targets[t] :
       conn[m.to] \in {m.meant, None} \/ pc[m.meant] \in {"count_out", "done"}

(* The manager and clients_mutex are destroyed (main.c:112) under a thread  *)
(* that has not ended only if the wait of main.c:103 ran out, or if the     *)
(* thread had been created but had not yet counted itself in.               *)
OrderlyDestroy ==
  mpc \in {"destroyed", "exited"} => waited = MaxWait \/ Alive \subseteq unseen

(* A stop signal ends the server, although threads may stay blocked for     *)
(* ever on descriptors that were closed under them.  Excepted is a signal   *)
(* that arrives between the test of keep_running and accept() (main.c:49,   *)
(* 53): main then blocks in accept() with the flag cleared, until the next  *)
(* connection or the next signal, after which it ends as well.              *)
StopEnds ==
  ~keep_running /\ mpc \notin {"call_accept", "accept"} ~> mpc = "exited"
=============================================================================
