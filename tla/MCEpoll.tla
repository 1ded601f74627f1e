------------------------------ MODULE MCEpoll ------------------------------
(***************************************************************************)
(* The five epoll servers on the same kernel and the same clients: one     *)
(* behaviour runs one of the programs, chosen at the start.                *)
(***************************************************************************)
EXTENDS EpollPool, MyEpoll

VARIABLE program

vars == <<kernel, local, pool, table, program>>

TypeOK == ServersTypeOK /\ PoolTypeOK /\ TableTypeOK

Init ==
    /\ ServersInit /\ PoolInit /\ TableInit
    /\ program \in {"epoll_server", "epoll-example", "epoll_server2", "epoll_poll", "myepoll"}

Run(p, step) == program = p /\ step /\ UNCHANGED program

\* The steps of the thread that waits for events, and of the workers.
Main ==
    \/ Run("epoll_server", ServerLoop) /\ UNCHANGED <<pool, table>>
    \/ Run("epoll-example", ExampleLoop) /\ UNCHANGED <<pool, table>>
    \/ Run("epoll_server2", Server2Loop) /\ UNCHANGED <<pool, table>>
    \/ Run("epoll_poll", PoolMain) /\ UNCHANGED table
    \/ Run("myepoll", MyLoop) /\ UNCHANGED pool
Workers(j) == Run("epoll_poll", Worker(j)) /\ UNCHANGED table

\* A program that has aborted has no connections any more.  Bounds: one
\* client resets; with the thread pool, which reads once, each sends one byte and
\* none resets (for a worker a reset is a read that fails, as EAGAIN is).
Clients ==
    /\ pc # "aborted"
    /\ \E c \in Conns : Client(c)
    /\ Cardinality({c \in Conns : peer'[c] = "rst"}) <= 1
    /\ program = "epoll_poll" => \A c \in Conns : nsent'[c] <= 1 /\ peer'[c] # "rst"
    /\ UNCHANGED <<local, pool, table, program>>

Next == Main \/ (\E j \in Threads : Workers(j)) \/ Clients

Spec == Init /\ [][Next]_vars
FairSpec == Spec /\ WF_vars(Main) /\ \A j \in Threads : WF_vars(Workers(j))

-----------------------------------------------------------------------------
(* Properties *)

SingleThreaded == program # "epoll_poll"

\* In myepoll.c the registered connections and the clients in use, to which
\* the indexes in the events lead, are the same.
IndexesTrue ==
    /\ \A c \in Conns : interest[c] # {} => ptr_cli[index[c]] = [status |-> TRUE, fd |-> c]
    /\ \A i \in Clis : ptr_cli[i].status =>
         sock[ptr_cli[i].fd] = "open" /\ index[ptr_cli[i].fd] = i

\* The contract of edge-triggered events (epoll_server.c:218-222): whatever
\* can be read or accepted is still in the ready list, in the events of this
\* round or at hand, so that no descriptor is forgotten.  An accept that fails
\* for want of descriptors gives the listener up.  No event is taken for one
\* of another connection.
NoLostEdge ==
    /\ program = "myepoll" => IndexesTrue
    /\ SingleThreaded => \A f \in Fds : "IN" \in Pending(f) /\ (f = Listener => ~acceptFailed) =>
         \/ f \in Elements(ready)
         \/ pc = "aborted"
         \/ pc # "wait" /\ \E i \in ei..Len(evs) : evs[i].fd = f

\* What a client sent before it ended the stream is read before the
\* connection is closed: 0 from read comes after the data, and a hang-up that
\* comes with data is a reset.  (myepoll.c turns some connections away, which
\* get no index.)
EverythingRead ==
    program \in {"epoll_server", "epoll-example", "myepoll"} =>
    \A c \in Conns :
      sock[c] = "closed" /\ peer[c] # "rst" /\ (program = "myepoll" => index[c] # 0) =>
        peer[c] = "fin" /\ nread[c] = nsent[c]

\* A busy slot is on the way to its worker or with it: it is never handed out
\* again, no unlock is lost on a mutex that is not locked, and no worker works
\* on a slot whose flag is free.
AtWork(j) == wpc[j] \notin {"none", "lock"}
SlotHandoff ==
    program = "epoll_poll" /\ pc \notin {"start", "add", "aborted"} =>
    \A j \in Threads :
        /\ s_thread_para[j].busy <=> (~locked[j] \/ AtWork(j))
        /\ ~locked[j] => ~AtWork(j)

\* A connection that waits to be accepted, or has sent something, is accepted
\* and read to the end, and by epoll_server2 answered and closed, unless accept
\* fails or the program ends.
Waits(c) ==
    \/ sock[c] = "backlog"
    \/ sock[c] = "open" /\ unread[c] > 0
    \/ program = "epoll_server2" /\ sock[c] = "open" /\ nread[c] > 0
Served ==
    \A c \in Conns :
        SingleThreaded /\ Waits(c)
          ~> ~Waits(c) \/ (sock[c] = "backlog" /\ acceptFailed) \/ pc = "aborted"

\* epoll_poll.c:251 says of an event that is not the listener's: it is a
\* client's and can be read.
ReadableIsClient ==
    program = "epoll_poll" /\ pc = "event" /\ ei <= Len(evs) => evs[ei].fd # NONE
=============================================================================
