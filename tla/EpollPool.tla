----------------------------- MODULE EpollPool -----------------------------
(***************************************************************************)
(* epoll1/epoll_poll.c: the main thread waits for events and hands every   *)
(* readable connection to a worker of a pool.  The mutex of a worker is a  *)
(* semaphore: it is locked while the worker has nothing to do, the main    *)
(* thread unlocks it, the worker locks it and goes on.  The table of the   *)
(* slots and the array of the events are shared without a lock.            *)
(*                                                                         *)
(* Requests are well formed; what is answered is not modelled.             *)
(***************************************************************************)
EXTENDS EpollServers

CONSTANT THREAD_MAX

ASSUME PoolAssumption == THREAD_MAX \in Nat \ {0}

Threads == 1..THREAD_MAX

VARIABLES
    s_thread_para,  \* per worker: the flag [0], the connection [1], the event [3]
    locked,         \* s_mutex
    wpc,            \* the workers
    clientFd, slot  \* clientFd and j of main

pool == <<s_thread_para, locked, wpc, clientFd, slot>>

Idle == [busy |-> FALSE, fd |-> NONE, ev |-> 0]

PoolTypeOK ==
    /\ s_thread_para \in [Threads -> [busy : BOOLEAN, fd : Fds \cup {NONE}, ev : Nat]]
    /\ locked \in [Threads -> BOOLEAN]
    /\ wpc \in [Threads -> {"none", "lock", "respond", "eof", "forget", "free"}]
    /\ clientFd \in Fds \cup {NONE} /\ slot \in 1..(THREAD_MAX + 1)

PoolInit ==
    /\ s_thread_para = [j \in Threads |-> Idle]
    /\ locked = [j \in Threads |-> FALSE] /\ wpc = [j \in Threads |-> "none"]
    /\ clientFd = NONE /\ slot = 1

-----------------------------------------------------------------------------
(* The main thread *)

\* The listening socket is registered before bind and listen; it reports
\* nothing yet.
PoolRegister ==
    /\ pc = "start" /\ Goto("add")
    /\ Register(Listener, {"IN", "ET"})
    /\ UNCHANGED <<net, unread, nread, acceptFailed, pool>>

\* init_thread_pool: every mutex is locked before the threads start.
init_thread_pool ==
    /\ locked' = [j \in Threads |-> TRUE]
    /\ wpc' = [j \in Threads |-> "lock"]
    /\ UNCHANGED <<s_thread_para, clientFd, slot>>

PoolListen ==
    /\ pc = "add"
    /\ \/ Goto("wait") /\ init_thread_pool /\ listening' = TRUE
       \/ "bind" \in Failures /\ Goto("aborted") /\ UNCHANGED <<pool, listening>>
    /\ UNCHANGED <<backlog, sock, nsent, peer, interest, ready, unread, nread, acceptFailed>>

PoolWait == ServerWait /\ UNCHANGED pool

PoolEvent ==
    /\ pc = "event"
    /\ \/ ei > Len(evs) /\ NextWait /\ UNCHANGED clientFd
       \/ ei <= Len(evs) /\ Fd = Listener /\ Goto("accept") /\ UNCHANGED clientFd
       \/ ei <= Len(evs) /\ Fd = NONE /\ NextEvent /\ UNCHANGED clientFd    \* "other error!"
       \/ ei <= Len(evs) /\ Fd \in Conns /\ Goto("find") /\ clientFd' = Fd
    /\ UNCHANGED <<kernel, nread, acceptFailed, s_thread_para, locked, wpc, slot>>

\* One connection is accepted for an event.  The descriptor of an accept that
\* failed goes to setnoblock, which ends the program.
PoolAccept ==
    /\ pc = "accept"
    /\ \/ /\ backlog # <<>>
          /\ sock' = [sock EXCEPT ![Head(backlog)] = "open"]
          /\ backlog' = Tail(backlog)
          /\ Register(Head(backlog), {"IN", "ET"})
          /\ NextEvent
          /\ UNCHANGED <<listening, nsent, peer, unread, acceptFailed>>
       \/ /\ backlog = <<>> \/ "accept" \in Failures
          /\ acceptFailed' = (acceptFailed \/ backlog # <<>>)
          /\ Goto("aborted")
          /\ UNCHANGED kernel
    /\ UNCHANGED <<nread, pool>>

\* What is not used any more is forgotten: the variables of main here, the
\* parameters of a slot (Idle).
NoClient == clientFd' = NONE /\ slot' = 1

\* The flags are read one at a time.  Without a free slot the connection is
\* closed, whoever uses it.
PoolFind ==
    /\ pc = "find"
    /\ IF slot > THREAD_MAX THEN CloseFd(clientFd) /\ NextEvent /\ NoClient
       ELSE /\ IF s_thread_para[slot].busy THEN slot' = slot + 1 /\ Goto("find")
                                           ELSE Goto("hand") /\ UNCHANGED slot
            /\ UNCHANGED <<kernel, clientFd>>
    /\ UNCHANGED <<nread, acceptFailed, s_thread_para, locked, wpc>>

\* The worker sees nothing of its slot before the unlock.
PoolHand ==
    /\ pc = "hand" /\ NextEvent
    /\ s_thread_para' = [s_thread_para EXCEPT ![slot] =
                           [busy |-> TRUE, fd |-> clientFd, ev |-> ei]]
    /\ locked' = [locked EXCEPT ![slot] = FALSE]
    /\ NoClient
    /\ UNCHANGED <<kernel, nread, acceptFailed, wpc>>

-----------------------------------------------------------------------------
(* http_server, the workers *)

Move(j, l) == wpc' = [wpc EXCEPT ![j] = l]
Same == UNCHANGED <<pc, ei, acceptFailed, clientFd, slot>>

Taken_FlagFirst(j) == [s_thread_para EXCEPT ![j].busy = FALSE]
Taken(j) == s_thread_para

\* The mutex, then one read of whatever is there; what is left is announced no
\* more.  An error (EAGAIN, a reset, a descriptor that was closed) changes
\* nothing.
WorkerRead(j) ==
    LET c == s_thread_para[j].fd IN
    /\ wpc[j] = "lock" /\ ~locked[j]
    /\ locked' = [locked EXCEPT ![j] = TRUE]
    /\ s_thread_para' = Taken(j)
    /\ \/ /\ sock[c] = "open" /\ Move(j, "respond")
          /\ \E n \in 1..Min2(unread[c], ReadSize) : unread' = [unread EXCEPT ![c] = @ - n]
          /\ UNCHANGED <<net, interest, ready>>
       \/ sock[c] = "open" /\ AtEof(c) /\ Move(j, "eof") /\ UNCHANGED kernel
       \/ /\ sock[c] = "closed" \/ (unread[c] = 0 /\ peer[c] # "fin")
          /\ Move(j, "free") /\ UNCHANGED kernel
    /\ UNCHANGED <<evs, nread>> /\ Same

\* The reply and the flag; it is written in two pieces, and SIGPIPE may kill
\* the program when the client has closed.
WorkerRespond(j) ==
    LET c == s_thread_para[j].fd IN
    /\ wpc[j] = "respond"
    /\ \/ /\ Move(j, "lock") /\ UNCHANGED pc
          /\ s_thread_para' = [s_thread_para EXCEPT ![j] = Idle]
       \/ /\ sock[c] = "open" /\ peer[c] # "open"
          /\ pc' = "aborted" /\ UNCHANGED <<wpc, s_thread_para>>
    /\ UNCHANGED <<kernel, evs, ei, nread, acceptFailed, locked, clientFd, slot>>

\* The end of the stream: the connection is closed, then the event is marked.
WorkerEof(j) ==
    /\ wpc[j] = "eof"
    /\ CloseFd(s_thread_para[j].fd)
    /\ Move(j, "forget")
    /\ UNCHANGED <<evs, nread, s_thread_para, locked>> /\ Same

WorkerForget(j) ==
    LET i == s_thread_para[j].ev IN
    /\ wpc[j] = "forget"
    /\ evs' = IF i \in DOMAIN evs THEN [evs EXCEPT ![i].fd = NONE] ELSE evs
    /\ Move(j, "free")
    /\ UNCHANGED <<kernel, nread, s_thread_para, locked>> /\ Same

WorkerFree(j) ==
    /\ wpc[j] = "free"
    /\ s_thread_para' = [s_thread_para EXCEPT ![j] = Idle]
    /\ Move(j, "lock")
    /\ UNCHANGED <<kernel, evs, nread, locked>> /\ Same

Worker(j) ==
    /\ pc # "aborted"
    /\ \/ WorkerRead(j) \/ WorkerRespond(j)
       \/ WorkerEof(j) \/ WorkerForget(j) \/ WorkerFree(j)

PoolMain ==
    PoolRegister \/ PoolListen \/ PoolWait \/ PoolEvent \/ PoolAccept \/ PoolFind \/ PoolHand
=============================================================================
