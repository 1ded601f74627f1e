---------------------------- MODULE IocpServerEx ----------------------------
(***************************************************************************)
(* The echo server of iocp1/serverex/IocpServerex.Cpp, which accepts with  *)
(* AcceptEx: main posts the first accept to the completion port and then   *)
(* waits for an event; the worker that gets a completed accept sets up the *)
(* connection, echoes the data that came with it and posts the next        *)
(* accept; the console handler and the workers that fail set the event,    *)
(* and main cleans up.                                                     *)
(*                                                                         *)
(* A connection, its socket and its context have one name, a member of     *)
(* Conns; Listen is the context of the listening socket, of which there is *)
(* one in every pass through main's loop.  Bytes are numbered as in        *)
(* IocpServer; 0 is the NUL character.  Main waits at most one second for  *)
(* the workers: that is taken to be enough for a worker that can run.      *)
(*                                                                         *)
(* A definition whose name has a suffix (AcceptPosted_Skipped) is a wrong  *)
(* variant of the definition that follows it, which some property refutes. *)
(***************************************************************************)
EXTENDS CtxtList, Integers, Sequences

CONSTANTS
    Listen,         \* the context of the listening socket, one of Ctxts
    ThreadCount,    \* dwThreadCount
    MAX_BUFF_SIZE,  \* the size of a context's Buffer
    AddrSize,       \* the part of it that AcceptEx needs for the addresses
    ZeroBytes,      \* the numbers of the bytes that are NUL
    MaxBytes,       \* bound: the bytes one client sends
    MaxCtrl,        \* bound: the console events
    Failures,       \* which system calls may fail without a cause of ours
    OneAtATime      \* whether a client connects only when no other is served

ASSUME ServerExAssumption ==
    /\ Listen \in Ctxts
    /\ ThreadCount \in Nat \ {0} /\ MAX_BUFF_SIZE \in Nat /\ AddrSize \in 0..(MAX_BUFF_SIZE - 1)
    /\ MaxBytes \in Nat /\ MaxCtrl \in Nat /\ ZeroBytes \subseteq 1..MaxBytes
    /\ Failures \subseteq {"port", "thread", "socket", "bind", "ioctl", "acceptex", "option",
                           "ctxt", "ioctxt", "assoc", "post"}
    /\ OneAtATime \in BOOLEAN

Conns == Ctxts \ {Listen}
Runs == 1..(MaxCtrl + 1)            \* passes through the loop of main
Threads == Runs \X (1..ThreadCount)
NoThread == <<0, 0>>                \* no thread: no handle, a free lock
MainThread == <<0, 1>>
Leaked == <<0, 2>>                  \* main entered the section and will not leave it
INVALID == 0                        \* the NULL port

VARIABLES
    g_bEndServer, g_bRestart, g_hCleanupEvent,
    g_hIOCP,                        \* the run that made the port, or INVALID
    g_sdListen,                     \* "invalid", "open" or "listening"
    g_pCtxtListenSocket,            \* Listen or NULL
    SocketAccept,                   \* its socket: NULL, a connection, or
                                    \* Listen for one that has no peer yet
    mpc, run, pTemp1, g_ThreadHandles,      \* the main thread
    wpc, wpkt,                      \* each worker's position and packet
    hpc, nctrl,                     \* the handler's position and events
    list, cs, io,                   \* contexts, g_CriticalSection, PER_IO_CONTEXTs
    pend, key, port, openPorts, sock,       \* kernel: operations, ports, sockets
    conn                            \* the connections as the clients see them

flags   == <<g_bEndServer, g_bRestart, g_hCleanupEvent>>
globals == <<g_hIOCP, g_sdListen, g_pCtxtListenSocket, SocketAccept>>
main    == <<mpc, run, pTemp1, g_ThreadHandles>>
worker  == <<wpc, wpkt>>
handler == <<hpc, nctrl>>
memory  == <<list, cs, io>>
kernel  == <<pend, key, port, openPorts, sock>>
vars    == <<flags, globals, main, worker, handler, memory, kernel, conn>>

Size == 0..MAX_BUFF_SIZE
Packet == [ctxt : Pointer, size : Size, ok : BOOLEAN]
NullPacket == [ctxt |-> NULL, size |-> 0, ok |-> TRUE]
Idle == [op |-> "none", off |-> 0, len |-> 0]
FreshIo(oper) == [IOOperation |-> oper, nTotalBytes |-> 0, nSentBytes |-> 0,
                  Buffer |-> [i \in 1..MAX_BUFF_SIZE |-> 0]]

TypeOK ==
    /\ g_bEndServer \in BOOLEAN /\ g_bRestart \in BOOLEAN /\ g_hCleanupEvent \in BOOLEAN
    /\ g_hIOCP \in Runs \cup {INVALID} /\ g_sdListen \in {"invalid", "open", "listening"}
    /\ g_pCtxtListenSocket \in {Listen, NULL} /\ SocketAccept \in Pointer
    /\ mpc \in {"test", "clearRestart", "clearEnd", "reset", "threads", "listen", "accept", "serve",
                "finally", "post", "join", "closeListen", "freeListen", "free", "walk",
                "closePort", "done"}
    /\ run \in Runs \cup {0} /\ pTemp1 \in Pointer
    /\ g_ThreadHandles \in [1..ThreadCount -> Threads \cup {NoThread}]
    /\ wpc \in [Threads -> {"none", "gqcs", "got", "io", "first", "repost", "exit"}]
    /\ wpkt \in [Threads -> Packet]
    /\ hpc \in {"idle", "end", "set"} /\ nctrl \in 0..MaxCtrl
    /\ list \in List /\ cs \in Threads \cup {NoThread, MainThread, Leaked}
    /\ io \in [Ctxts -> [IOOperation : {"ClientIoAccept", "ClientIoRead", "ClientIoWrite"},
                         nTotalBytes : Size, nSentBytes : Nat,
                         Buffer : [1..MAX_BUFF_SIZE -> 0..MaxBytes]]]
    /\ pend \in [Ctxts -> [op : {"none", "accept", "recv", "send"}, off : Size, len : Size]]
    /\ key \in [Ctxts -> Runs \cup {INVALID}]
    /\ port \in [Runs -> Seq(Packet)] /\ openPorts \subseteq Runs
    /\ sock \in [Conns -> {"none", "backlog", "open", "closed"}]
    /\ conn \in [Conns -> [nsent : 0..MaxBytes, nrecvd : 0..MaxBytes, echoed : Seq(0..MaxBytes),
                           peer : {"open", "fin", "rst"}]]

Init ==
    /\ g_bEndServer = FALSE /\ g_bRestart = TRUE /\ g_hCleanupEvent = FALSE
    /\ g_hIOCP = INVALID /\ g_sdListen = "invalid"
    /\ g_pCtxtListenSocket = NULL /\ SocketAccept = NULL
    /\ mpc = "test" /\ run = 0 /\ pTemp1 = NULL
    /\ g_ThreadHandles = [i \in 1..ThreadCount |-> NoThread]
    /\ wpc = [t \in Threads |-> "none"] /\ wpkt = [t \in Threads |-> NullPacket]
    /\ hpc = "idle" /\ nctrl = 0
    /\ list = EmptyList /\ cs = NoThread
    /\ io = [c \in Ctxts |-> FreshIo("ClientIoAccept")]
    /\ pend = [c \in Ctxts |-> Idle] /\ key = [c \in Ctxts |-> INVALID]
    /\ port = [r \in Runs |-> <<>>] /\ openPorts = {}
    /\ sock = [c \in Conns |-> "none"]
    /\ conn = [c \in Conns |-> [nsent |-> 0, nrecvd |-> 0, echoed |-> <<>>, peer |-> "open"]]

\* The process still runs and its memory has not been corrupted.
Alive == mpc # "done" /\ ~list.uaf

-----------------------------------------------------------------------------
(* Kernel services and routines of the server *)

\* A thread that has the critical section may enter it again.
CanLock(t) == cs \in {NoThread, t} \/ (t = MainThread /\ cs = Leaked)

\* An operation on c has ended: its packet goes to the port of c's key.
Completed(c, size, ok) ==
    /\ pend' = [pend EXCEPT ![c] = Idle]
    /\ port' = [port EXCEPT ![key[c]] = Append(@, [ctxt |-> c, size |-> size, ok |-> ok])]

\* closesocket ends what is pending on the socket.
Cancelled(c) == IF pend[c].op = "none" THEN UNCHANGED <<pend, port>> ELSE Completed(c, 0, FALSE)

\* The routines of the list, the same as in iocp1/server.
NewContext(c) == CtxtAllocate(list, c)
Listed(c) == CtxtListAddTo(NewContext(c), c)
Deleted(c) == CtxtListDeleteFrom(list, c)

\* closesocket(c) and CtxtListDeleteFrom, which in a shutdown waits for the
\* operation that closesocket has ended.
CloseClient(c) ==
    IF c \in list.live
      THEN /\ list' = Deleted(c)
           /\ sock' = [sock EXCEPT ![c] = "closed"]
           /\ Cancelled(c)
      ELSE list' = UseAfterFree(list) /\ UNCHANGED <<sock, pend, port>>

\* WSASend or WSARecv on c, which fails at once when the connection was
\* reset; then the client is closed.
Issue(t, c, op, off, len) ==
    \/ /\ pend' = [pend EXCEPT ![c] = [op |-> op, off |-> off, len |-> len]]
       /\ UNCHANGED <<list, sock, port>>
    \/ /\ conn[c].peer = "rst" \/ "post" \in Failures
       /\ CanLock(t)
       /\ CloseClient(c)

\* CtxtAllocate, CreateIoCompletionPort and CtxtListAddTo for a socket c; the
\* listening socket is not put on the list.  When there is no memory for the
\* PER_IO_CONTEXT a pointer to a freed context is returned and used.
Updated(c) ==
    /\ \/ list' = IF c = Listen THEN NewContext(c) ELSE Listed(c)
       \/ "ioctxt" \in Failures /\ list' = UseAfterFree(list)
    /\ key' = [key EXCEPT ![c] = g_hIOCP]
    /\ UNCHANGED <<g_hIOCP, cs>>

\* It returns NULL: there was no memory for the context, and CtxtAllocate
\* returned without leaving the critical section; or the association failed,
\* the context was freed again and g_hIOCP is NULL.
UpdateFailed(t) ==
    \/ "ctxt" \in Failures /\ cs' = (IF t = MainThread THEN Leaked ELSE t) /\ UNCHANGED g_hIOCP
    \/ "assoc" \in Failures /\ g_hIOCP' = INVALID /\ UNCHANGED cs

\* CreateAcceptSocket from CreateSocket on.  AcceptEx returns FALSE when it
\* fails, which the comparison with SOCKET_ERROR does not notice.
AcceptPosted_Skipped == UNCHANGED pend
AcceptPosted ==
    \/ pend' = [pend EXCEPT ![Listen] = [op |-> "accept", off |-> 0, len |-> MAX_BUFF_SIZE - AddrSize]]
    \/ "acceptex" \in Failures /\ UNCHANGED pend

-----------------------------------------------------------------------------
(* The main thread *)

MainTest ==
    /\ Alive /\ mpc = "test"
    /\ mpc' = IF g_bRestart THEN "clearRestart" ELSE "done"
    /\ UNCHANGED <<flags, globals, run, pTemp1, g_ThreadHandles, worker, handler, memory, kernel, conn>>

MainClearRestart ==
    /\ Alive /\ mpc = "clearRestart" /\ mpc' = "clearEnd"
    /\ g_bRestart' = FALSE
    /\ UNCHANGED <<g_bEndServer, g_hCleanupEvent, globals, run, pTemp1, g_ThreadHandles,
                   worker, handler, memory, kernel, conn>>

MainClearEnd ==
    /\ Alive /\ mpc = "clearEnd" /\ mpc' = "reset"
    /\ g_bEndServer' = FALSE
    /\ UNCHANGED <<g_bRestart, g_hCleanupEvent, globals, run, pTemp1, g_ThreadHandles,
                   worker, handler, memory, kernel, conn>>

MainResetEvent ==
    /\ Alive /\ mpc = "reset" /\ mpc' = "threads" /\ run' = run + 1
    /\ g_hCleanupEvent' = FALSE
    /\ UNCHANGED <<g_bEndServer, g_bRestart, globals, pTemp1, g_ThreadHandles,
                   worker, handler, memory, kernel, conn>>

\* The port is created, then the threads one by one until one fails.
MainCreateThreads ==
    /\ Alive /\ mpc = "threads"
    /\ \/ /\ "port" \in Failures
          /\ g_hIOCP' = INVALID /\ mpc' = "finally"
          /\ UNCHANGED <<openPorts, wpc, g_ThreadHandles>>
       \/ /\ g_hIOCP' = run /\ openPorts' = openPorts \cup {run}
          /\ \E n \in 0..ThreadCount :
               /\ n < ThreadCount => "thread" \in Failures
               /\ wpc' = [t \in Threads |-> IF t[1] = run /\ t[2] <= n THEN "gqcs" ELSE wpc[t]]
               /\ g_ThreadHandles' = [i \in 1..ThreadCount |->
                                        IF i <= n THEN <<run, i>> ELSE g_ThreadHandles[i]]
               /\ mpc' = IF n = ThreadCount THEN "listen" ELSE "finally"
    /\ UNCHANGED <<flags, g_sdListen, g_pCtxtListenSocket, SocketAccept, run, pTemp1, wpkt, handler,
                   memory, pend, key, port, sock, conn>>

CreateListenSocket ==
    /\ Alive /\ mpc = "listen"
    /\ \/ g_sdListen' = "listening" /\ mpc' = "accept"
       \/ "bind" \in Failures /\ g_sdListen' = "open" /\ mpc' = "finally"
       \/ "socket" \in Failures /\ g_sdListen' = "invalid" /\ mpc' = "finally"
    /\ UNCHANGED <<flags, g_hIOCP, g_pCtxtListenSocket, SocketAccept, run, pTemp1, g_ThreadHandles,
                   worker, handler, memory, kernel, conn>>

\* CreateAcceptSocket(TRUE).
MainCreateAcceptSocket ==
    /\ Alive /\ mpc = "accept"
    /\ \/ /\ Updated(Listen)
          /\ io' = [io EXCEPT ![Listen] = FreshIo("ClientIoAccept")]
          /\ g_pCtxtListenSocket' = Listen
          /\ \/ SocketAccept' = Listen /\ AcceptPosted /\ mpc' = "serve"
             \/ "ioctl" \in Failures /\ SocketAccept' = NULL /\ UNCHANGED pend /\ mpc' = "finally"
             \/ "socket" \in Failures /\ SocketAccept' = NULL /\ UNCHANGED pend /\ mpc' = "finally"
       \/ /\ UpdateFailed(MainThread)
          /\ g_pCtxtListenSocket' = NULL /\ mpc' = "finally"
          /\ UNCHANGED <<list, key, io, SocketAccept, pend>>
    /\ UNCHANGED <<flags, g_sdListen, run, pTemp1, g_ThreadHandles, worker, handler,
                   port, openPorts, sock, conn>>

\* WSAWaitForMultipleEvents.
MainServe ==
    /\ Alive /\ mpc = "serve" /\ g_hCleanupEvent /\ mpc' = "finally"
    /\ UNCHANGED <<flags, globals, run, pTemp1, g_ThreadHandles, worker, handler, memory, kernel, conn>>

MainFinally ==
    /\ Alive /\ mpc = "finally" /\ mpc' = "post"
    /\ g_bEndServer' = TRUE
    /\ UNCHANGED <<g_bRestart, g_hCleanupEvent, globals, run, pTemp1, g_ThreadHandles,
                   worker, handler, memory, kernel, conn>>

\* One packet with a NULL key for every worker, if there is a port.
ExitPackets == [i \in 1..ThreadCount |-> NullPacket]

MainPost ==
    /\ Alive /\ mpc = "post" /\ mpc' = "join"
    /\ port' = IF g_hIOCP = INVALID THEN port ELSE [port EXCEPT ![g_hIOCP] = @ \o ExitPackets]
    /\ UNCHANGED <<flags, globals, run, pTemp1, g_ThreadHandles, worker, handler, memory,
                   pend, key, openPorts, sock, conn>>

\* A worker that will never exit: its port is empty and nobody knows the port
\* any more, or it waits for a critical section that nobody will leave.
Stuck(t) ==
    \/ wpc[t] = "gqcs" /\ t[1] \in openPorts /\ port[t[1]] = <<>>
    \/ wpc[t] \in {"io", "first"} /\ ~CanLock(t)

\* WaitForMultipleObjects fails at once on an invalid handle and after a
\* second when a worker does not exit; both are only reported.
MainJoin ==
    LET handle(i) == g_ThreadHandles[i]
        gone(i) == wpc[handle(i)] = "exit" IN
    /\ Alive /\ mpc = "join" /\ mpc' = "closeListen"
    /\ IF \E i \in 1..ThreadCount : handle(i) = NoThread THEN UNCHANGED g_ThreadHandles
       ELSE /\ \A i \in 1..ThreadCount : gone(i) \/ Stuck(handle(i))
            /\ g_ThreadHandles' = [i \in 1..ThreadCount |->
                  IF \A j \in 1..ThreadCount : gone(j) THEN NoThread ELSE handle(i)]
    /\ UNCHANGED <<flags, globals, run, pTemp1, worker, handler, memory, kernel, conn>>

\* closesocket on the listening socket ends the accept and resets the
\* connections in the backlog.
MainCloseListen ==
    /\ Alive /\ mpc = "closeListen" /\ mpc' = "freeListen"
    /\ g_sdListen' = "invalid"
    /\ sock' = [c \in Conns |-> IF sock[c] = "backlog" THEN "closed" ELSE sock[c]]
    /\ Cancelled(Listen)
    /\ UNCHANGED <<flags, g_hIOCP, g_pCtxtListenSocket, SocketAccept, run, pTemp1, g_ThreadHandles,
                   worker, handler, memory, key, openPorts, conn>>

\* The accepted socket is closed and the listening context freed.
LeftAccepted_Kept == {}
LeftAccepted == {SocketAccept}

MainFreeListen ==
    /\ Alive /\ mpc = "freeListen" /\ mpc' = "free"
    /\ IF g_pCtxtListenSocket = NULL THEN UNCHANGED <<SocketAccept, sock, list>>
       ELSE /\ pend[Listen].op = "none"
            /\ SocketAccept' = NULL
            /\ sock' = [c \in Conns |-> IF c \in LeftAccepted THEN "closed" ELSE sock[c]]
            /\ list' = [list EXCEPT !.live = @ \ {Listen}]
    /\ g_pCtxtListenSocket' = NULL
    /\ UNCHANGED <<flags, g_hIOCP, g_sdListen, run, pTemp1, g_ThreadHandles, worker, handler,
                   cs, io, pend, key, port, openPorts, conn>>

\* CtxtListFree holds the lock over the whole walk.
CtxtListFreeEnter ==
    /\ Alive /\ mpc = "free" /\ mpc' = "walk" /\ CanLock(MainThread)
    /\ cs' = IF cs = Leaked THEN Leaked ELSE MainThread
    /\ pTemp1' = list.g_pCtxtList
    /\ UNCHANGED <<flags, globals, run, g_ThreadHandles, worker, handler, list, io, kernel, conn>>

CtxtListFreeStep ==
    /\ Alive /\ mpc = "walk" /\ pTemp1 # NULL
    /\ pTemp1' = list.pCtxtBack[pTemp1]
    /\ CloseClient(pTemp1)
    /\ UNCHANGED <<flags, globals, mpc, run, g_ThreadHandles, worker, handler, cs, io,
                   key, openPorts, conn>>

CtxtListFreeLeave ==
    /\ Alive /\ mpc = "walk" /\ pTemp1 = NULL /\ mpc' = "closePort"
    /\ cs' = IF cs = Leaked THEN Leaked ELSE NoThread
    /\ UNCHANGED <<flags, globals, run, pTemp1, g_ThreadHandles, worker, handler, list, io, kernel, conn>>

MainClosePort ==
    /\ Alive /\ mpc = "closePort" /\ mpc' = "test"
    /\ openPorts' = openPorts \ {g_hIOCP} /\ g_hIOCP' = INVALID
    /\ port' = [r \in Runs |-> IF r = g_hIOCP THEN <<>> ELSE port[r]]
    /\ UNCHANGED <<flags, g_sdListen, g_pCtxtListenSocket, SocketAccept, run, pTemp1, g_ThreadHandles,
                   worker, handler, memory, pend, key, sock, conn>>

Main ==
    \/ MainTest \/ MainClearRestart \/ MainClearEnd \/ MainResetEvent \/ MainCreateThreads
    \/ CreateListenSocket \/ MainCreateAcceptSocket \/ MainServe
    \/ MainFinally \/ MainPost \/ MainJoin \/ MainCloseListen \/ MainFreeListen
    \/ CtxtListFreeEnter \/ CtxtListFreeStep \/ CtxtListFreeLeave \/ MainClosePort

-----------------------------------------------------------------------------
(* The worker threads *)

\* GetQueuedCompletionStatus.  When the port is closed it fails and leaves
\* the key of the last packet in place.
WorkerGet(t) ==
    /\ Alive /\ wpc[t] = "gqcs"
    /\ \/ /\ t[1] \in openPorts /\ port[t[1]] # <<>>
          /\ wpkt' = [wpkt EXCEPT ![t] = Head(port[t[1]])]
          /\ port' = [port EXCEPT ![t[1]] = Tail(@)]
       \/ /\ t[1] \notin openPorts
          /\ wpkt' = [wpkt EXCEPT ![t].ok = FALSE]
          /\ UNCHANGED port
    /\ wpc' = [wpc EXCEPT ![t] = IF wpkt'[t].ctxt = NULL THEN "exit" ELSE "got"]
    /\ UNCHANGED <<flags, globals, main, handler, memory, pend, key, openPorts, sock, conn>>

WorkerCheck(t) ==
    /\ Alive /\ wpc[t] = "got"
    /\ wpc' = [wpc EXCEPT ![t] = IF g_bEndServer THEN "exit" ELSE "io"]
    /\ UNCHANGED <<flags, globals, main, wpkt, handler, memory, kernel, conn>>

\* The context of the packet is still allocated; the listening context of an
\* earlier run is not.
Allocated(t) == wpkt[t].ctxt \in list.live /\ (wpkt[t].ctxt = Listen => t[1] = run)

\* An accept has completed: SO_UPDATE_ACCEPT_CONTEXT, which fails on a socket
\* that is not connected, and UpdateCompletionPort.  A failure sets the event
\* and ends the thread.
WorkerAccept(t) ==
    LET c == SocketAccept IN
    /\ wpc[t] = "io"
    /\ io[wpkt[t].ctxt].IOOperation = "ClientIoAccept"
    /\ \/ /\ wpkt[t].ok /\ CanLock(t)
          /\ Updated(c)
          /\ io' = [io EXCEPT ![c] = FreshIo("ClientIoAccept")]
          /\ wpc' = [wpc EXCEPT ![t] = "first"]
          /\ UNCHANGED g_hCleanupEvent
       \/ /\ \/ (~wpkt[t].ok \/ "option" \in Failures) /\ UNCHANGED <<g_hIOCP, cs>>
             \/ wpkt[t].ok /\ CanLock(t) /\ UpdateFailed(t)
          /\ g_hCleanupEvent' = TRUE
          /\ wpc' = [wpc EXCEPT ![t] = "exit"]
          /\ UNCHANGED <<list, key, io>>
    /\ UNCHANGED <<g_bEndServer, g_bRestart, g_sdListen, g_pCtxtListenSocket, SocketAccept, main,
                   wpkt, handler, pend, port, openPorts, sock, conn>>

\* StringCbCopyN copies up to the first NUL character; the rest of the new
\* Buffer is zero.
Copied(buf) ==
    [i \in 1..MAX_BUFF_SIZE |-> IF \E j \in 1..i : buf[j] = 0 THEN 0 ELSE buf[i]]

\* The data that came with the accept are echoed, or the first read posted.
WorkerFirst(t) ==
    LET c == SocketAccept
        size == wpkt[t].size IN
    /\ wpc[t] = "first"
    /\ IF size > 0
         THEN /\ io' = [io EXCEPT ![c] = [IOOperation |-> "ClientIoWrite", nTotalBytes |-> size,
                                          nSentBytes |-> 0, Buffer |-> Copied(io[Listen].Buffer)]]
              /\ Issue(t, c, "send", 0, size)
         ELSE /\ io' = [io EXCEPT ![c].IOOperation = "ClientIoRead"]
              /\ Issue(t, c, "recv", 0, MAX_BUFF_SIZE)
    /\ wpc' = [wpc EXCEPT ![t] = "repost"]
    /\ UNCHANGED <<flags, globals, main, wpkt, handler, cs, key, openPorts, conn>>

\* CreateAcceptSocket(FALSE): time to post another AcceptEx.
WorkerRepost(t) ==
    /\ wpc[t] = "repost"
    /\ \/ /\ SocketAccept' = Listen /\ AcceptPosted
          /\ wpc' = [wpc EXCEPT ![t] = "gqcs"]
          /\ UNCHANGED g_hCleanupEvent
       \/ /\ "socket" \in Failures
          /\ SocketAccept' = NULL /\ g_hCleanupEvent' = TRUE
          /\ wpc' = [wpc EXCEPT ![t] = "exit"]
          /\ UNCHANGED pend
    /\ UNCHANGED <<g_bEndServer, g_bRestart, g_hIOCP, g_sdListen, g_pCtxtListenSocket, main, wpkt,
                   handler, memory, key, port, openPorts, sock, conn>>

\* The client has gone.
WorkerDropped(t) ==
    LET c == wpkt[t].ctxt IN
    /\ wpc[t] = "io"
    /\ io[c].IOOperation # "ClientIoAccept" /\ (~wpkt[t].ok \/ wpkt[t].size = 0)
    /\ CanLock(t)
    /\ CloseClient(c)
    /\ wpc' = [wpc EXCEPT ![t] = "gqcs"]
    /\ UNCHANGED <<flags, globals, main, wpkt, handler, cs, io, key, openPorts, conn>>

\* A read has completed: echo what was read from the same buffer.
WorkerRead_NoBreak(t) ==
    LET c == wpkt[t].ctxt
        size == wpkt[t].size IN
    /\ wpc[t] = "io"
    /\ io[c].IOOperation = "ClientIoRead" /\ wpkt[t].ok /\ size > 0
    /\ io' = [io EXCEPT ![c].IOOperation = "ClientIoWrite", ![c].nTotalBytes = size,
                        ![c].nSentBytes = 0]
    /\ Issue(t, c, "send", 0, size)
    /\ wpc' = [wpc EXCEPT ![t] = "io"]
    /\ UNCHANGED <<flags, globals, main, wpkt, handler, cs, key, openPorts, conn>>
WorkerRead(t) ==
    LET c == wpkt[t].ctxt
        size == wpkt[t].size IN
    /\ wpc[t] = "io"
    /\ io[c].IOOperation = "ClientIoRead" /\ wpkt[t].ok /\ size > 0
    /\ io' = [io EXCEPT ![c].IOOperation = "ClientIoWrite", ![c].nTotalBytes = size,
                        ![c].nSentBytes = 0]
    /\ Issue(t, c, "send", 0, size)
    /\ wpc' = [wpc EXCEPT ![t] = "gqcs"]
    /\ UNCHANGED <<flags, globals, main, wpkt, handler, cs, key, openPorts, conn>>

\* A write has completed: send the rest, or read again.
SentSoFar_NotAdded(c, size) == size
SentSoFar(c, size) == io[c].nSentBytes + size

WorkerWrite(t) ==
    LET c == wpkt[t].ctxt
        done == SentSoFar(c, wpkt[t].size)
        total == io[c].nTotalBytes IN
    /\ wpc[t] = "io"
    /\ io[c].IOOperation = "ClientIoWrite" /\ wpkt[t].ok /\ wpkt[t].size > 0
    /\ IF done < total
         THEN /\ io' = [io EXCEPT ![c].nSentBytes = done]
              /\ Issue(t, c, "send", done, total - done)
         ELSE /\ io' = [io EXCEPT ![c].nSentBytes = done, ![c].IOOperation = "ClientIoRead"]
              /\ Issue(t, c, "recv", 0, MAX_BUFF_SIZE)
    /\ wpc' = [wpc EXCEPT ![t] = "gqcs"]
    /\ UNCHANGED <<flags, globals, main, wpkt, handler, cs, key, openPorts, conn>>

\* All of them follow the pointers of the packet.  A worker that waits for the
\* critical section has done so before.
WorkerIo(t) ==
    /\ Alive /\ wpc[t] \in {"io", "first", "repost"}
    /\ IF Allocated(t)
         THEN \/ WorkerAccept(t) \/ WorkerFirst(t) \/ WorkerRepost(t)
              \/ WorkerDropped(t) \/ WorkerRead(t) \/ WorkerWrite(t)
         ELSE /\ CanLock(t)
              /\ list' = UseAfterFree(list)
              /\ UNCHANGED <<flags, globals, main, worker, handler, cs, io, kernel, conn>>

Worker(t) == WorkerGet(t) \/ WorkerCheck(t) \/ WorkerIo(t)

-----------------------------------------------------------------------------
(* The console control handler *)

\* CTRL_BREAK_EVENT sets the restart flag and falls through to the rest.
CtrlEvent ==
    /\ Alive /\ hpc = "idle" /\ nctrl < MaxCtrl
    /\ nctrl' = nctrl + 1 /\ hpc' = "end"
    /\ g_bRestart' \in {g_bRestart, TRUE}
    /\ UNCHANGED <<g_bEndServer, g_hCleanupEvent, globals, main, worker, memory, kernel, conn>>

CtrlEnd ==
    /\ Alive /\ hpc = "end" /\ hpc' = "set"
    /\ g_bEndServer' = TRUE
    /\ UNCHANGED <<g_bRestart, g_hCleanupEvent, globals, main, worker, nctrl, memory, kernel, conn>>

CtrlSetEvent_Forgotten ==
    /\ Alive /\ hpc = "set" /\ hpc' = "idle"
    /\ UNCHANGED <<flags, globals, main, worker, nctrl, memory, kernel, conn>>
CtrlSetEvent ==
    /\ Alive /\ hpc = "set" /\ hpc' = "idle"
    /\ g_hCleanupEvent' = TRUE
    /\ UNCHANGED <<g_bEndServer, g_bRestart, globals, main, worker, nctrl, memory, kernel, conn>>

CtrlHandler == CtrlEnd \/ CtrlSetEvent

-----------------------------------------------------------------------------
(* Kernel completions and clients *)

Min2(a, b) == IF a < b THEN a ELSE b
Byte(k) == IF k \in ZeroBytes THEN 0 ELSE k

\* The accept takes a connection from the backlog; it completes when the
\* first data, the end or the reset of that connection come.
AcceptConnect(c) ==
    /\ Alive /\ pend[Listen].op = "accept" /\ SocketAccept = Listen /\ sock[c] = "backlog"
    /\ SocketAccept' = c
    /\ sock' = [sock EXCEPT ![c] = "open"]
    /\ UNCHANGED <<flags, g_hIOCP, g_sdListen, g_pCtxtListenSocket, main, worker, handler, memory,
                   pend, key, port, openPorts, conn>>

\* Data of the connection c arrive for the operation on x: some of the bytes
\* that were sent, 0 bytes at the end of the stream, an error after a reset.
Received(x, c) ==
    \/ \E n \in 1..Min2(conn[c].nsent - conn[c].nrecvd, pend[x].len) :
         /\ io' = [io EXCEPT ![x].Buffer =
                     [i \in 1..MAX_BUFF_SIZE |-> IF i <= n THEN Byte(conn[c].nrecvd + i) ELSE @[i]]]
         /\ conn' = [conn EXCEPT ![c].nrecvd = @ + n]
         /\ Completed(x, n, TRUE)
    \/ /\ conn[c].peer = "fin" /\ conn[c].nrecvd = conn[c].nsent
       /\ Completed(x, 0, TRUE)
       /\ UNCHANGED <<io, conn>>
    \/ /\ conn[c].peer = "rst"
       /\ Completed(x, 0, FALSE)
       /\ UNCHANGED <<io, conn>>

CompleteRecv(c) ==
    /\ Alive
    /\ \/ pend[c].op = "recv" /\ Received(c, c)
       \/ pend[Listen].op = "accept" /\ SocketAccept = c /\ Received(Listen, c)
    /\ UNCHANGED <<flags, globals, main, worker, handler, list, cs, key, openPorts, sock>>

\* A send ends when a part of it has gone to the client, or with an error.
CompleteSend(c) ==
    /\ Alive /\ pend[c].op = "send"
    /\ \/ \E n \in 1..pend[c].len :
            /\ conn' = [conn EXCEPT ![c].echoed =
                          @ \o [i \in 1..n |-> io[c].Buffer[pend[c].off + i]]]
            /\ Completed(c, n, TRUE)
       \/ /\ conn[c].peer = "rst" /\ Completed(c, 0, FALSE)
          /\ UNCHANGED conn
    /\ UNCHANGED <<flags, globals, main, worker, handler, memory, key, openPorts, sock>>

Kernel(c) == AcceptConnect(c) \/ CompleteRecv(c) \/ CompleteSend(c)

Connect(c) ==
    /\ Alive /\ sock[c] = "none" /\ g_sdListen = "listening"
    /\ OneAtATime => list.live \subseteq {Listen} /\ \A d \in Conns : sock[d] \in {"none", "closed"}
    /\ sock' = [sock EXCEPT ![c] = "backlog"]
    /\ UNCHANGED <<flags, globals, main, worker, handler, memory, pend, key, port, openPorts, conn>>

ClientSend(c) ==
    /\ Alive /\ sock[c] \in {"backlog", "open"} /\ conn[c].peer = "open" /\ conn[c].nsent < MaxBytes
    /\ conn' = [conn EXCEPT ![c].nsent = @ + 1]
    /\ UNCHANGED <<flags, globals, main, worker, handler, memory, kernel>>

ClientClose(c) ==
    /\ Alive /\ sock[c] \in {"backlog", "open"} /\ conn[c].peer = "open"
    /\ \E how \in {"fin", "rst"} : conn' = [conn EXCEPT ![c].peer = how]
    /\ UNCHANGED <<flags, globals, main, worker, handler, memory, kernel>>

Client(c) == Connect(c) \/ ClientSend(c) \/ ClientClose(c)

-----------------------------------------------------------------------------

Next ==
    \/ Main
    \/ \E t \in Threads : Worker(t)
    \/ CtrlEvent
    \/ CtrlHandler
    \/ \E c \in Conns : Kernel(c) \/ Client(c)

Spec == Init /\ [][Next]_vars

\* Every thread that can run does run, and the kernel completes what it can
\* complete; console events and clients come when they like.
FairSpec ==
    /\ Spec
    /\ WF_vars(Main) /\ WF_vars(CtrlHandler)
    /\ \A t \in Threads : WF_vars(Worker(t))
    /\ \A c \in Conns : WF_vars(Kernel(c))

-----------------------------------------------------------------------------
(* Properties *)

\* Who has the PER_IO_CONTEXT of x: the kernel, a packet, a worker.  A worker
\* that has completed an accept has the listening context until it has posted
\* the next one, and the new connection until it has posted the first
\* operation on it.  The listening context is the one of this pass: what an
\* earlier pass left behind points to a freed one.
OfPass(x, r) == x = Listen => r = run
InKernel(x) == pend[x].op # "none"
OnPort(x, r, i) == OfPass(x, r) /\ port[r][i].ctxt = x /\ port[r][i].ok
WithWorker(x, t) ==
    /\ wpkt[t].ok
    /\ \/ wpc[t] \in {"got", "io", "first", "repost"} /\ wpkt[t].ctxt = x /\ OfPass(x, t[1])
       \/ wpc[t] = "first" /\ t[1] = run /\ SocketAccept = x

OneHolder(x) ==
    /\ \A r \in Runs : \A i \in DOMAIN port[r] : OnPort(x, r, i) =>
         /\ ~InKernel(x)
         /\ \A r2 \in Runs : \A i2 \in DOMAIN port[r2] : OnPort(x, r2, i2) => r = r2 /\ i = i2
    /\ \A t \in Threads : WithWorker(x, t) =>
         /\ ~InKernel(x)
         /\ \A r \in Runs : \A i \in DOMAIN port[r] : ~OnPort(x, r, i)
         /\ \A t2 \in Threads : WithWorker(x, t2) => t = t2

\* The protocol that makes the lock-free use of a context sound: one accept
\* and one operation per connection are outstanding, and no two threads work
\* on the same PER_IO_CONTEXT ("there is only one overlapped I/O on the
\* listening socket").
OneOperation == \A x \in Ctxts : OneHolder(x)

\* A worker that completes an accept posts the next one ("We should never
\* skip the loop and not post another AcceptEx"), or it sets the event: as
\* long as nobody ends the pass and AcceptEx does not fail, the kernel, a
\* packet or a worker of the pass has the listening context.
AcceptGoesOn ==
    mpc = "serve" /\ ~g_hCleanupEvent /\ ~g_bEndServer /\ ~list.uaf /\ "acceptex" \notin Failures =>
        \/ InKernel(Listen)
        \/ \E i \in DOMAIN port[run] : port[run][i].ctxt = Listen
        \/ \E t \in Threads : /\ t[1] = run /\ wpkt[t].ctxt = Listen
                              /\ wpc[t] \in {"got", "io", "first", "repost"}

\* The cleanup frees every context once and closes every socket: no pointer
\* to a freed context is followed, unless a failed association has lost a
\* port, whose workers survive into the next pass; and after main returns
\* nothing that was accepted is left open, also not the connection whose accept
\* had not completed, and no context is allocated.
CleanupSafe ==
    /\ openPorts \subseteq {g_hIOCP} => ~list.uaf
    /\ mpc = "done" => /\ list.live = {} /\ SocketAccept = NULL
                       /\ \A c \in Conns : sock[c] # "open"

\* A byte that reached the server is echoed, unless its connection is closed
\* or reset, the pass ends, or the accept waits for the first data of another
\* connection (comment above CreateAcceptSocket).
EchoServed ==
    \A c \in Conns : \A n \in 1..MaxBytes :
        sock[c] \in {"backlog", "open"} /\ conn[c].nsent >= n
          ~> \/ Len(conn[c].echoed) >= n \/ sock[c] = "closed" \/ conn[c].peer = "rst"
             \/ SocketAccept \in Conns \ {c} \/ g_bEndServer \/ g_hCleanupEvent \/ ~Alive

\* A console event that finds the event reset, and a worker that gives up,
\* end the pass, and the cleanup runs to its end.
EventEndsPass ==
    (hpc = "end" /\ mpc \in {"threads", "listen", "accept", "serve"}) \/ (mpc = "serve" /\ g_hCleanupEvent)
      ~> mpc = "test" \/ ~Alive

\* The server keeps the promise of EchoService to its connections.
Service == INSTANCE EchoService WITH
    state <- [c \in Conns |-> CASE sock[c] = "none" -> "new"
                                [] sock[c] = "closed" -> "closed"
                                [] OTHER -> "open"],
    sent <- [c \in Conns |-> conn[c].nsent],
    back <- [c \in Conns |-> conn[c].echoed]

ImplementsEchoService == Service!ServiceSpec
=============================================================================
