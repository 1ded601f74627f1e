----------------------------- MODULE IocpServer -----------------------------
(***************************************************************************)
(* The echo server of iocp1/server/IocpServer.Cpp: the main thread, which  *)
(* accepts connections, cleans up and restarts; the worker threads, which  *)
(* serve the completion port; the console control handler, which runs on a *)
(* thread of its own; and, around them, the kernel and the clients.        *)
(*                                                                         *)
(* A connection, its accepted socket and its context have one name, a      *)
(* member of Ctxts.  The bytes of a connection are numbered 1, 2, ... in   *)
(* the order the client sends them, so a buffer and what is echoed are     *)
(* sequences of byte numbers.  Each pass through main's outer loop has a   *)
(* number, which also names the completion port, the listening socket and  *)
(* the threads it creates.                                                 *)
(*                                                                         *)
(* A step is a stretch of code with one access to state that another       *)
(* thread can change.  g_CriticalSection is recursive and every routine    *)
(* that takes it is one step, except CtxtListFree, which keeps it over the *)
(* whole walk (variable cs).  No step is taken after a use after free.     *)
(*                                                                         *)
(* A definition whose name has a suffix (Issue_RefusalIgnored) is a wrong   *)
(* variant of the definition that follows it, which some property refutes. *)
(***************************************************************************)
EXTENDS CtxtList, Integers, Sequences

CONSTANTS
    ThreadCount,    \* g_dwThreadCount
    MAX_BUFF_SIZE,  \* the size of a context's Buffer
    MaxBytes,       \* bound: the bytes one client sends
    MaxCtrl,        \* bound: the console events
    Failures,       \* which system calls may fail without a cause of ours
    Timeouts,       \* whether the wait for the workers may time out
    OneAtATime      \* whether a client connects only when no other is served

ASSUME ServerAssumption ==
    /\ ThreadCount \in Nat \ {0}
    /\ MAX_BUFF_SIZE \in Nat \ {0}
    /\ MaxBytes \in Nat
    /\ MaxCtrl \in Nat
    /\ Failures \subseteq {"port", "thread", "socket", "bind", "accept",
                           "ctxt", "ioctxt", "assoc", "post"}
    /\ Timeouts \in BOOLEAN
    /\ OneAtATime \in BOOLEAN

Runs == 1..(MaxCtrl + 1)            \* passes through the outer loop
Threads == Runs \X (1..ThreadCount)
NoThread == <<0, 0>>                \* INVALID_HANDLE_VALUE in g_ThreadHandles
INVALID == 0                        \* INVALID_SOCKET, and the NULL port

VARIABLES
    g_bEndServer, g_bRestart,       \* the two flags
    g_hIOCP,                        \* the run that made the port, or INVALID
    g_sdListen,                     \* the run that made the socket, or INVALID
    g_ThreadHandles,
    list,                           \* g_pCtxtList and the contexts
    mpc, run, sdAccept, pTemp1,     \* main's position and locals
    cs,                             \* whether CtxtListFree holds the lock
    wpc, wpkt,                      \* each worker's position and last packet
    hpc, sockTemp, nctrl,           \* the handler's position, local and events
    IOOperation, nTotalBytes, nSentBytes, Buffer,   \* the PER_IO_CONTEXTs
    pend,                           \* kernel: the overlapped operation
    key, port, openPorts,           \* kernel: completion ports
    lsock, sock,                    \* kernel: listening and client sockets
    nsent, nrecvd, echoed, peer     \* the connections as the clients see them

flags   == <<g_bEndServer, g_bRestart>>
main    == <<mpc, run, sdAccept, pTemp1, cs, g_ThreadHandles>>
worker  == <<wpc, wpkt>>
handler == <<hpc, sockTemp, nctrl>>
ioctxt  == <<IOOperation, nTotalBytes, nSentBytes, Buffer>>
client  == <<nsent, nrecvd, echoed, peer>>
vars == <<flags, g_hIOCP, g_sdListen, list, main, worker, handler, ioctxt,
          pend, key, port, openPorts, lsock, sock, client>>

Packet == [ctxt : Pointer, size : 0..MAX_BUFF_SIZE, ok : BOOLEAN]
NullPacket == [ctxt |-> NULL, size |-> 0, ok |-> TRUE]
Operation == [op : {"none", "recv", "send"}, off : 0..MAX_BUFF_SIZE, len : 0..MAX_BUFF_SIZE]
Idle == [op |-> "none", off |-> 0, len |-> 0]

MainSteps == {"test", "clearRestart", "clearEnd", "threads", "socket", "bind",
              "accept", "accepting", "update", "check", "recv",
              "finally", "post", "wait", "free", "walk", "closePort", "closeSockets", "done"}

TypeOK ==
    /\ g_bEndServer \in BOOLEAN /\ g_bRestart \in BOOLEAN
    /\ g_hIOCP \in Runs \cup {INVALID} /\ g_sdListen \in Runs \cup {INVALID}
    /\ g_ThreadHandles \in [1..ThreadCount -> Threads \cup {NoThread}]
    /\ list \in List
    /\ mpc \in MainSteps /\ run \in Runs \cup {0} /\ sdAccept \in Pointer /\ pTemp1 \in Pointer
    /\ cs \in BOOLEAN
    /\ wpc \in [Threads -> {"none", "gqcs", "got", "io", "close", "exit"}]
    /\ wpkt \in [Threads -> Packet]
    /\ hpc \in {"idle", "take", "invalidate", "end", "close"}
    /\ sockTemp \in Runs \cup {INVALID} /\ nctrl \in 0..MaxCtrl
    /\ IOOperation \in [Ctxts -> {"ClientIoRead", "ClientIoWrite"}]
    /\ nTotalBytes \in [Ctxts -> 0..MAX_BUFF_SIZE] /\ nSentBytes \in [Ctxts -> Nat]
    /\ Buffer \in [Ctxts -> [1..MAX_BUFF_SIZE -> 0..MaxBytes]]
    /\ pend \in [Ctxts -> Operation]
    /\ key \in [Ctxts -> Runs \cup {INVALID}]
    /\ port \in [Runs -> Seq(Packet)] /\ openPorts \subseteq Runs
    /\ lsock \in [Runs -> {"none", "open", "listening", "closed"}]
    /\ sock \in [Ctxts -> {"none", "backlog", "open", "closed"}]
    /\ nsent \in [Ctxts -> 0..MaxBytes] /\ nrecvd \in [Ctxts -> 0..MaxBytes]
    /\ echoed \in [Ctxts -> Seq(0..MaxBytes)]
    /\ peer \in [Ctxts -> {"open", "fin", "rst"}]

Init ==
    /\ g_bEndServer = FALSE /\ g_bRestart = TRUE
    /\ g_hIOCP = INVALID /\ g_sdListen = INVALID
    /\ g_ThreadHandles = [i \in 1..ThreadCount |-> NoThread]
    /\ list = EmptyList
    /\ mpc = "test" /\ run = 0 /\ sdAccept = NULL /\ pTemp1 = NULL /\ cs = FALSE
    /\ wpc = [t \in Threads |-> "none"] /\ wpkt = [t \in Threads |-> NullPacket]
    /\ hpc = "idle" /\ sockTemp = INVALID /\ nctrl = 0
    /\ IOOperation = [c \in Ctxts |-> "ClientIoRead"]
    /\ nTotalBytes = [c \in Ctxts |-> 0] /\ nSentBytes = [c \in Ctxts |-> 0]
    /\ Buffer = [c \in Ctxts |-> [i \in 1..MAX_BUFF_SIZE |-> 0]]
    /\ pend = [c \in Ctxts |-> Idle]
    /\ key = [c \in Ctxts |-> INVALID]
    /\ port = [r \in Runs |-> <<>>] /\ openPorts = {}
    /\ lsock = [r \in Runs |-> "none"] /\ sock = [c \in Ctxts |-> "none"]
    /\ nsent = [c \in Ctxts |-> 0] /\ nrecvd = [c \in Ctxts |-> 0]
    /\ echoed = [c \in Ctxts |-> <<>>] /\ peer = [c \in Ctxts |-> "open"]

\* The process still runs and its memory has not been corrupted.
Alive == mpc # "done" /\ ~list.uaf

-----------------------------------------------------------------------------
(* Kernel services *)

Min2(a, b) == IF a < b THEN a ELSE b

\* An operation on c has ended: its packet goes to the port of c's key.
Completed(c, size, ok) ==
    port' = [port EXCEPT ![key[c]] = Append(@, [ctxt |-> c, size |-> size, ok |-> ok])]

\* WSASend and WSARecv may be refused at once when the connection was reset.
MayRefuse(c) == peer[c] = "rst" \/ "post" \in Failures

\* closesocket on a listening socket resets the connections in its backlog.
CloseListener(s) ==
    IF s # INVALID /\ lsock[s] \in {"open", "listening"}
      THEN /\ lsock' = [lsock EXCEPT ![s] = "closed"]
           /\ sock' = [c \in Ctxts |-> IF sock[c] = "backlog" THEN "closed" ELSE sock[c]]
      ELSE UNCHANGED <<lsock, sock>>

-----------------------------------------------------------------------------
(* Routines of the server *)

\* closesocket ends the pending operation, whose packet is queued; in a
\* shutdown the loop on HasOverlappedIoCompleted waits for exactly that.
CloseClient(c) ==
    IF c \in list.live
      THEN /\ list' = CtxtListDeleteFrom(list, c)
           /\ sock' = [sock EXCEPT ![c] = "closed"]
           /\ IF pend[c].op # "none"
                THEN /\ Completed(c, 0, FALSE)
                     /\ pend' = [pend EXCEPT ![c] = Idle]
                ELSE UNCHANGED <<port, pend>>
      ELSE /\ list' = UseAfterFree(list)
           /\ UNCHANGED <<sock, port, pend>>

\* The length of every receive.
RecvLen == MAX_BUFF_SIZE

Post(c, op, off, len) == pend' = [pend EXCEPT ![c] = [op |-> op, off |-> off, len |-> len]]

-----------------------------------------------------------------------------
(* The main thread *)

Goto(l) == mpc' = l

MainTest ==
    /\ Alive /\ mpc = "test"
    /\ Goto(IF g_bRestart THEN "clearRestart" ELSE "done")
    /\ UNCHANGED <<flags, g_hIOCP, g_sdListen, list, run, sdAccept, pTemp1, cs, g_ThreadHandles,
                   worker, handler, ioctxt, pend, key, port, openPorts, lsock, sock, client>>

MainClearRestart ==
    /\ Alive /\ mpc = "clearRestart"
    /\ g_bRestart' = FALSE
    /\ Goto("clearEnd")
    /\ UNCHANGED <<g_bEndServer, g_hIOCP, g_sdListen, list, run, sdAccept, pTemp1, cs,
                   g_ThreadHandles, worker, handler, ioctxt, pend, key, port, openPorts,
                   lsock, sock, client>>

MainClearEnd ==
    /\ Alive /\ mpc = "clearEnd"
    /\ g_bEndServer' = FALSE
    /\ run' = run + 1
    /\ Goto("threads")
    /\ UNCHANGED <<g_bRestart, g_hIOCP, g_sdListen, list, sdAccept, pTemp1, cs,
                   g_ThreadHandles, worker, handler, ioctxt, pend, key, port, openPorts,
                   lsock, sock, client>>

\* The port is created, then the threads one by one until one fails.
MainCreateThreads ==
    /\ Alive /\ mpc = "threads"
    /\ \/ /\ "port" \in Failures
          /\ g_hIOCP' = INVALID
          /\ Goto("finally")
          /\ UNCHANGED <<openPorts, wpc, g_ThreadHandles>>
       \/ /\ g_hIOCP' = run
          /\ openPorts' = openPorts \cup {run}
          /\ \E n \in 0..ThreadCount :
               /\ n < ThreadCount => "thread" \in Failures
               /\ wpc' = [t \in Threads |-> IF t[1] = run /\ t[2] <= n THEN "gqcs" ELSE wpc[t]]
               /\ g_ThreadHandles' = [i \in 1..ThreadCount |->
                                        IF i <= n THEN <<run, i>> ELSE g_ThreadHandles[i]]
               /\ Goto(IF n = ThreadCount THEN "socket" ELSE "finally")
    /\ UNCHANGED <<flags, g_sdListen, list, run, sdAccept, pTemp1, cs, wpkt, handler, ioctxt,
                   pend, key, port, lsock, sock, client>>

\* CreateListenSocket, up to WSASocket.
CreateListenSocket1 ==
    /\ Alive /\ mpc = "socket"
    /\ \/ /\ g_sdListen' = run
          /\ lsock' = [lsock EXCEPT ![run] = "open"]
          /\ Goto("bind")
       \/ /\ "socket" \in Failures
          /\ g_sdListen' = INVALID
          /\ Goto("finally")
          /\ UNCHANGED lsock
    /\ UNCHANGED <<flags, g_hIOCP, list, run, sdAccept, pTemp1, cs, g_ThreadHandles, worker,
                   handler, ioctxt, pend, key, port, openPorts, sock, client>>

\* ... and from there on: bind and listen fail on a socket the handler took
\* away, and while the port is still bound to an earlier socket.
CreateListenSocket2 ==
    /\ Alive /\ mpc = "bind"
    /\ \/ /\ g_sdListen # INVALID
          /\ lsock[g_sdListen] = "open"
          /\ \A r \in Runs : lsock[r] # "listening"
          /\ lsock' = [lsock EXCEPT ![g_sdListen] = "listening"]
          /\ Goto("accept")
       \/ /\ \/ g_sdListen = INVALID
             \/ "bind" \in Failures
             \/ \E r \in Runs : lsock[r] = "listening"
          /\ Goto("finally")
          /\ UNCHANGED lsock
    /\ UNCHANGED <<flags, g_hIOCP, g_sdListen, list, run, sdAccept, pTemp1, cs, g_ThreadHandles,
                   worker, handler, ioctxt, pend, key, port, openPorts, sock, client>>

\* The call of WSAAccept reads g_sdListen ...
MainAcceptCall ==
    /\ Alive /\ mpc = "accept"
    /\ IF g_sdListen = INVALID
         THEN sdAccept' = NULL /\ Goto("finally")
         ELSE Goto("accepting") /\ UNCHANGED sdAccept
    /\ UNCHANGED <<flags, g_hIOCP, g_sdListen, list, run, pTemp1, cs, g_ThreadHandles,
                   worker, handler, ioctxt, pend, key, port, openPorts, lsock, sock, client>>

\* ... and returns with a connection, or with an error when the socket is
\* closed under it.
MainAccept ==
    /\ Alive /\ mpc = "accepting"
    /\ \/ \E c \in Ctxts :
            /\ lsock[run] = "listening" /\ sock[c] = "backlog"
            /\ sdAccept' = c
            /\ sock' = [sock EXCEPT ![c] = "open"]
            /\ Goto("update")
       \/ /\ lsock[run] = "closed" \/ "accept" \in Failures
          /\ sdAccept' = NULL
          /\ Goto("finally")
          /\ UNCHANGED sock
    /\ UNCHANGED <<flags, g_hIOCP, g_sdListen, list, run, pTemp1, cs, g_ThreadHandles,
                   worker, handler, ioctxt, pend, key, port, openPorts, lsock, client>>

\* CtxtAllocate, CreateIoCompletionPort and CtxtListAddTo.  A failed
\* allocation of the PER_IO_CONTEXT frees the context but still returns it;
\* a failed association leaves NULL in g_hIOCP.
UpdateCompletionPort(c) ==
    \/ /\ list' = CtxtListAddTo(CtxtAllocate(list, c), c)
       /\ key' = [key EXCEPT ![c] = g_hIOCP]
       /\ IOOperation' = [IOOperation EXCEPT ![c] = "ClientIoRead"]
       /\ nTotalBytes' = [nTotalBytes EXCEPT ![c] = 0]
       /\ nSentBytes' = [nSentBytes EXCEPT ![c] = 0]
       /\ Buffer' = [Buffer EXCEPT ![c] = [i \in 1..MAX_BUFF_SIZE |-> 0]]
       /\ Goto("check")
       /\ UNCHANGED g_hIOCP
    \/ /\ "ctxt" \in Failures
       /\ Goto("finally")
       /\ UNCHANGED <<list, key, ioctxt, g_hIOCP>>
    \/ /\ "ioctxt" \in Failures
       /\ list' = CtxtListAddTo(list, c)
       /\ Goto("check")
       /\ UNCHANGED <<key, ioctxt, g_hIOCP>>
    \/ /\ "assoc" \in Failures
       /\ g_hIOCP' = INVALID
       /\ Goto("finally")
       /\ UNCHANGED <<list, key, ioctxt>>

MainUpdate ==
    /\ Alive /\ mpc = "update"
    /\ UpdateCompletionPort(sdAccept)
    /\ UNCHANGED <<flags, g_sdListen, run, sdAccept, pTemp1, cs, g_ThreadHandles, worker,
                   handler, pend, port, openPorts, lsock, sock, client>>

MainCheckEnd ==
    /\ Alive /\ mpc = "check"
    /\ Goto(IF g_bEndServer THEN "finally" ELSE "recv")
    /\ UNCHANGED <<flags, g_hIOCP, g_sdListen, list, run, sdAccept, pTemp1, cs, g_ThreadHandles,
                   worker, handler, ioctxt, pend, key, port, openPorts, lsock, sock, client>>

\* The initial receive; the connection is closed if it is refused.
MainRecv ==
    /\ Alive /\ mpc = "recv"
    /\ \/ /\ Post(sdAccept, "recv", 0, RecvLen)
          /\ UNCHANGED <<list, sock, port>>
       \/ /\ MayRefuse(sdAccept)
          /\ CloseClient(sdAccept)
    /\ Goto("accept")
    /\ UNCHANGED <<flags, g_hIOCP, g_sdListen, run, sdAccept, pTemp1, cs, g_ThreadHandles,
                   worker, handler, ioctxt, key, openPorts, lsock, client>>

MainFinally ==
    /\ Alive /\ mpc = "finally"
    /\ g_bEndServer' = TRUE
    /\ Goto("post")
    /\ UNCHANGED <<g_bRestart, g_hIOCP, g_sdListen, list, run, sdAccept, pTemp1, cs,
                   g_ThreadHandles, worker, handler, ioctxt, pend, key, port, openPorts,
                   lsock, sock, client>>

\* One packet with a NULL key for every worker, if there is a port.
ExitPackets_OneShort == [i \in 1..(ThreadCount - 1) |-> NullPacket]
ExitPackets == [i \in 1..ThreadCount |-> NullPacket]

MainPost ==
    /\ Alive /\ mpc = "post"
    /\ port' = IF g_hIOCP = INVALID THEN port
               ELSE [port EXCEPT ![g_hIOCP] = @ \o ExitPackets]
    /\ Goto("wait")
    /\ UNCHANGED <<flags, g_hIOCP, g_sdListen, list, run, sdAccept, pTemp1, cs, g_ThreadHandles,
                   worker, handler, ioctxt, pend, key, openPorts, lsock, sock, client>>

\* WaitForMultipleObjects: an invalid handle makes it fail at once; a
\* failure or a timeout is only reported.
MainWait ==
    /\ Alive /\ mpc = "wait"
    /\ \/ /\ \A i \in 1..ThreadCount :
               g_ThreadHandles[i] # NoThread /\ wpc[g_ThreadHandles[i]] = "exit"
          /\ g_ThreadHandles' = [i \in 1..ThreadCount |-> NoThread]
       \/ /\ \/ Timeouts
             \/ \E i \in 1..ThreadCount : g_ThreadHandles[i] = NoThread
          /\ UNCHANGED g_ThreadHandles
    /\ Goto("free")
    /\ UNCHANGED <<flags, g_hIOCP, g_sdListen, list, run, sdAccept, pTemp1, cs, worker,
                   handler, ioctxt, pend, key, port, openPorts, lsock, sock, client>>

\* CtxtListFree: the lock is taken and the walk starts at the head,
CtxtListFreeEnter ==
    /\ Alive /\ mpc = "free"
    /\ cs' = TRUE
    /\ pTemp1' = list.g_pCtxtList
    /\ Goto("walk")
    /\ UNCHANGED <<flags, g_hIOCP, g_sdListen, list, run, sdAccept, g_ThreadHandles, worker,
                   handler, ioctxt, pend, key, port, openPorts, lsock, sock, client>>

\* closes a context after reading its pCtxtBack,
CtxtListFreeStep ==
    /\ Alive /\ mpc = "walk" /\ pTemp1 # NULL
    /\ pTemp1' = list.pCtxtBack[pTemp1]
    /\ CloseClient(pTemp1)
    /\ UNCHANGED <<flags, g_hIOCP, g_sdListen, mpc, run, sdAccept, cs, g_ThreadHandles, worker,
                   handler, ioctxt, key, openPorts, lsock, client>>

\* and ends at NULL.
CtxtListFreeLeave ==
    /\ Alive /\ mpc = "walk" /\ pTemp1 = NULL
    /\ cs' = FALSE
    /\ Goto("closePort")
    /\ UNCHANGED <<flags, g_hIOCP, g_sdListen, list, run, sdAccept, pTemp1, g_ThreadHandles,
                   worker, handler, ioctxt, pend, key, port, openPorts, lsock, sock, client>>

MainClosePort ==
    /\ Alive /\ mpc = "closePort"
    /\ openPorts' = openPorts \ {g_hIOCP}
    /\ g_hIOCP' = INVALID
    /\ Goto("closeSockets")
    /\ UNCHANGED <<flags, g_sdListen, list, run, sdAccept, pTemp1, cs, g_ThreadHandles,
                   worker, handler, ioctxt, pend, key, port, lsock, sock, client>>

\* The last accepted socket is closed once more if its context was listed.
LastAccepted_Kept == {}
LastAccepted == {sdAccept} \ {NULL}

\* The listening socket is closed unless the handler took it.
MainCloseSockets ==
    /\ Alive /\ mpc = "closeSockets"
    /\ LET shut == IF g_sdListen # INVALID /\ lsock[g_sdListen] \in {"open", "listening"}
                     THEN {c \in Ctxts : sock[c] = "backlog"} ELSE {}
       IN  /\ lsock' = IF g_sdListen # INVALID THEN [lsock EXCEPT ![g_sdListen] = "closed"]
                                               ELSE lsock
           /\ sock' = [c \in Ctxts |-> IF c \in shut \cup LastAccepted THEN "closed" ELSE sock[c]]
    /\ g_sdListen' = INVALID
    /\ sdAccept' = NULL
    /\ Goto("test")
    /\ UNCHANGED <<flags, g_hIOCP, list, run, pTemp1, cs, g_ThreadHandles, worker,
                   handler, ioctxt, pend, key, port, openPorts, client>>

Main ==
    \/ MainTest \/ MainClearRestart \/ MainClearEnd \/ MainCreateThreads
    \/ CreateListenSocket1 \/ CreateListenSocket2
    \/ MainAcceptCall \/ MainAccept \/ MainUpdate \/ MainCheckEnd \/ MainRecv
    \/ MainFinally \/ MainPost \/ MainWait
    \/ CtxtListFreeEnter \/ CtxtListFreeStep \/ CtxtListFreeLeave
    \/ MainClosePort \/ MainCloseSockets

-----------------------------------------------------------------------------
(* The worker threads *)

\* GetQueuedCompletionStatus.  When the port is closed it fails and leaves
\* the key of the last packet in place.
WorkerGet(t) ==
    /\ Alive /\ wpc[t] = "gqcs"
    /\ \/ /\ t[1] \in openPorts /\ port[t[1]] # <<>>
          /\ wpkt' = [wpkt EXCEPT ![t] = Head(port[t[1]])]
          /\ port' = [port EXCEPT ![t[1]] = Tail(@)]
       \/ /\ t[1] \notin openPorts
          /\ wpkt' = [wpkt EXCEPT ![t].ok = FALSE]
          /\ UNCHANGED port
    /\ wpc' = [wpc EXCEPT ![t] = IF wpkt'[t].ctxt = NULL THEN "exit" ELSE "got"]
    /\ UNCHANGED <<flags, g_hIOCP, g_sdListen, list, main, handler, ioctxt, pend, key,
                   openPorts, lsock, sock, client>>

WorkerCheck(t) ==
    /\ Alive /\ wpc[t] = "got"
    /\ wpc' = [wpc EXCEPT ![t] = IF g_bEndServer THEN "exit"
                                 ELSE IF ~wpkt[t].ok \/ wpkt[t].size = 0 THEN "close"
                                 ELSE "io"]
    /\ UNCHANGED <<flags, g_hIOCP, g_sdListen, list, main, wpkt, handler, ioctxt, pend, key,
                   port, openPorts, lsock, sock, client>>

\* WSASend or WSARecv: accepted, or refused and the client is closed.
Issue_PendingIsFailure(t, c, op, off, len) ==
    /\ Post(c, op, off, len)
    /\ \E next \in {"gqcs", "close"} : wpc' = [wpc EXCEPT ![t] = next]
Issue_RefusalIgnored(t, c, op, off, len) ==
    /\ wpc' = [wpc EXCEPT ![t] = "gqcs"]
    /\ Post(c, op, off, len) \/ (MayRefuse(c) /\ UNCHANGED pend)
Issue(t, c, op, off, len) ==
    \/ Post(c, op, off, len) /\ wpc' = [wpc EXCEPT ![t] = "gqcs"]
    \/ MayRefuse(c) /\ wpc' = [wpc EXCEPT ![t] = "close"] /\ UNCHANGED pend

\* A read has completed: echo what was read from the same buffer.
IoRead_NoReset(t, c, size) ==
    /\ IOOperation[c] = "ClientIoRead"
    /\ IOOperation' = [IOOperation EXCEPT ![c] = "ClientIoWrite"]
    /\ nTotalBytes' = [nTotalBytes EXCEPT ![c] = size]
    /\ Issue(t, c, "send", 0, size)
    /\ UNCHANGED nSentBytes
IoRead(t, c, size) ==
    /\ IOOperation[c] = "ClientIoRead"
    /\ IOOperation' = [IOOperation EXCEPT ![c] = "ClientIoWrite"]
    /\ nTotalBytes' = [nTotalBytes EXCEPT ![c] = size]
    /\ nSentBytes' = [nSentBytes EXCEPT ![c] = 0]
    /\ Issue(t, c, "send", 0, size)

\* A write has completed: send the rest, or read again.
SentSoFar_NotAdded(c, size) == size
SentSoFar(c, size) == nSentBytes[c] + size

IoWrite(t, c, size) ==
    /\ IOOperation[c] = "ClientIoWrite"
    /\ nSentBytes' = [nSentBytes EXCEPT ![c] = SentSoFar(c, size)]
    /\ IF SentSoFar(c, size) < nTotalBytes[c]
         THEN /\ Issue(t, c, "send", SentSoFar(c, size), nTotalBytes[c] - SentSoFar(c, size))
              /\ UNCHANGED IOOperation
         ELSE /\ IOOperation' = [IOOperation EXCEPT ![c] = "ClientIoRead"]
              /\ Issue(t, c, "recv", 0, RecvLen)
    /\ UNCHANGED nTotalBytes

WorkerIo(t) ==
    /\ Alive /\ wpc[t] = "io"
    /\ LET c == wpkt[t].ctxt IN
       IF c \in list.live
         THEN /\ IoRead(t, c, wpkt[t].size) \/ IoWrite(t, c, wpkt[t].size)
              /\ UNCHANGED list
         ELSE /\ list' = UseAfterFree(list)
              /\ UNCHANGED <<wpc, pend, IOOperation, nTotalBytes, nSentBytes>>
    /\ UNCHANGED <<flags, g_hIOCP, g_sdListen, main, wpkt, handler, Buffer, key, port,
                   openPorts, lsock, sock, client>>

WorkerClose(t) ==
    /\ Alive /\ wpc[t] = "close" /\ ~cs
    /\ CloseClient(wpkt[t].ctxt)
    /\ wpc' = [wpc EXCEPT ![t] = "gqcs"]
    /\ UNCHANGED <<flags, g_hIOCP, g_sdListen, main, wpkt, handler, ioctxt, key, openPorts,
                   lsock, client>>

Worker(t) == WorkerGet(t) \/ WorkerCheck(t) \/ WorkerIo(t) \/ WorkerClose(t)

-----------------------------------------------------------------------------
(* The console control handler *)

\* CTRL_BREAK_EVENT sets the restart flag and falls through to the rest.
CtrlEvent ==
    /\ Alive /\ hpc = "idle" /\ nctrl < MaxCtrl
    /\ nctrl' = nctrl + 1
    /\ g_bRestart' \in {g_bRestart, TRUE}
    /\ hpc' = "take"
    /\ UNCHANGED <<g_bEndServer, g_hIOCP, g_sdListen, list, main, worker, sockTemp, ioctxt,
                   pend, key, port, openPorts, lsock, sock, client>>

CtrlTake ==
    /\ Alive /\ hpc = "take"
    /\ sockTemp' = g_sdListen
    /\ hpc' = "invalidate"
    /\ UNCHANGED <<flags, g_hIOCP, g_sdListen, list, main, worker, nctrl, ioctxt,
                   pend, key, port, openPorts, lsock, sock, client>>

CtrlInvalidate ==
    /\ Alive /\ hpc = "invalidate"
    /\ g_sdListen' = INVALID
    /\ hpc' = "end"
    /\ UNCHANGED <<flags, g_hIOCP, list, main, worker, sockTemp, nctrl, ioctxt,
                   pend, key, port, openPorts, lsock, sock, client>>

CtrlEnd ==
    /\ Alive /\ hpc = "end"
    /\ g_bEndServer' = TRUE
    /\ hpc' = "close"
    /\ UNCHANGED <<g_bRestart, g_hIOCP, g_sdListen, list, main, worker, sockTemp, nctrl, ioctxt,
                   pend, key, port, openPorts, lsock, sock, client>>

CtrlClose_LeftOpen ==
    /\ Alive /\ hpc = "close"
    /\ sockTemp' = INVALID
    /\ hpc' = "idle"
    /\ UNCHANGED <<flags, g_hIOCP, g_sdListen, list, main, worker, nctrl, ioctxt,
                   pend, key, port, openPorts, lsock, sock, client>>

CtrlClose ==
    /\ Alive /\ hpc = "close"
    /\ CloseListener(sockTemp)
    /\ sockTemp' = INVALID
    /\ hpc' = "idle"
    /\ UNCHANGED <<flags, g_hIOCP, g_sdListen, list, main, worker, nctrl, ioctxt,
                   pend, key, port, openPorts, client>>

CtrlHandler == CtrlTake \/ CtrlInvalidate \/ CtrlEnd \/ CtrlClose

-----------------------------------------------------------------------------
(* Kernel completions *)

\* A receive ends with some of the bytes that have arrived, with 0 bytes at
\* the end of the stream, or with an error after a reset.
CompleteRecv(c) ==
    /\ Alive /\ pend[c].op = "recv"
    /\ pend' = [pend EXCEPT ![c] = Idle]
    /\ \/ \E n \in 1..Min2(nsent[c] - nrecvd[c], pend[c].len) :
            /\ Buffer' = [Buffer EXCEPT ![c] =
                            [i \in 1..MAX_BUFF_SIZE |-> IF i <= n THEN nrecvd[c] + i ELSE @[i]]]
            /\ nrecvd' = [nrecvd EXCEPT ![c] = @ + n]
            /\ Completed(c, n, TRUE)
       \/ /\ peer[c] = "fin" /\ nrecvd[c] = nsent[c]
          /\ Completed(c, 0, TRUE)
          /\ UNCHANGED <<Buffer, nrecvd>>
       \/ /\ peer[c] = "rst"
          /\ Completed(c, 0, FALSE)
          /\ UNCHANGED <<Buffer, nrecvd>>
    /\ UNCHANGED <<flags, g_hIOCP, g_sdListen, list, main, worker, handler, IOOperation,
                   nTotalBytes, nSentBytes, key, openPorts, lsock, sock, nsent, echoed, peer>>

\* A send ends when a part of it has gone to the client, or with an error.
CompleteSend(c) ==
    /\ Alive /\ pend[c].op = "send"
    /\ pend' = [pend EXCEPT ![c] = Idle]
    /\ \/ \E n \in 1..pend[c].len :
            /\ echoed' = [echoed EXCEPT ![c] = @ \o [i \in 1..n |-> Buffer[c][pend[c].off + i]]]
            /\ Completed(c, n, TRUE)
       \/ /\ peer[c] = "rst"
          /\ Completed(c, 0, FALSE)
          /\ UNCHANGED echoed
    /\ UNCHANGED <<flags, g_hIOCP, g_sdListen, list, main, worker, handler, ioctxt,
                   key, openPorts, lsock, sock, nsent, nrecvd, peer>>

Kernel(c) == CompleteRecv(c) \/ CompleteSend(c)

-----------------------------------------------------------------------------
(* The clients *)

Connect(c) ==
    /\ Alive /\ sock[c] = "none"
    /\ \E r \in Runs : lsock[r] = "listening"
    /\ OneAtATime => list.live = {} /\ \A d \in Ctxts : sock[d] \in {"none", "closed"}
    /\ sock' = [sock EXCEPT ![c] = "backlog"]
    /\ UNCHANGED <<flags, g_hIOCP, g_sdListen, list, main, worker, handler, ioctxt, pend, key,
                   port, openPorts, lsock, client>>

ClientSend(c) ==
    /\ Alive /\ sock[c] \in {"backlog", "open"} /\ peer[c] = "open"
    /\ nsent[c] < MaxBytes
    /\ nsent' = [nsent EXCEPT ![c] = @ + 1]
    /\ UNCHANGED <<flags, g_hIOCP, g_sdListen, list, main, worker, handler, ioctxt, pend, key,
                   port, openPorts, lsock, sock, nrecvd, echoed, peer>>

ClientClose(c) ==
    /\ Alive /\ sock[c] \in {"backlog", "open"} /\ peer[c] = "open"
    /\ \E how \in {"fin", "rst"} : peer' = [peer EXCEPT ![c] = how]
    /\ UNCHANGED <<flags, g_hIOCP, g_sdListen, list, main, worker, handler, ioctxt, pend, key,
                   port, openPorts, lsock, sock, nsent, nrecvd, echoed>>

Client(c) == Connect(c) \/ ClientSend(c) \/ ClientClose(c)

-----------------------------------------------------------------------------

Next ==
    \/ Main
    \/ \E t \in Threads : Worker(t)
    \/ CtrlEvent
    \/ CtrlHandler
    \/ \E c \in Ctxts : Kernel(c) \/ Client(c)

Spec == Init /\ [][Next]_vars

\* Every thread that can run does run, and the kernel completes what it can
\* complete; console events and clients come when they like.
Fairness ==
    /\ WF_vars(Main)
    /\ \A t \in Threads : WF_vars(Worker(t))
    /\ WF_vars(CtrlHandler)
    /\ \A c \in Ctxts : WF_vars(Kernel(c))

FairSpec == Spec /\ Fairness

-----------------------------------------------------------------------------
(* Properties *)

\* Echo integrity (WorkerThread, the ClientIoRead and ClientIoWrite cases):
\* whatever partial receives and partial sends the kernel reports, a client
\* gets back exactly the bytes it sent, each once and in order, and never
\* more than the server has read.
EchoIsPrefix ==
    \A c \in Ctxts : /\ echoed[c] = [i \in 1..Len(echoed[c]) |-> i]
                     /\ Len(echoed[c]) <= nrecvd[c]

\* Those who may touch the PER_IO_CONTEXT of c next: the kernel, for an
\* overlapped operation; a packet on a port that reports a success; a worker
\* that has such a packet; main, as long as it has not posted the first read.
\* (A packet that reports an error only makes a worker close c.)
InKernel(c) == pend[c].op # "none"
OnPort(c, r, i) == port[r][i].ctxt = c /\ port[r][i].ok
WithWorker(c, t) == wpc[t] \in {"got", "io", "close"} /\ wpkt[t].ctxt = c /\ wpkt[t].ok
WithMain(c) == sdAccept = c /\ mpc \notin {"accept", "accepting"}

\* The protocol that makes the lock-free use of a context sound
\* (WorkerThread, MainRecv): at any time at most one of them has the context,
\* so a context has at most one operation outstanding and no two threads
\* work on the same PER_IO_CONTEXT.
OneOperation ==
    \A c \in Ctxts :
        /\ WithMain(c) => ~InKernel(c)
        /\ \A r \in Runs : \A i \in DOMAIN port[r] : OnPort(c, r, i) =>
             /\ ~WithMain(c) /\ ~InKernel(c)
             /\ \A r2 \in Runs : \A i2 \in DOMAIN port[r2] : OnPort(c, r2, i2) => r = r2 /\ i = i2
        /\ \A t \in Threads : WithWorker(c, t) =>
             /\ ~WithMain(c) /\ ~InKernel(c)
             /\ \A r \in Runs : \A i \in DOMAIN port[r] : ~OnPort(c, r, i)
             /\ \A t2 \in Threads : WithWorker(c, t2) => t = t2

\* CtxtListDeleteFrom frees the OVERLAPPED structure of an operation that is
\* still pending only in a shutdown, where it waits for the operation.
NoFreeInFlight ==
    [][\A c \in Ctxts : c \in list.live /\ c \notin list'.live
                          => pend[c].op = "none" \/ g_bEndServer]_vars

\* No thread follows a pointer to a context that was freed.
NoUseAfterFree == ~list.uaf

\* After main returns nothing that was accepted is left open and no context
\* is left allocated (the finally block, CtxtListFree).
CleanShutdown ==
    mpc = "done" => /\ list.live = {}
                    /\ \A c \in Ctxts : sock[c] # "open"

\* The list is kept "to allow the cleanup handler to cleanly close all
\* sockets and free resources": every allocated context is on it whenever
\* the server is accepting.
AllOnList == mpc = "accepting" /\ ~list.uaf => list.live \subseteq Reachable(list)

\* A byte that reached the server is echoed, unless its connection is
\* closed, the client resets it, or the server shuts down.
EchoServed ==
    \A c \in Ctxts : \A n \in 1..MaxBytes :
        sock[c] = "open" /\ nsent[c] >= n
          ~> Len(echoed[c]) >= n \/ sock[c] = "closed" \/ peer[c] = "rst" \/ g_bEndServer \/ ~Alive

\* Every shutdown runs to its end: the workers all leave, so the wait for
\* them returns, and the walk over the list is finite.
ShutdownCompletes == mpc = "finally" ~> mpc = "test" \/ ~Alive

\* A console event that arrives while main is serving ends the pass.
CtrlEndsService ==
    hpc = "take" /\ mpc \in {"accept", "accepting", "update", "check", "recv"}
      ~> mpc = "finally" \/ ~Alive

\* The server keeps the promise of EchoService to its connections.
Service == INSTANCE EchoService WITH
    Conns <- Ctxts,
    state <- [c \in Ctxts |-> CASE sock[c] = "none" -> "new"
                                [] sock[c] = "closed" -> "closed"
                                [] OTHER -> "open"],
    sent <- nsent,
    back <- echoed

ImplementsEchoService == Service!ServiceSpec
=============================================================================
