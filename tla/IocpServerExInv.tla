--------------------------- MODULE IocpServerExInv ---------------------------
(***************************************************************************)
(* The inductive invariants of IocpServerEx, in named parts: what the      *)
(* proofs in IocpServerExProofs rest on.  IInv holds of every server,      *)
(* CleanIInv speaks of connections that do not overlap.                    *)
(***************************************************************************)
EXTENDS IocpServerEx

\* The passes through the loop of main are paid for by console events.
RunBound ==
    /\ run + (IF mpc \in {"clearEnd", "reset"} THEN 1 ELSE 0) + (IF g_bRestart THEN 1 ELSE 0)
         <= nctrl + 1
    /\ mpc = "clearRestart" => g_bRestart
    /\ mpc \notin {"test", "clearRestart", "clearEnd", "reset", "done"} => run > 0

\* A port belongs to its pass, and nothing is known of a pass to come.
Passes ==
    /\ g_hIOCP \in {INVALID, run}
    /\ mpc \in {"test", "clearRestart", "clearEnd", "reset", "threads", "done"} => g_hIOCP = INVALID
    /\ mpc \in {"listen", "accept"} => g_hIOCP = run
    /\ \A x \in Ctxts : key[x] <= run
    /\ \A t \in Threads : t[1] > run \/ (t[1] = run /\ mpc = "threads") => wpc[t] = "none"

\* The accept of pass r has not been posted yet.
NotYet(r) == r > run \/ (r = run /\ mpc \in {"threads", "listen", "accept"})
NoAcceptYet ==
    \A r \in Runs : NotYet(r) =>
        /\ \A i \in DOMAIN port[r] : port[r][i].ctxt # Listen
        /\ \A t \in Threads : t[1] = r => wpkt[t].ctxt # Listen

\* The listening context exists from the first accept to MainFreeListen.
ListenContext ==
    /\ g_pCtxtListenSocket = NULL =>
         /\ Listen \notin list.live /\ ~InKernel(Listen) /\ SocketAccept \notin Conns
         /\ \A t \in Threads : t[1] = run => wpc[t] \notin {"first", "repost"}
    /\ g_pCtxtListenSocket = Listen => key[Listen] = run
    /\ mpc \notin {"serve", "finally", "post", "join", "closeListen", "freeListen"}
         => g_pCtxtListenSocket = NULL
    /\ io[Listen].IOOperation = "ClientIoAccept"
    /\ InKernel(Listen) => pend[Listen] = [op |-> "accept", off |-> 0, len |-> MAX_BUFF_SIZE - AddrSize]

WorkerPackets ==
    \A t \in Threads :
        /\ wpc[t] \in {"got", "io", "first", "repost"} => wpkt[t].ctxt # NULL
        /\ wpc[t] \in {"first", "repost"} => wpkt[t].ok /\ wpkt[t].ctxt = Listen

\* A thread that will not leave the section has ended, and when the section
\* is taken no accept is being worked on.
Section ==
    /\ cs \in Threads => wpc[cs] = "exit"
    /\ cs # NoThread => \A t \in Threads : t[1] = run => wpc[t] \notin {"first", "repost"}

\* The end of a pass: every worker is asked to exit, and after the join none
\* can set up a connection.
Ending ==
    /\ mpc \in {"post", "join", "closeListen", "freeListen"} => g_bEndServer
    /\ mpc \in {"listen", "accept"} \/ (g_pCtxtListenSocket = Listen /\ mpc \in {"serve", "finally", "post", "join"})
         => \A i \in 1..ThreadCount : g_ThreadHandles[i] = <<run, i>>
    /\ g_pCtxtListenSocket = Listen /\ mpc \in {"closeListen", "freeListen"} =>
         \A t \in Threads : t[1] = run =>
             /\ wpc[t] \in {"gqcs", "got", "io", "exit"}
             /\ wpc[t] = "io" => ~CanLock(t)

\* A connection that no operation of its own has been posted on.
IsNew(c) == io[c].IOOperation = "ClientIoAccept"
Unseen(c) ==
    /\ ~InKernel(c)
    /\ \A r \in Runs : \A i \in DOMAIN port[r] : port[r][i].ctxt # c
    /\ \A t \in Threads : wpkt[t].ctxt # c
WorkerOfPass(at) == \E t \in Threads : t[1] = run /\ wpc[t] = at

New(c) ==
    /\ IsNew(c) => Unseen(c) /\ conn[c].echoed = <<>>
    /\ sock[c] \in {"none", "backlog"} => IsNew(c) /\ conn[c].nrecvd = 0 /\ SocketAccept # c

\* Sockets the server works on.
Socket(c) ==
    InKernel(c) \/ c \in list.live \/ (SocketAccept = c /\ IsNew(c)) => sock[c] = "open"

\* The accept that took c from the backlog is in one hand until c is set up,
\* and the first n bytes of c come with it.
FirstData(c, n) ==
    /\ conn[c].nrecvd = n /\ n <= MAX_BUFF_SIZE - AddrSize
    /\ ZeroBytes = {} => \A j \in 1..n : io[Listen].Buffer[j] = j

Accepting(c) ==
    /\ IsNew(c) /\ c \in list.live => SocketAccept = c /\ WorkerOfPass("first")
    /\ SocketAccept = c =>
         /\ IsNew(c) \/ WorkerOfPass("repost")
         /\ InKernel(Listen) => conn[c].nrecvd = 0
         /\ \A i \in DOMAIN port[run] : OnPort(Listen, run, i) => FirstData(c, port[run][i].size)
         /\ \A t \in Threads : WithWorker(Listen, t) /\ wpc[t] # "repost" => FirstData(c, wpkt[t].size)

\* Who has the report of a completed accept finds its connection.
Accepted ==
    g_pCtxtListenSocket = Listen =>
        /\ \A r \in Runs : \A i \in DOMAIN port[r] : OnPort(Listen, r, i) => SocketAccept \in Conns
        /\ \A t \in Threads : WithWorker(Listen, t) => SocketAccept \in Conns

\* The n bytes of c's buffer after the first "from" are the next to go back.
NextInBuffer(c, from, n) ==
    /\ from + n <= MAX_BUFF_SIZE
    /\ Len(conn[c].echoed) + n = conn[c].nrecvd
    /\ ZeroBytes = {} => \A j \in 1..n : io[c].Buffer[from + j] = Len(conn[c].echoed) + j

\* The state of the echo protocol of c when a success of "size" bytes is
\* reported.
AfterSuccess(c, size) ==
    IF io[c].IOOperation = "ClientIoRead"
      THEN NextInBuffer(c, 0, size)
      ELSE /\ io[c].nSentBytes + size <= io[c].nTotalBytes
           /\ NextInBuffer(c, io[c].nSentBytes + size, io[c].nTotalBytes - (io[c].nSentBytes + size))

Echo(c) ==
    /\ pend[c].op # "accept"
    /\ pend[c].op = "recv" => /\ io[c].IOOperation = "ClientIoRead"
                              /\ pend[c].off = 0
                              /\ Len(conn[c].echoed) = conn[c].nrecvd
    /\ pend[c].op = "send" => /\ io[c].IOOperation = "ClientIoWrite"
                              /\ pend[c].off = io[c].nSentBytes
                              /\ pend[c].off + pend[c].len = io[c].nTotalBytes
                              /\ NextInBuffer(c, pend[c].off, pend[c].len)
    /\ \A r \in Runs : \A i \in DOMAIN port[r] :
         OnPort(c, r, i) => AfterSuccess(c, port[r][i].size)
    /\ \A t \in Threads :
         wpc[t] \in {"got", "io"} /\ wpkt[t].ctxt = c /\ wpkt[t].ok => AfterSuccess(c, wpkt[t].size)
    /\ conn[c].nrecvd <= conn[c].nsent

Control ==
    /\ Passes /\ NoAcceptYet /\ ListenContext /\ WorkerPackets /\ Section /\ Ending
    /\ Accepted /\ AcceptGoesOn

Good(c) == New(c) /\ Socket(c) /\ Accepting(c) /\ Echo(c)

IInv == TypeOK /\ RunBound /\ Control /\ OneOperation /\ \A c \in Conns : Good(c)

-----------------------------------------------------------------------------
(* Connections that do not overlap: the invariant from which it follows that *)
(* the cleanup frees every context once and closes every socket, as long as  *)
(* CtxtAllocate does not return a context that it freed.                     *)

OneByOne == OneAtATime /\ "ioctxt" \notin Failures

\* No failed association has lost a port.
NoneLost == openPorts \subseteq {g_hIOCP}

\* The list has at most one context, which is its head.
SingleContext ==
    /\ \A c \in Conns \cap list.live : /\ list.g_pCtxtList = c
                                       /\ list.pCtxtBack[c] = NULL /\ list.pCtxtForward[c] = NULL
    /\ list.live \subseteq {Listen} => list.g_pCtxtList = NULL
    /\ mpc = "walk" => pTemp1 = list.g_pCtxtList

\* At most one connection is served, and an open socket is that of a context
\* or of the accept.
OneConnection ==
    /\ \A c, d \in Conns : sock[c] \in {"backlog", "open"} /\ sock[d] \in {"backlog", "open"} => c = d
    /\ \A c \in Conns : sock[c] = "open" => c \in list.live \/ SocketAccept = c
    /\ \A c \in Conns : sock[c] = "backlog" => g_sdListen = "listening"
    /\ g_sdListen = "listening" => mpc \in {"accept", "serve", "finally", "post", "join", "closeListen"}

\* The listening context: without it there is no other, until the list is freed.
Listener ==
    /\ g_pCtxtListenSocket = Listen => Listen \in list.live
    /\ g_pCtxtListenSocket = NULL => SocketAccept = NULL
    /\ g_pCtxtListenSocket = NULL /\ mpc \notin {"free", "walk"} => list.live = {}

\* The connection that a worker sets up has a context, which may be closed
\* again before the next accept.
BeingSetUp ==
    \A t \in Threads : t[1] = run =>
        /\ wpc[t] = "first" => SocketAccept \in list.live
        /\ wpc[t] = "repost" /\ SocketAccept \in Conns =>
             SocketAccept \in list.live \/ sock[SocketAccept] = "closed"

\* Main has the section when it frees the list, and when somebody has entered
\* it for good no connection is served.
Lock ==
    /\ cs = MainThread => mpc = "walk"
    /\ mpc = "walk" => cs \in {MainThread, Leaked}
    /\ cs \notin {NoThread, MainThread} => list.live \subseteq {Listen}

Structure == SingleContext /\ OneConnection /\ Listener /\ BeingSetUp /\ Lock

\* A pass up to the join of its threads.
Serving == {"threads", "listen", "accept", "serve", "finally", "post", "join"}
AtWork(t) == wpc[t] \in {"got", "io", "first", "repost"}

\* A thread that has ended, or waits for a section that nobody will leave.
Dead(t) == wpc[t] \in {"none", "exit"} \/ (wpc[t] = "io" /\ cs \notin {NoThread, MainThread})

\* A thread that never meets a context again.
Settled(t) ==
    \/ Dead(t)
    \/ /\ wpc[t] = "gqcs" /\ wpkt[t].ctxt = NULL
       /\ \A i \in DOMAIN port[t[1]] : port[t[1]][i].ctxt = NULL

\* A port is opened once, and the one that is open is that of the pass.
\* Without it the pass has neither threads nor contexts.
OpenedOnce == \A r \in openPorts : r <= run /\ (mpc = "threads" => r < run)
Ports ==
    /\ mpc \in {"listen", "accept"} => run \in openPorts
    /\ g_hIOCP # INVALID => g_hIOCP \in openPorts
    /\ mpc \in (Serving \cup {"closeListen", "freeListen", "free", "walk", "closePort"}) \ {"threads"}
         /\ run \notin openPorts =>
             /\ g_pCtxtListenSocket = NULL
             /\ \A t \in Threads : t[1] = run => wpc[t] = "none"

\* Operations are pending on contexts of the pass.
OfThisPass ==
    /\ \A x \in list.live : key[x] = run
    /\ \A x \in Ctxts : InKernel(x) => x \in list.live

\* Until the join, the packets of the pass and its workers have contexts that
\* exist, and one of kernel, port and workers has that of a connection.
PacketHolds(i) ==
    LET x == port[run][i].ctxt IN x # NULL =>
        /\ x \in list.live
        /\ x \in Conns => /\ ~InKernel(x)
                          /\ \A j \in DOMAIN port[run] : port[run][j].ctxt = x => i = j
WorkerHolds(t) ==
    LET x == wpkt[t].ctxt IN t[1] = run /\ AtWork(t) =>
        /\ x \in list.live
        /\ x \in Conns =>
             /\ ~InKernel(x)
             /\ \A i \in DOMAIN port[run] : port[run][i].ctxt # x
             /\ \A u \in Threads : u[1] = run /\ AtWork(u) /\ wpkt[u].ctxt = x => u = t
Held ==
    mpc \in Serving =>
        /\ \A i \in DOMAIN port[run] : PacketHolds(i)
        /\ \A t \in Threads : WorkerHolds(t)
        /\ g_pCtxtListenSocket = NULL => \A t \in Threads : t[1] = run => wpkt[t].ctxt = NULL

\* Threads of earlier passes meet no context again, and those of this pass
\* neither after the join.
PassesApart ==
    /\ \A t \in Threads : t[1] # run \/ mpc \notin Serving => Settled(t)
    /\ mpc \notin Serving /\ list.live # {} => \A t \in Threads : t[1] = run => Dead(t)

\* While main waits, each thread that has not ended has a packet with a NULL
\* key of its own to end by.
ExitForEach ==
    mpc = "join" /\ g_pCtxtListenSocket = Listen =>
        \E f \in [1..ThreadCount -> 0..Len(port[run])] :
            \A i \in 1..ThreadCount : wpc[<<run, i>>] # "exit" =>
                /\ f[i] # 0 /\ port[run][f[i]].ctxt = NULL
                /\ \A j \in 1..ThreadCount : wpc[<<run, j>>] # "exit" /\ f[i] = f[j] => i = j

\* The ports and threads of the passes to come have met no context.
Untouched ==
    /\ \A r \in Runs : r > run => port[r] = <<>>
    /\ \A t \in Threads : t[1] > run => wpkt[t].ctxt = NULL

Holding == Ports /\ OfThisPass /\ Held /\ PassesApart /\ ExitForEach /\ Untouched

CleanIInv ==
    OneByOne =>
        /\ OpenedOnce /\ (list.uaf => mpc # "done")
        /\ ~list.uaf => Structure
        /\ NoneLost => ~list.uaf /\ Holding
=============================================================================
