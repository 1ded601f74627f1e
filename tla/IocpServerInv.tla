---------------------------- MODULE IocpServerInv ----------------------------
(***************************************************************************)
(* The inductive invariants of IocpServer, in named parts: IInv, on which  *)
(* the proofs in IocpEchoProofs rest and which TLC checks too, and         *)
(* SafeIInv, on which those about the list in IocpServerProofs rest.       *)
(***************************************************************************)
EXTENDS IocpServer

\* The passes through the outer loop are paid for by console events.
RunBound ==
    /\ run + (IF mpc = "clearEnd" THEN 1 ELSE 0) + (IF g_bRestart THEN 1 ELSE 0) <= nctrl + 1
    /\ mpc = "clearRestart" => g_bRestart
    /\ mpc \notin {"test", "clearRestart", "clearEnd", "done"} => run > 0

\* While main sets up a connection it has one.
AcceptedSocket == mpc \in {"update", "check", "recv"} => sdAccept # NULL

\* A worker takes only the report of a success to the PER_IO_CONTEXT.
SuccessOnly == \A t \in Threads : wpc[t] = "io" => wpkt[t].ok

\* An operation stays within the buffer.
PendInBuffer == \A c \in Ctxts : pend[c].off + pend[c].len <= MAX_BUFF_SIZE

\* No packet, and no worker, has ever heard of c.
Unseen(c) ==
    /\ ~InKernel(c)
    /\ \A r \in Runs : \A i \in DOMAIN port[r] : port[r][i].ctxt # c
    /\ \A t \in Threads : wpkt[t].ctxt # c

\* A connection is new to the server until main posts the first read on it.
Fresh(c) ==
    /\ Unseen(c)
    /\ nrecvd[c] = 0 /\ echoed[c] = <<>> /\ IOOperation[c] = "ClientIoRead"

FreshConnections ==
    /\ \A c \in Ctxts : sock[c] \in {"none", "backlog"} => Fresh(c)
    /\ \A c \in Ctxts : sdAccept = c /\ mpc \in {"update", "check", "recv"}
                          => Fresh(c) /\ sock[c] = "open"

\* Sockets the server works on.
OpenSockets ==
    \A c \in Ctxts :
        /\ sdAccept = c \/ c \in list.live => sock[c] \in {"open", "closed"}
        /\ InKernel(c) => sock[c] = "open"
        /\ c \in list.live =>
             /\ \A r \in Runs : \A i \in DOMAIN port[r] : OnPort(c, r, i) => sock[c] = "open"
             /\ \A t \in Threads : WithWorker(c, t) => sock[c] = "open"

\* The bytes of c's buffer from place "from" on are the next ones to go back.
NextInBuffer(c, from, n) ==
    /\ from + n <= MAX_BUFF_SIZE
    /\ Len(echoed[c]) + n = nrecvd[c]
    /\ \A j \in 1..n : Buffer[c][from + j] = Len(echoed[c]) + j

\* The state of the echo protocol of c when a success of "size" bytes is
\* reported.
AfterSuccess(c, size) ==
    IF IOOperation[c] = "ClientIoRead"
      THEN NextInBuffer(c, 0, size)
      ELSE /\ nSentBytes[c] + size <= nTotalBytes[c]
           /\ NextInBuffer(c, nSentBytes[c] + size, nTotalBytes[c] - (nSentBytes[c] + size))

EchoProtocol ==
    \A c \in Ctxts :
        /\ pend[c].op = "recv" => /\ IOOperation[c] = "ClientIoRead"
                                  /\ pend[c].off = 0
                                  /\ Len(echoed[c]) = nrecvd[c]
        /\ pend[c].op = "send" => /\ IOOperation[c] = "ClientIoWrite"
                                  /\ pend[c].off = nSentBytes[c]
                                  /\ pend[c].off + pend[c].len = nTotalBytes[c]
                                  /\ NextInBuffer(c, pend[c].off, pend[c].len)
        /\ \A r \in Runs : \A i \in DOMAIN port[r] :
             OnPort(c, r, i) => AfterSuccess(c, port[r][i].size)
        /\ \A t \in Threads :
             wpc[t] \in {"got", "io"} /\ wpkt[t].ctxt = c /\ wpkt[t].ok => AfterSuccess(c, wpkt[t].size)
        /\ nrecvd[c] <= nsent[c]

IInv ==
    /\ TypeOK /\ RunBound /\ AcceptedSocket /\ SuccessOnly /\ PendInBuffer
    /\ OneOperation /\ FreshConnections /\ OpenSockets
    /\ EchoProtocol /\ EchoIsPrefix

-----------------------------------------------------------------------------
(* Connections that do not overlap: the invariant from which it follows that *)
(* no freed context is used and that a shutdown leaves nothing behind, as    *)
(* long as the wait for the workers has no timeout and CtxtAllocate does not *)
(* return a context that it freed.                                           *)

OneByOne == OneAtATime /\ ~Timeouts /\ "ioctxt" \notin Failures

\* A pass from the creation of its threads to the end of the wait for them.
Serving == {"threads", "socket", "bind", "accept", "accepting", "update", "check", "recv",
            "finally", "post", "wait"}
\* ... and where the server has its port and its threads.
SetUp == {"socket", "bind", "accept", "accepting", "update", "check", "recv"}
EndOfPass == {"finally", "post", "wait"}

\* Where there is no context.
NoContexts == {"closePort", "closeSockets", "test", "clearRestart", "clearEnd", "threads",
               "socket", "bind", "done"}

AtWork(t) == wpc[t] \in {"got", "io", "close"}
Gone(t) == wpc[t] \in {"none", "exit"}

\* A thread that never meets a context again.
Settled(t) ==
    \/ Gone(t)
    \/ /\ wpc[t] = "gqcs" /\ wpkt[t].ctxt = NULL
       /\ \A i \in DOMAIN port[t[1]] : port[t[1]][i].ctxt = NULL
AllSettled == \A t \in Threads : Settled(t)

\* The list has at most one context, which is its head.
SingleContext ==
    /\ ~list.uaf
    /\ \A c \in list.live : /\ list.g_pCtxtList = c
                            /\ list.pCtxtBack[c] = NULL /\ list.pCtxtForward[c] = NULL
    /\ list.live = {} => list.g_pCtxtList = NULL
    /\ mpc = "walk" => pTemp1 = list.g_pCtxtList

\* At most one connection is served; its socket is open and its context
\* listed, or main has it in its hands.
OneConnection ==
    /\ \A c, d \in Ctxts : sock[c] \in {"backlog", "open"} /\ sock[d] \in {"backlog", "open"} => c = d
    /\ \A c \in list.live : sock[c] = "open" /\ key[c] = run
    /\ \A c \in Ctxts : sock[c] = "open" /\ c \notin list.live =>
         /\ sdAccept = c
         /\ mpc \in {"update", "free", "walk", "closePort", "closeSockets"} \cup EndOfPass
    /\ mpc = "update" => sdAccept \notin list.live /\ sock[sdAccept] = "open"
    /\ mpc \in {"check", "recv"} => sdAccept \in list.live
    /\ mpc \in NoContexts => list.live = {}

\* One of main, kernel, port and workers has the context.
OneHolder ==
    /\ \A c \in Ctxts : InKernel(c) => c \in list.live /\ ~WithMain(c)
    /\ mpc \in Serving =>
         \A i \in DOMAIN port[run] : port[run][i].ctxt # NULL =>
           /\ port[run][i].ctxt \in list.live
           /\ ~WithMain(port[run][i].ctxt) /\ ~InKernel(port[run][i].ctxt)
           /\ \A j \in DOMAIN port[run] : port[run][j].ctxt # NULL => i = j
    /\ \A t \in Threads : AtWork(t) =>
         /\ mpc \in Serving /\ t[1] = run
         /\ wpkt[t].ctxt \in list.live
         /\ ~WithMain(wpkt[t].ctxt) /\ ~InKernel(wpkt[t].ctxt)
         /\ \A i \in DOMAIN port[run] : port[run][i].ctxt = NULL
         /\ \A u \in Threads : AtWork(u) => u = t

\* Threads of earlier passes meet no context, those of later ones do not
\* exist, and those of this one are waited for before the list is freed.
PassesApart ==
    /\ \A t \in Threads : t[1] # run => Settled(t)
    /\ mpc \notin Serving => AllSettled
    /\ mpc \in {"free", "walk"} /\ list.live # {} => \A t \in Threads : t[1] = run => Gone(t)
    /\ \A r \in Runs : r > run => port[r] = <<>>
    /\ \A t \in Threads : t[1] > run \/ (t[1] = run /\ mpc = "threads") =>
         wpc[t] = "none" /\ wpkt[t].ctxt = NULL

\* Port and thread handles of this pass.
PassSetUp ==
    /\ mpc \in SetUp => g_hIOCP = run /\ run \in openPorts
    /\ mpc \in SetUp => \A i \in 1..ThreadCount : g_ThreadHandles[i] = <<run, i>>
    /\ mpc \in EndOfPass =>
         /\ g_hIOCP \in {run, INVALID}
         /\ \/ run \in openPorts /\ \A i \in 1..ThreadCount : g_ThreadHandles[i] = <<run, i>>
            \/ g_ThreadHandles[ThreadCount] = NoThread /\ AllSettled /\ list.live = {}
    /\ mpc \notin SetUp \cup EndOfPass => g_ThreadHandles[ThreadCount] = NoThread

\* The workers have been told to leave from the posting of the exit packets to
\* the end of the cleanup.
ToldToLeave == mpc \in {"post", "wait", "free", "walk"} => g_bEndServer

SafeInv == SingleContext /\ OneConnection /\ OneHolder /\ PassesApart /\ PassSetUp
SafeIInv == OneByOne => SafeInv
=============================================================================
